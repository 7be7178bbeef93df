------------------------- MODULE ApplicationsProofs -------------------------
(***************************************************************************)
(* What was proved of each program of the repository holds when they run   *)
(* side by side.  The sessions and the dictionary have modules of their own*)
(* for that, MailProofs and DictServerProofs; the threads of a network     *)
(* layer, and the mail sender, are proved about here.                      *)
(***************************************************************************)
EXTENDS Applications, Integers, SequenceTheorems, WellFoundedInduction, TLAPS

-----------------------------------------------------------------------------
(***************************************************************************)
(* The order of the mutexes of NetworkLayer: its threads never wait for    *)
(* each other in a circle, for any number of connections.  A step of a     *)
(* thread is safe if what the thread holds by then comes before what it    *)
(* locks; what a thread holds can be read from the steps it has still to   *)
(* do, as each function unlocks what it has locked.                        *)
(***************************************************************************)

Steps ==
    [what : {"lock", "unlock"}, which : Locks!Mutexes] \union
    [what : {"start", "stop", "join", "end"}, which : Locks!Threads]

\* The order in which the functions take the mutexes.
Level(m) ==
    CASE m = "send"        -> 1
      [] m = "neighbours"  -> 2
      [] m = "connections" -> 3
      [] m = "expires"     -> 4
      [] m = "go"          -> 5
      [] m = "routes"      -> 6

Takes(s, i, m) == s[i].what = "lock" /\ s[i].which = m
Unlocks(s, i, m) == s[i].what = "unlock" /\ s[i].which = m

\* What a thread must hold when it has the steps of s from i on still to do: it
\* unlocks it before it locks it.
HeldAt(s, i) ==
    {m \in Locks!Mutexes :
        \E k \in i .. Len(s) :
           Unlocks(s, k, m) /\ \A j \in i .. k - 1 : ~ Takes(s, j, m)}

\* Each lock is taken in the order, and given back.
Orderly(s) ==
    /\ s \in Seq(Steps)
    /\ \A i \in 1 .. Len(s), m \in Locks!Mutexes :
          Takes(s, i, m) =>
             /\ m \in HeldAt(s, i + 1)
             /\ \A h \in HeldAt(s, i) : Level(h) < Level(m)

\* Nobody waits for the end of a thread that takes mutexes.
JoinsQuiet(s) ==
    \A i \in 1 .. Len(s) :
        s[i].what = "join" => s[i].which \in Connections \intersect Quiet

\* A part of a function that gives back what it takes, all of it above n.
Block(s, n) ==
    /\ Orderly(s)
    /\ JoinsQuiet(s)
    /\ HeldAt(s, 1) = {}
    /\ \A i \in 1 .. Len(s), m \in Locks!Mutexes : Takes(s, i, m) => n < Level(m)

-----------------------------------------------------------------------------
\* The levels are numbers.
LEMMA LevelType ==
    \A m \in Locks!Mutexes : Level(m) \in 1 .. 6
BY DEF Locks!Mutexes, Level

\* The order of the layer.
LEMMA LevelOrder ==
    /\ Level("send") = 1 /\ Level("neighbours") = 2 /\ Level("connections") = 3
    /\ Level("expires") = 4 /\ Level("go") = 5 /\ Level("routes") = 6
BY DEF Level

\* After its first step a thread holds what it should.
LEMMA HeldAtTail ==
    ASSUME NEW s \in Seq(Steps), s # << >>, NEW i \in Nat \ {0}
    PROVE  HeldAt(Tail(s), i) = HeldAt(s, i + 1)
<1>1. /\ Tail(s) \in Seq(Steps)
      /\ Len(s) \in Nat \ {0}
      /\ Len(Tail(s)) = Len(s) - 1
      /\ \A k \in 1 .. Len(Tail(s)) : Tail(s)[k] = s[k + 1]
  BY HeadTailProperties, LenProperties
<1> DEFINE t == Tail(s)
<1> HIDE DEF t
<1>2. ASSUME NEW m \in HeldAt(t, i)
      PROVE  m \in HeldAt(s, i + 1)
  <2>1. PICK k \in i .. Len(t) :
               Unlocks(t, k, m) /\ \A j \in i .. k - 1 : ~ Takes(t, j, m)
    BY <1>2 DEF HeldAt
  <2>2. k + 1 \in i + 1 .. Len(s) /\ Unlocks(s, k + 1, m)
    BY <1>1, <2>1 DEF Unlocks, t
  <2>3. ASSUME NEW j \in i + 1 .. (k + 1) - 1
        PROVE  ~ Takes(s, j, m)
    <3>1. j - 1 \in i .. k - 1 /\ j - 1 \in 1 .. Len(t) /\ (j - 1) + 1 = j
      BY <2>1
    <3>2. QED  BY <1>1, <2>1, <3>1 DEF Takes, t
  <2>4. m \in Locks!Mutexes
    BY <1>2 DEF HeldAt
  <2>5. QED  BY <2>2, <2>3, <2>4 DEF HeldAt
<1>3. ASSUME NEW m \in HeldAt(s, i + 1)
      PROVE  m \in HeldAt(t, i)
  <2>1. PICK k \in i + 1 .. Len(s) :
               Unlocks(s, k, m) /\ \A j \in i + 1 .. k - 1 : ~ Takes(s, j, m)
    BY <1>3 DEF HeldAt
  <2>2. k - 1 \in i .. Len(t) /\ Unlocks(t, k - 1, m)
    <3>1. k - 1 \in 1 .. Len(t) /\ (k - 1) + 1 = k /\ k - 1 \in i .. Len(t)
      BY <1>1, <2>1 DEF t
    <3>2. QED  BY <1>1, <2>1, <3>1 DEF Unlocks, t
  <2>3. ASSUME NEW j \in i .. (k - 1) - 1
        PROVE  ~ Takes(t, j, m)
    <3>1. j + 1 \in i + 1 .. k - 1 /\ j \in 1 .. Len(t)
      BY <1>1, <2>1, <2>2
    <3>2. QED  BY <1>1, <2>1, <3>1 DEF Takes, t
  <2>4. m \in Locks!Mutexes
    BY <1>3 DEF HeldAt
  <2>5. QED  BY <2>2, <2>3, <2>4 DEF HeldAt
<1>4. QED  BY <1>2, <1>3 DEF t

\* And what is left is in order.
LEMMA OrderlyTail ==
    ASSUME NEW s, Orderly(s), s # << >>
    PROVE  Orderly(Tail(s))
<1>1. s \in Seq(Steps)
  BY DEF Orderly
<1>2. /\ Tail(s) \in Seq(Steps)
      /\ Len(s) \in Nat \ {0}
      /\ Len(Tail(s)) = Len(s) - 1
      /\ \A k \in 1 .. Len(Tail(s)) : Tail(s)[k] = s[k + 1]
  BY <1>1, HeadTailProperties, LenProperties
<1> SUFFICES ASSUME NEW i \in 1 .. Len(Tail(s)), NEW m \in Locks!Mutexes,
                    Takes(Tail(s), i, m)
             PROVE  /\ m \in HeldAt(Tail(s), i + 1)
                    /\ \A h \in HeldAt(Tail(s), i) : Level(h) < Level(m)
  BY <1>2 DEF Orderly
<1>3. i + 1 \in 1 .. Len(s) /\ Takes(s, i + 1, m)
      /\ i \in Nat \ {0} /\ i + 1 \in Nat \ {0}
  BY <1>2 DEF Takes
<1>4. m \in HeldAt(s, (i + 1) + 1) /\ \A h \in HeldAt(s, i + 1) : Level(h) < Level(m)
  BY <1>3 DEF Orderly
<1>5. QED  BY <1>1, <1>3, <1>4, HeldAtTail

\* A block before the rest of a function, whose mutexes are all above what the
\* rest has to unlock.
LEMMA Prepend ==
    ASSUME NEW n, NEW s, NEW t, Block(s, n), Orderly(t),
           \A m \in Locks!Mutexes, h \in HeldAt(t, 1) :
              n < Level(m) => Level(h) < Level(m)
    PROVE  Orderly(s \o t) /\ HeldAt(s \o t, 1) = HeldAt(t, 1)
<1> DEFINE st == s \o t
<1>1. s \in Seq(Steps) /\ t \in Seq(Steps)
  BY DEF Block, Orderly
<1>2. /\ st \in Seq(Steps)
      /\ Len(s) \in Nat /\ Len(t) \in Nat
      /\ Len(st) = Len(s) + Len(t)
      /\ \A i \in 1 .. Len(s) + Len(t) :
            st[i] = IF i <= Len(s) THEN s[i] ELSE t[i - Len(s)]
  BY <1>1, ConcatProperties, LenProperties
<1> HIDE DEF st
<1>3. \A i \in 1 .. Len(s), m \in Locks!Mutexes :
         /\ Takes(st, i, m) <=> Takes(s, i, m)
         /\ Unlocks(st, i, m) <=> Unlocks(s, i, m)
  BY <1>2 DEF Takes, Unlocks
<1>4. \A i \in 1 .. Len(t), m \in Locks!Mutexes :
         /\ i + Len(s) \in 1 .. Len(st)
         /\ Takes(st, i + Len(s), m) <=> Takes(t, i, m)
         /\ Unlocks(st, i + Len(s), m) <=> Unlocks(t, i, m)
  <2> SUFFICES ASSUME NEW i \in 1 .. Len(t)
               PROVE  i + Len(s) \in 1 .. Len(st) /\ st[i + Len(s)] = t[i]
    BY DEF Takes, Unlocks
  <2>1. /\ i + Len(s) \in 1 .. Len(s) + Len(t) /\ ~ (i + Len(s) <= Len(s))
        /\ (i + Len(s)) - Len(s) = i
    BY <1>2
  <2>2. QED  BY <1>2, <2>1
<1>5. ASSUME NEW i \in 1 .. Len(t) + 1, NEW m \in Locks!Mutexes
      PROVE  m \in HeldAt(st, i + Len(s)) <=> m \in HeldAt(t, i)
  <2>1. ASSUME m \in HeldAt(t, i)
        PROVE  m \in HeldAt(st, i + Len(s))
    <3>1. PICK k \in i .. Len(t) :
                 Unlocks(t, k, m) /\ \A j \in i .. k - 1 : ~ Takes(t, j, m)
      BY <2>1 DEF HeldAt
    <3>2. k + Len(s) \in i + Len(s) .. Len(st) /\ Unlocks(st, k + Len(s), m)
      BY <1>2, <1>4, <3>1
    <3>3. ASSUME NEW j \in i + Len(s) .. (k + Len(s)) - 1
          PROVE  ~ Takes(st, j, m)
      <4>1. /\ j - Len(s) \in i .. k - 1 /\ j - Len(s) \in 1 .. Len(t)
            /\ (j - Len(s)) + Len(s) = j
        BY <1>2, <3>1
      <4>2. QED  BY <1>4, <3>1, <4>1
    <3>4. QED  BY <3>2, <3>3 DEF HeldAt
  <2>2. ASSUME m \in HeldAt(st, i + Len(s))
        PROVE  m \in HeldAt(t, i)
    <3>1. PICK k \in i + Len(s) .. Len(st) :
                 Unlocks(st, k, m)
                 /\ \A j \in i + Len(s) .. k - 1 : ~ Takes(st, j, m)
      BY <2>2 DEF HeldAt
    <3>2. /\ k - Len(s) \in i .. Len(t) /\ k - Len(s) \in 1 .. Len(t)
          /\ (k - Len(s)) + Len(s) = k
      BY <1>2, <3>1
    <3>3. Unlocks(t, k - Len(s), m)
      BY <1>4, <3>1, <3>2
    <3>4. ASSUME NEW j \in i .. (k - Len(s)) - 1
          PROVE  ~ Takes(t, j, m)
      <4>1. j + Len(s) \in i + Len(s) .. k - 1 /\ j \in 1 .. Len(t)
        BY <1>2, <3>1, <3>2
      <4>2. QED  BY <1>4, <3>1, <4>1
    <3>5. QED  BY <3>2, <3>3, <3>4 DEF HeldAt
  <2>3. QED  BY <2>1, <2>2
<1>6. ASSUME NEW i \in 1 .. Len(s) + 1, NEW m \in HeldAt(s, i)
      PROVE  m \in HeldAt(st, i)
  <2>1. PICK k \in i .. Len(s) :
               Unlocks(s, k, m) /\ \A j \in i .. k - 1 : ~ Takes(s, j, m)
    BY <1>6 DEF HeldAt
  <2>2. m \in Locks!Mutexes
    BY <1>6 DEF HeldAt
  <2>3. k \in i .. Len(st) /\ Unlocks(st, k, m)
    BY <1>2, <1>3, <2>1, <2>2
  <2>4. \A j \in i .. k - 1 : ~ Takes(st, j, m)
    <3>1. \A j \in i .. k - 1 : j \in 1 .. Len(s)
      BY <1>2, <2>1
    <3>2. QED  BY <1>3, <2>1, <2>2, <3>1
  <2>5. QED  BY <2>2, <2>3, <2>4 DEF HeldAt
<1>7. ASSUME NEW i \in 1 .. Len(s) + 1, NEW m \in HeldAt(st, i)
      PROVE  m \in HeldAt(s, i) \/ m \in HeldAt(t, 1)
  <2>1. PICK k \in i .. Len(st) :
               Unlocks(st, k, m) /\ \A j \in i .. k - 1 : ~ Takes(st, j, m)
    BY <1>7 DEF HeldAt
  <2>2. m \in Locks!Mutexes
    BY <1>7 DEF HeldAt
  <2>3. CASE k <= Len(s)
    <3>1. k \in i .. Len(s) /\ Unlocks(s, k, m)
      BY <1>2, <1>3, <2>1, <2>2, <2>3
    <3>2. \A j \in i .. k - 1 : j \in 1 .. Len(s)
      BY <1>2, <2>1, <2>3
    <3>3. \A j \in i .. k - 1 : ~ Takes(s, j, m)
      BY <1>3, <2>1, <2>2, <3>2
    <3>4. QED  BY <2>2, <3>1, <3>3 DEF HeldAt
  <2>4. CASE ~ (k <= Len(s))
    <3>1. k \in 1 + Len(s) .. Len(st) /\ 1 \in 1 .. Len(t) + 1
      BY <1>2, <2>1, <2>4
    <3>2. \A j \in 1 + Len(s) .. k - 1 : ~ Takes(st, j, m)
      <4>1. \A j \in 1 + Len(s) .. k - 1 : j \in i .. k - 1
        BY <1>2, <2>1
      <4>2. QED  BY <2>1, <4>1
    <3>3. m \in HeldAt(st, 1 + Len(s))
      BY <2>1, <2>2, <3>1, <3>2 DEF HeldAt
    <3>4. QED  BY <1>5, <2>2, <3>1, <3>3
  <2>5. QED  BY <2>3, <2>4
<1>8. Orderly(st)
  <2> SUFFICES ASSUME NEW i \in 1 .. Len(st), NEW m \in Locks!Mutexes, Takes(st, i, m)
               PROVE  /\ m \in HeldAt(st, i + 1)
                      /\ \A h \in HeldAt(st, i) : Level(h) < Level(m)
    BY <1>2 DEF Orderly
  <2>1. CASE i <= Len(s)
    <3>1. i \in 1 .. Len(s) /\ i \in 1 .. Len(s) + 1 /\ i + 1 \in 1 .. Len(s) + 1
      BY <1>2, <2>1
    <3>2. Takes(s, i, m)
      BY <1>3, <3>1
    <3>3. m \in HeldAt(s, i + 1) /\ \A h \in HeldAt(s, i) : Level(h) < Level(m)
      BY <3>1, <3>2 DEF Block, Orderly
    <3>4. n < Level(m)
      BY <3>1, <3>2 DEF Block
    <3>5. \A h \in HeldAt(t, 1) : Level(h) < Level(m)
      BY <3>4
    <3>6. QED  BY <1>6, <1>7, <3>1, <3>3, <3>5
  <2>2. CASE ~ (i <= Len(s))
    <3> DEFINE j == i - Len(s)
    <3>1. /\ j \in 1 .. Len(t) /\ j \in 1 .. Len(t) + 1 /\ j + 1 \in 1 .. Len(t) + 1
          /\ j + Len(s) = i /\ (j + 1) + Len(s) = i + 1
      BY <1>2, <2>2
    <3> HIDE DEF j
    <3>2. Takes(t, j, m)
      BY <1>4, <3>1
    <3>3. m \in HeldAt(t, j + 1) /\ \A h \in HeldAt(t, j) : Level(h) < Level(m)
      BY <3>1, <3>2 DEF Orderly
    <3>4. \A h \in HeldAt(st, i) : h \in Locks!Mutexes
      BY DEF HeldAt
    <3>5. QED  BY <1>5, <3>1, <3>3, <3>4
  <2>3. QED  BY <2>1, <2>2
<1>9. HeldAt(st, 1) = HeldAt(t, 1)
  <2>1. 1 \in 1 .. Len(s) + 1
    BY <1>2
  <2>2. HeldAt(s, 1) = {}
    BY DEF Block
  <2>3. \A m \in HeldAt(st, 1) : m \in HeldAt(t, 1)
    BY <1>7, <2>1, <2>2
  <2>4. ASSUME NEW m \in HeldAt(t, 1)
        PROVE  m \in HeldAt(st, 1)
    <3>1. /\ m \in Locks!Mutexes /\ 1 \in 1 .. Len(t) + 1
      BY <1>2 DEF HeldAt
    <3>2. m \in HeldAt(st, 1 + Len(s))
      BY <1>5, <3>1
    <3>3. PICK k \in 1 + Len(s) .. Len(st) :
                 Unlocks(st, k, m)
                 /\ \A j \in 1 + Len(s) .. k - 1 : ~ Takes(st, j, m)
      BY <3>2 DEF HeldAt
    <3>4. ASSUME NEW j \in 1 .. k - 1
          PROVE  ~ Takes(st, j, m)
      <4>1. CASE j <= Len(s)
        <5>1. j \in 1 .. Len(s)
          BY <1>2, <4>1
        <5>2. SUFFICES ~ Takes(s, j, m)
          BY <1>3, <3>1, <5>1
        <5>3. ~ (n < Level(m))
          <6>1. n < Level(m) => Level(m) < Level(m)
            BY <3>1
          <6>2. Level(m) \in Int
            BY <3>1, LevelType
          <6>3. QED  BY <6>1, <6>2
        <5>4. QED  BY <3>1, <5>1, <5>3 DEF Block
      <4>2. CASE ~ (j <= Len(s))
        <5>1. j \in 1 + Len(s) .. k - 1
          BY <1>2, <4>2
        <5>2. QED  BY <3>3, <5>1
      <4>3. QED  BY <4>1, <4>2
    <3>5. k \in 1 .. Len(st)
      BY <1>2, <3>3
    <3>6. QED  BY <3>1, <3>3, <3>4, <3>5 DEF HeldAt
  <2>5. QED  BY <2>3, <2>4
<1>10. QED  BY <1>8, <1>9 DEF st

\* Nothing is a block.
LEMMA BlockEmpty ==
    ASSUME NEW n
    PROVE  Block(<< >>, n)
<1>1. << >> \in Seq(Steps) /\ Len(<< >>) = 0
  BY EmptySeq
<1>2. QED  BY <1>1 DEF Block, Orderly, HeldAt, JoinsQuiet

\* A step that has nothing to do with mutexes is a block.
LEMMA BlockStep ==
    ASSUME NEW n, NEW what \in {"start", "stop", "join", "end"},
           NEW which \in Locks!Threads,
           what = "join" => which \in Connections \intersect Quiet
    PROVE  Block(<<Locks!Do(what, which)>>, n)
<1>1. /\ Locks!Do(what, which) \in Steps
      /\ Locks!Do(what, which).what = what /\ Locks!Do(what, which).which = which
  BY DEF Locks!Do, Steps
<1>2. /\ <<Locks!Do(what, which)>> \in Seq(Steps) /\ Len(<<Locks!Do(what, which)>>) = 1
      /\ <<Locks!Do(what, which)>>[1] = Locks!Do(what, which)
  BY <1>1
<1>3. QED  BY <1>1, <1>2 DEF Block, Orderly, HeldAt, Takes, Unlocks, JoinsQuiet

\* Nor does anybody in one part after another.
LEMMA JoinsConcat ==
    ASSUME NEW s \in Seq(Steps), NEW t \in Seq(Steps),
           JoinsQuiet(s), JoinsQuiet(t)
    PROVE  JoinsQuiet(s \o t)
<1>1. /\ Len(s) \in Nat /\ Len(t) \in Nat
      /\ Len(s \o t) = Len(s) + Len(t)
      /\ \A i \in 1 .. Len(s) + Len(t) :
            (s \o t)[i] = IF i <= Len(s) THEN s[i] ELSE t[i - Len(s)]
  BY ConcatProperties, LenProperties
<1>2. QED  BY <1>1 DEF JoinsQuiet

\* One block after another is a block.
LEMMA BlockConcat ==
    ASSUME NEW n, NEW s, NEW t, Block(s, n), Block(t, n)
    PROVE  Block(s \o t, n)
<1>1. Orderly(s \o t) /\ HeldAt(s \o t, 1) = {}
  <2>1. Orderly(t) /\ HeldAt(t, 1) = {}
    BY DEF Block
  <2>2. QED  BY <2>1, Prepend
<1>2. s \in Seq(Steps) /\ t \in Seq(Steps)
  BY DEF Block, Orderly
<1>3. /\ Len(s) \in Nat /\ Len(t) \in Nat
      /\ Len(s \o t) = Len(s) + Len(t)
      /\ \A i \in 1 .. Len(s) + Len(t) :
            (s \o t)[i] = IF i <= Len(s) THEN s[i] ELSE t[i - Len(s)]
  BY <1>2, ConcatProperties, LenProperties
<1>4. ASSUME NEW i \in 1 .. Len(s \o t), NEW m \in Locks!Mutexes, Takes(s \o t, i, m)
      PROVE  n < Level(m)
  <2>1. CASE i <= Len(s)
    <3>1. i \in 1 .. Len(s) /\ Takes(s, i, m)
      BY <1>3, <1>4, <2>1 DEF Takes
    <3>2. QED  BY <3>1 DEF Block
  <2>2. CASE ~ (i <= Len(s))
    <3>1. i - Len(s) \in 1 .. Len(t) /\ Takes(t, i - Len(s), m)
      BY <1>3, <1>4, <2>2 DEF Takes
    <3>2. QED  BY <3>1 DEF Block
  <2>3. QED  BY <2>1, <2>2
<1>5. JoinsQuiet(s \o t)
  BY <1>2, JoinsConcat DEF Block
<1>6. QED  BY <1>1, <1>4, <1>5 DEF Block

\* What is above a level is above a lower one.
LEMMA BlockBelow ==
    ASSUME NEW n \in Int, NEW k \in Int, k <= n, NEW s, Block(s, n)
    PROVE  Block(s, k)
<1>1. \A m \in Locks!Mutexes : n < Level(m) => k < Level(m)
  BY LevelType
<1>2. QED  BY <1>1 DEF Block

\* The last step of a function that gives back a mutex.
LEMMA OnlyUnlock ==
    ASSUME NEW m \in Locks!Mutexes
    PROVE  Orderly(<<Locks!Do("unlock", m)>>) /\ HeldAt(<<Locks!Do("unlock", m)>>, 1) = {m}
<1> DEFINE u == <<Locks!Do("unlock", m)>>
<1>1. /\ Locks!Do("unlock", m) \in Steps /\ Locks!Do("unlock", m).what = "unlock"
      /\ Locks!Do("unlock", m).which = m
  BY DEF Locks!Do, Steps
<1>2. u \in Seq(Steps) /\ Len(u) = 1 /\ u[1] = Locks!Do("unlock", m)
  BY <1>1
<1> HIDE DEF u
<1>3. Orderly(u)
  BY <1>1, <1>2 DEF Orderly, Takes
<1>4. \A h \in HeldAt(u, 1) : h = m
  BY <1>1, <1>2 DEF HeldAt, Unlocks
<1>5. m \in HeldAt(u, 1)
  <2>1. 1 \in 1 .. Len(u) /\ Unlocks(u, 1, m) /\ 1 .. 1 - 1 = {}
    BY <1>1, <1>2 DEF Unlocks
  <2>2. QED  BY <2>1 DEF HeldAt
<1>6. QED  BY <1>3, <1>4, <1>5 DEF u

\* The first step of a function that takes a mutex, when it gives back that
\* mutex and nothing else.
LEMMA LockFirst ==
    ASSUME NEW m \in Locks!Mutexes, NEW t, Orderly(t), HeldAt(t, 1) = {m}
    PROVE  /\ Orderly(<<Locks!Do("lock", m)>> \o t)
           /\ HeldAt(<<Locks!Do("lock", m)>> \o t, 1) = {}
           /\ (<<Locks!Do("lock", m)>> \o t)[1] = Locks!Do("lock", m)
           /\ Len(<<Locks!Do("lock", m)>> \o t) = Len(t) + 1
           /\ \A i \in 1 .. Len(t) : (<<Locks!Do("lock", m)>> \o t)[i + 1] = t[i]
<1> DEFINE s == <<Locks!Do("lock", m)>> \o t
<1>1. /\ Locks!Do("lock", m) \in Steps /\ Locks!Do("lock", m).what = "lock"
      /\ Locks!Do("lock", m).which = m
  BY DEF Locks!Do, Steps
<1>2. /\ <<Locks!Do("lock", m)>> \in Seq(Steps) /\ Len(<<Locks!Do("lock", m)>>) = 1
      /\ <<Locks!Do("lock", m)>>[1] = Locks!Do("lock", m)
  BY <1>1
<1>3. t \in Seq(Steps) /\ Len(t) \in Nat
  BY LenProperties DEF Orderly
<1>4. /\ s \in Seq(Steps)
      /\ Len(s) = 1 + Len(t)
      /\ \A i \in 1 .. 1 + Len(t) :
            s[i] = IF i <= 1 THEN Locks!Do("lock", m) ELSE t[i - 1]
  BY <1>2, <1>3, ConcatProperties
<1> HIDE DEF s
<1>5. s[1] = Locks!Do("lock", m) /\ Len(s) = Len(t) + 1 /\ s # << >>
  BY <1>3, <1>4
<1>6. \A i \in 1 .. Len(t) : s[i + 1] = t[i]
  BY <1>3, <1>4
<1>7. Tail(s) = t
  <2>1. Tail(s) \in Seq(Steps) /\ Len(Tail(s)) = Len(t)
        /\ \A i \in 1 .. Len(Tail(s)) : Tail(s)[i] = s[i + 1]
    BY <1>3, <1>4, <1>5, HeadTailProperties
  <2>2. QED  BY <1>3, <1>6, <2>1, SeqEqual
<1>8. \A i \in Nat \ {0} : HeldAt(t, i) = HeldAt(s, i + 1)
  BY <1>4, <1>5, <1>7, HeldAtTail
<1>9. HeldAt(s, 1) = {}
  <2> SUFFICES ASSUME NEW h \in HeldAt(s, 1)
               PROVE  FALSE
    OBVIOUS
  <2>1. PICK k \in 1 .. Len(s) :
               Unlocks(s, k, h) /\ \A j \in 1 .. k - 1 : ~ Takes(s, j, h)
    BY DEF HeldAt
  <2>2. k # 1
    BY <1>1, <1>5, <2>1 DEF Unlocks
  <2>3. 1 \in 1 .. k - 1 /\ k \in 2 .. Len(s)
    BY <1>3, <1>5, <2>1, <2>2
  <2>4. h # m
    BY <1>1, <1>5, <2>1, <2>3 DEF Takes
  <2>5. h \in HeldAt(s, 2)
    <3>1. h \in Locks!Mutexes
      BY DEF HeldAt
    <3>2. \A j \in 2 .. k - 1 : j \in 1 .. k - 1
      OBVIOUS
    <3>3. QED  BY <2>1, <2>3, <3>1, <3>2 DEF HeldAt
  <2>6. HeldAt(s, 1 + 1) = {m}
    BY <1>8
  <2>7. QED  BY <2>4, <2>5, <2>6
<1>10. Orderly(s)
  <2> SUFFICES ASSUME NEW i \in 1 .. Len(s), NEW l \in Locks!Mutexes, Takes(s, i, l)
               PROVE  /\ l \in HeldAt(s, i + 1)
                      /\ \A h \in HeldAt(s, i) : Level(h) < Level(l)
    BY <1>4 DEF Orderly
  <2>1. CASE i = 1
    <3>1. l = m
      BY <1>1, <1>5, <2>1 DEF Takes
    <3>2. HeldAt(s, 1 + 1) = {m}
      BY <1>8
    <3>3. QED  BY <1>9, <2>1, <3>1, <3>2
  <2>2. CASE i # 1
    <3>1. /\ i - 1 \in 1 .. Len(t) /\ (i - 1) + 1 = i /\ i - 1 \in Nat \ {0}
          /\ i \in Nat \ {0}
      BY <1>3, <1>5, <2>2
    <3>2. Takes(t, i - 1, l)
      BY <1>6, <3>1 DEF Takes
    <3>3. l \in HeldAt(t, i) /\ \A h \in HeldAt(t, i - 1) : Level(h) < Level(l)
      BY <3>1, <3>2 DEF Orderly
    <3>4. HeldAt(t, i) = HeldAt(s, i + 1) /\ HeldAt(t, i - 1) = HeldAt(s, i)
      <4>1. HeldAt(t, i - 1) = HeldAt(s, (i - 1) + 1)
        BY <1>8, <3>1
      <4>2. QED  BY <1>8, <3>1, <4>1
    <3>5. QED  BY <3>3, <3>4
  <2>3. QED  BY <2>1, <2>2
<1>11. QED  BY <1>5, <1>6, <1>9, <1>10 DEF s

\* A block with a QMutexLocker is a block.
LEMMA BlockLocked ==
    ASSUME NEW m \in Locks!Mutexes, NEW n \in Int, n < Level(m), NEW s,
           Block(s, Level(m))
    PROVE  Block(Locks!Locked(m, s), n)
<1> DEFINE u == <<Locks!Do("unlock", m)>>
           t == s \o u
<1>1. Orderly(u) /\ HeldAt(u, 1) = {m}
  BY OnlyUnlock
<1>2. Orderly(t) /\ HeldAt(t, 1) = {m}
  BY <1>1, Prepend
<1>3. s \in Seq(Steps) /\ u \in Seq(Steps) /\ t \in Seq(Steps)
  BY <1>1, <1>2 DEF Block, Orderly
<1>4. Locks!Do("lock", m) \in Steps /\ Locks!Do("lock", m).which = m
      /\ Locks!Do("lock", m).what = "lock" /\ Locks!Do("unlock", m).what = "unlock"
  BY DEF Locks!Do, Steps
<1>5. Locks!Locked(m, s) = <<Locks!Do("lock", m)>> \o t
  <2>1. <<Locks!Do("lock", m)>> \in Seq(Steps)
    BY <1>4
  <2>2. QED  BY <1>3, <2>1, ConcatAssociative DEF Locks!Locked
<1>6. /\ Len(s) \in Nat /\ Len(t) = Len(s) + 1
      /\ \A i \in 1 .. Len(s) + 1 : t[i] = IF i <= Len(s) THEN s[i] ELSE u[i - Len(s)]
  <2>1. Len(u) = 1
    OBVIOUS
  <2> HIDE DEF u
  <2>2. /\ Len(t) = Len(s) + Len(u)
        /\ \A i \in 1 .. Len(s) + Len(u) :
              t[i] = IF i <= Len(s) THEN s[i] ELSE u[i - Len(s)]
    BY <1>3, ConcatProperties
  <2>3. Len(s) \in Nat
    BY <1>3, LenProperties
  <2>4. QED  BY <2>1, <2>2, <2>3
<1>7. u[1] = Locks!Do("unlock", m)
  OBVIOUS
<1> HIDE DEF t, u
<1> DEFINE lt == <<Locks!Do("lock", m)>> \o t
<1>8. /\ Orderly(lt) /\ HeldAt(lt, 1) = {}
      /\ lt[1] = Locks!Do("lock", m)
      /\ Len(lt) = Len(t) + 1
      /\ \A i \in 1 .. Len(t) : lt[i + 1] = t[i]
  BY <1>2, LockFirst
<1> HIDE DEF lt
<1>9. ASSUME NEW i \in 1 .. Len(lt)
      PROVE  /\ \A l \in Locks!Mutexes : Takes(lt, i, l) => n < Level(l)
             /\ lt[i].what = "join" => lt[i].which \in Connections \intersect Quiet
  <2>1. CASE i = 1
    BY <1>4, <1>8, <2>1 DEF Takes
  <2>2. CASE i # 1 /\ i - 1 <= Len(s)
    <3>1. i - 1 \in 1 .. Len(s) /\ i - 1 \in 1 .. Len(t) /\ (i - 1) + 1 = i
          /\ i - 1 \in 1 .. Len(s) + 1
      BY <1>6, <1>8, <2>2
    <3>2. lt[i] = s[i - 1]
      <4>1. lt[(i - 1) + 1] = t[i - 1]
        BY <1>8, <3>1
      <4>2. t[i - 1] = s[i - 1]
        BY <1>6, <2>2, <3>1
      <4>3. QED  BY <3>1, <4>1, <4>2
    <3>3. \A l \in Locks!Mutexes : Takes(lt, i, l) => Level(m) < Level(l)
      BY <3>1, <3>2 DEF Block, Takes
    <3>4. Level(m) \in Int /\ \A l \in Locks!Mutexes : Level(l) \in Int
      BY LevelType
    <3>5. lt[i].what = "join" => lt[i].which \in Connections \intersect Quiet
      BY <3>1, <3>2 DEF Block, JoinsQuiet
    <3>6. QED  BY <3>3, <3>4, <3>5
  <2>3. CASE i # 1 /\ ~ (i - 1 <= Len(s))
    <3>1. /\ i - 1 = Len(s) + 1 /\ i - 1 \in 1 .. Len(t) /\ (i - 1) + 1 = i
          /\ (i - 1) - Len(s) = 1 /\ i - 1 \in 1 .. Len(s) + 1
      BY <1>6, <1>8, <2>3
    <3>2. lt[i] = u[1]
      <4>1. lt[(i - 1) + 1] = t[i - 1]
        BY <1>8, <3>1
      <4>2. t[i - 1] = u[(i - 1) - Len(s)]
        BY <1>6, <2>3, <3>1
      <4>3. QED  BY <3>1, <4>1, <4>2
    <3>3. QED  BY <1>4, <1>7, <3>2 DEF Takes
  <2>4. QED  BY <2>1, <2>2, <2>3
<1>10. Block(lt, n)
  BY <1>8, <1>9 DEF Block, JoinsQuiet
<1>11. QED  BY <1>5, <1>10 DEF lt

-----------------------------------------------------------------------------
(***************************************************************************)
(* The functions of the layer.                                             *)
(***************************************************************************)

\* A call of the table is a block, whatever is held before "routes".
LEMMA TableCallBlock ==
    ASSUME NEW n \in Int, n < 6
    PROVE  Block(Locks!TableCall, n)
BY BlockEmpty, BlockLocked, LevelOrder DEF Locks!TableCall, Locks!Mutexes

\* NetworkLayer::append.
LEMMA AppendBlock ==
    ASSUME NEW c \in Connections
    PROVE  Block(Locks!AppendSteps(c), 0)
<1>1. Block(<<Locks!Do("start", c)>>, Level("expires"))
  BY BlockStep DEF Locks!Threads, Locks!Workers
<1>2. Block(Locks!Locked("expires", <<Locks!Do("start", c)>>), Level("connections"))
  BY <1>1, BlockLocked, LevelOrder DEF Locks!Mutexes
<1>3. QED  BY <1>2, BlockLocked, LevelOrder DEF Locks!AppendSteps, Locks!Mutexes

\* NetworkLayer::removeAt of a connection without a neighbour.
LEMMA RemoveBlock ==
    ASSUME NEW c \in Connections, c \in Quiet, NEW steps \in Locks!RemoveSteps(c)
    PROVE  Block(steps, 0)
<1>1. steps = Locks!Locked("neighbours",
                  Locks!Locked("connections",
                      Locks!Locked("expires", <<>> \o <<Locks!Do("stop", c), Locks!Do("join", c)>>)))
  BY DEF Locks!RemoveSteps
<1> DEFINE end == <<>> \o <<Locks!Do("stop", c), Locks!Do("join", c)>>
<1>2. Block(<<Locks!Do("stop", c)>>, 4) /\ Block(<<Locks!Do("join", c)>>, 4)
  BY BlockStep DEF Locks!Threads, Locks!Workers
<1>3. end = <<Locks!Do("stop", c)>> \o <<Locks!Do("join", c)>>
  OBVIOUS
<1>4. Block(end, Level("expires"))
  BY <1>2, <1>3, BlockConcat, LevelOrder
<1> HIDE DEF end
<1>5. Block(Locks!Locked("expires", end), Level("connections"))
  BY <1>4, BlockLocked, LevelOrder DEF Locks!Mutexes
<1>6. Block(Locks!Locked("connections", Locks!Locked("expires", end)), Level("neighbours"))
  BY <1>5, BlockLocked, LevelOrder DEF Locks!Mutexes
<1>7. Block(Locks!Locked("neighbours", Locks!Locked("connections", Locks!Locked("expires", end))), 0)
  BY <1>6, BlockLocked, LevelOrder DEF Locks!Mutexes
<1>8. QED  BY <1>1, <1>7 DEF end

\* NetworkLayer::send.
LEMMA SendBlock == Block(Locks!SendSteps, 0)
BY TableCallBlock, BlockLocked, LevelOrder DEF Locks!SendSteps, Locks!Mutexes

\* NetworkReader::run.
LEMMA ReaderBlocks ==
    ASSUME NEW c, NEW steps \in Locks!ReaderTurns(c)
    PROVE  Block(steps, 0)
<1>1. steps \in {<<>>, Locks!Locked("neighbours", Locks!TableCall), Locks!TableCall}
  BY DEF Locks!ReaderTurns
<1>2. Block(<<>>, 0) /\ Block(Locks!TableCall, 0)
  BY BlockEmpty, TableCallBlock
<1>3. Block(Locks!Locked("neighbours", Locks!TableCall), 0)
  BY TableCallBlock, BlockLocked, LevelOrder DEF Locks!Mutexes
<1>4. QED  BY <1>1, <1>2, <1>3

\* RoutingProcess::run.
LEMMA ProcessBlocks ==
    ASSUME NEW steps \in Locks!ProcessTurns
    PROVE  Block(steps, 0)
<1>1. PICK old \in {<<>>, Locks!TableCall} :
             steps = Locks!Locked("neighbours", old) \o
                     Locks!Locked("connections", <<>>) \o
                     Locks!Locked("neighbours", Locks!Locked("connections", <<>>)) \o
                     Locks!Locked("expires", <<>>) \o
                     Locks!Locked("expires", <<>>)
  BY DEF Locks!ProcessTurns
<1>2. Block(old, Level("neighbours"))
  BY BlockEmpty, TableCallBlock, LevelOrder
<1>3. Block(Locks!Locked("neighbours", old), 0)
  BY <1>2, BlockLocked, LevelOrder DEF Locks!Mutexes
<1>4. Block(Locks!Locked("connections", <<>>), 0)
      /\ Block(Locks!Locked("connections", <<>>), Level("neighbours"))
  BY BlockEmpty, BlockLocked, LevelOrder DEF Locks!Mutexes
<1>5. Block(Locks!Locked("neighbours", Locks!Locked("connections", <<>>)), 0)
  BY <1>4, BlockLocked, LevelOrder DEF Locks!Mutexes
<1>6. Block(Locks!Locked("expires", <<>>), 0)
  BY BlockEmpty, BlockLocked, LevelOrder DEF Locks!Mutexes
<1>7. Block(Locks!Locked("neighbours", old) \o Locks!Locked("connections", <<>>), 0)
  BY <1>3, <1>4, BlockConcat
<1>8. Block(Locks!Locked("neighbours", old) \o Locks!Locked("connections", <<>>) \o
            Locks!Locked("neighbours", Locks!Locked("connections", <<>>)), 0)
  BY <1>5, <1>7, BlockConcat
<1>9. Block(Locks!Locked("neighbours", old) \o Locks!Locked("connections", <<>>) \o
            Locks!Locked("neighbours", Locks!Locked("connections", <<>>)) \o
            Locks!Locked("expires", <<>>), 0)
  BY <1>6, <1>8, BlockConcat
<1>10. QED  BY <1>1, <1>6, <1>9, BlockConcat

-----------------------------------------------------------------------------
(***************************************************************************)
(* The inductive invariant.                                                *)
(***************************************************************************)

\* What a thread has still to do. The thread of the table holds m_goMutex
\* between its turns, and gives it back in the next.
Rest(t) ==
    IF t = "table" THEN script[t] \o <<Locks!Do("unlock", "go")>> ELSE script[t]

LocksType ==
    /\ script \in [Locks!Threads -> Seq(Steps)]
    /\ owner \in [Locks!Mutexes -> Locks!Threads \union {None}]

AllOrderly == \A t \in Locks!Threads : Orderly(Rest(t)) /\ JoinsQuiet(Rest(t))

\* Who owns a mutex has still to unlock it.
OwnersUnlock ==
    \A t \in Locks!Threads, m \in Locks!Mutexes : owner[m] = t => m \in HeldAt(Rest(t), 1)

\* The reader of a quiet cable takes no mutex.
QuietReaders ==
    \A c \in Connections \intersect Quiet : script[c] \in {<<>>, <<Locks!Do("end", c)>>}

LayerInv == LocksType /\ AllOrderly /\ OwnersUnlock /\ QuietReaders

\* The names of the threads that are no readers are no connections, and the
\* layer loses only connections to quiet cables and is not deleted.
Orderliness ==
    /\ Connections \intersect {"process", "table", "application"} = {}
    /\ None \notin Locks!Threads
    /\ Removable \subseteq Quiet
    /\ ~ Deleting

\* What a thread holds between its calls or turns.
LEMMA RestAtTheEnd ==
    ASSUME NEW t \in Locks!Threads, script[t] = <<>>
    PROVE  HeldAt(Rest(t), 1) = IF t = "table" THEN {"go"} ELSE {}
<1>1. CASE t = "table"
  <2>1. <<>> \o <<Locks!Do("unlock", "go")>> = <<Locks!Do("unlock", "go")>>
    OBVIOUS
  <2>2. QED  BY <1>1, <2>1, OnlyUnlock DEF Rest, Locks!Mutexes
<1>2. CASE t # "table"
  <2>1. HeldAt(<<>>, 1) = {}
    BY BlockEmpty DEF Block
  <2>2. QED  BY <1>2, <2>1 DEF Rest
<1>3. QED  BY <1>1, <1>2

\* One more step after two.
LEMMA ThirdStep ==
    ASSUME NEW a \in Steps, NEW b \in Steps, NEW c \in Steps
    PROVE  <<a, b>> \o <<c>> = <<a, b, c>>
<1> DEFINE s == <<a, b>>
           t == <<c>>
           u == <<a, b, c>>
<1>1. /\ s \in Seq(Steps) /\ Len(s) = 2 /\ s[1] = a /\ s[2] = b
      /\ t \in Seq(Steps) /\ Len(t) = 1 /\ t[1] = c
      /\ u \in Seq(Steps) /\ Len(u) = 3 /\ u[1] = a /\ u[2] = b /\ u[3] = c
  OBVIOUS
<1> HIDE DEF s, t, u
<1>2. /\ s \o t \in Seq(Steps)
      /\ Len(s \o t) = Len(s) + Len(t)
      /\ \A i \in 1 .. Len(s) + Len(t) :
            (s \o t)[i] = IF i <= Len(s) THEN s[i] ELSE t[i - Len(s)]
  BY <1>1, ConcatProperties
<1>3. Len(s \o t) = 3 /\ (s \o t)[1] = a /\ (s \o t)[2] = b /\ (s \o t)[3] = c
  BY <1>1, <1>2
<1>4. \A i \in 1 .. Len(s \o t) : (s \o t)[i] = u[i]
  <2>1. \A i \in 1 .. 3 : i = 1 \/ i = 2 \/ i = 3
    OBVIOUS
  <2>2. QED  BY <1>1, <1>3, <2>1
<1>5. s \o t = u
  BY <1>1, <1>2, <1>3, <1>4, SeqEqual
<1>6. QED  BY <1>5 DEF s, t, u

\* The steps of the table's thread, and the step with which it gives back the
\* mutex that it holds in between.
LEMMA TableRest ==
    /\ Orderly(Locks!TableTurn \o <<Locks!Do("unlock", "go")>>)
    /\ JoinsQuiet(Locks!TableTurn \o <<Locks!Do("unlock", "go")>>)
    /\ HeldAt(Locks!TableTurn \o <<Locks!Do("unlock", "go")>>, 1) = {"go"}
<1> DEFINE u == Locks!Do("unlock", "go")
           l == Locks!Do("lock", "go")
           last == <<u, l, u>>
<1>1. /\ u \in Steps /\ u.what = "unlock" /\ u.which = "go"
      /\ l \in Steps /\ l.what = "lock" /\ l.which = "go"
  BY DEF Locks!Do, Steps, Locks!Mutexes
<1> HIDE DEF u, l
<1>2. /\ last \in Seq(Steps) /\ Len(last) = 3
      /\ last[1] = u /\ last[2] = l /\ last[3] = u
  BY <1>1
<1>3. Locks!TableTurn \o <<u>> = Locks!TableCall \o last
  <2>1. Locks!TableCall \in Seq(Steps)
    BY TableCallBlock DEF Block, Orderly
  <2>2. <<u, l>> \in Seq(Steps) /\ <<u>> \in Seq(Steps) /\ <<u, l>> \o <<u>> = last
    BY <1>1, ThirdStep
  <2>3. QED  BY <2>1, <2>2, ConcatAssociative DEF Locks!TableTurn, u, l
<1> HIDE DEF last
<1>4. HeldAt(last, 1) = {"go"}
  <2>1. \A h \in HeldAt(last, 1) : h = "go"
    <3>1. \A k \in 1 .. Len(last) : k = 1 \/ k = 2 \/ k = 3
      BY <1>2
    <3>2. QED  BY <1>1, <1>2, <3>1 DEF HeldAt, Unlocks
  <2>2. "go" \in HeldAt(last, 1)
    <3>1. 1 \in 1 .. Len(last) /\ Unlocks(last, 1, "go") /\ 1 .. 1 - 1 = {}
      BY <1>1, <1>2 DEF Unlocks
    <3>2. QED  BY <3>1 DEF HeldAt, Locks!Mutexes
  <2>3. QED  BY <2>1, <2>2
<1>5. Orderly(last)
  <2> SUFFICES ASSUME NEW i \in 1 .. Len(last), NEW m \in Locks!Mutexes, Takes(last, i, m)
               PROVE  /\ m \in HeldAt(last, i + 1)
                      /\ \A h \in HeldAt(last, i) : Level(h) < Level(m)
    BY <1>2 DEF Orderly
  <2>1. i = 2 /\ m = "go"
    <3>1. i = 1 \/ i = 2 \/ i = 3
      BY <1>2
    <3>2. QED  BY <1>1, <1>2, <3>1 DEF Takes
  <2>2. m \in HeldAt(last, 3)
    <3>1. 3 \in 3 .. Len(last) /\ Unlocks(last, 3, m) /\ 3 .. 3 - 1 = {}
      BY <1>1, <1>2, <2>1 DEF Unlocks
    <3>2. QED  BY <3>1 DEF HeldAt
  <2>3. HeldAt(last, 2) = {}
    <3> SUFFICES ASSUME NEW h \in HeldAt(last, 2)
                 PROVE  FALSE
      OBVIOUS
    <3>1. PICK k \in 2 .. Len(last) :
                 Unlocks(last, k, h) /\ \A j \in 2 .. k - 1 : ~ Takes(last, j, h)
      BY DEF HeldAt
    <3>2. k # 2
      BY <1>1, <1>2, <3>1 DEF Unlocks
    <3>3. k = 3 /\ 2 \in 2 .. k - 1
      BY <1>2, <3>1, <3>2
    <3>4. h = "go" /\ ~ Takes(last, 2, h)
      BY <1>1, <1>2, <3>1, <3>3 DEF Unlocks
    <3>5. QED  BY <1>1, <1>2, <3>4 DEF Takes
  <2>4. QED  BY <2>1, <2>2, <2>3
<1>6. Block(Locks!TableCall, 5)
  BY TableCallBlock
<1>7. \A m \in Locks!Mutexes, h \in HeldAt(last, 1) : 5 < Level(m) => Level(h) < Level(m)
  BY <1>4, LevelOrder
<1>8. Orderly(Locks!TableCall \o last) /\ HeldAt(Locks!TableCall \o last, 1) = {"go"}
  BY <1>4, <1>5, <1>6, <1>7, Prepend
<1>9. JoinsQuiet(Locks!TableCall \o last)
  <2>1. Locks!TableCall \in Seq(Steps) /\ JoinsQuiet(Locks!TableCall)
    BY <1>6 DEF Block, Orderly
  <2>2. JoinsQuiet(last)
    <3>1. \A k \in 1 .. Len(last) : k = 1 \/ k = 2 \/ k = 3
      BY <1>2
    <3>2. QED  BY <1>1, <1>2, <3>1 DEF JoinsQuiet
  <2>3. QED  BY <1>2, <2>1, <2>2, JoinsConcat
<1>10. QED  BY <1>3, <1>8, <1>9 DEF u

\* The end of RoutingTableProcess::run, and its beginning.
LEMMA TableEnds ==
    /\ Orderly(Locks!Ending("table") \o <<Locks!Do("unlock", "go")>>)
    /\ JoinsQuiet(Locks!Ending("table") \o <<Locks!Do("unlock", "go")>>)
    /\ HeldAt(Locks!Ending("table") \o <<Locks!Do("unlock", "go")>>, 1) = {"go"}
    /\ Orderly(Locks!Beginning("table") \o <<Locks!Do("unlock", "go")>>)
    /\ JoinsQuiet(Locks!Beginning("table") \o <<Locks!Do("unlock", "go")>>)
<1> DEFINE u == Locks!Do("unlock", "go")
           e == Locks!Do("end", "table")
           last == <<u, e, u>>
<1>1. /\ u \in Steps /\ u.what = "unlock" /\ u.which = "go"
      /\ e \in Steps /\ e.what = "end"
  BY DEF Locks!Do, Steps, Locks!Mutexes, Locks!Threads, Locks!Workers
<1>2. Locks!Ending("table") \o <<u>> = last
  BY <1>1, ThirdStep DEF Locks!Ending
<1> HIDE DEF u, e
<1>3. /\ last \in Seq(Steps) /\ Len(last) = 3
      /\ last[1] = u /\ last[2] = e /\ last[3] = u
  BY <1>1
<1> HIDE DEF last
<1>4. \A k \in 1 .. Len(last) : k = 1 \/ k = 2 \/ k = 3
  BY <1>3
<1>5. Orderly(last) /\ JoinsQuiet(last)
  BY <1>1, <1>3, <1>4 DEF Orderly, JoinsQuiet, Takes
<1>6. HeldAt(last, 1) = {"go"}
  <2>1. \A h \in HeldAt(last, 1) : h = "go"
    BY <1>1, <1>3, <1>4 DEF HeldAt, Unlocks
  <2>2. "go" \in HeldAt(last, 1)
    <3>1. 1 \in 1 .. Len(last) /\ Unlocks(last, 1, "go") /\ 1 .. 1 - 1 = {}
      BY <1>1, <1>3 DEF Unlocks
    <3>2. QED  BY <3>1 DEF HeldAt, Locks!Mutexes
  <2>3. QED  BY <2>1, <2>2
<1>7. Block(Locks!Locked("go", <<>>), 0)
  BY BlockEmpty, BlockLocked, LevelOrder DEF Locks!Mutexes
<1>8. Locks!Beginning("table") \o <<u>> = Locks!Locked("go", <<>>)
  BY DEF Locks!Beginning, Locks!Locked, u
<1>9. QED  BY <1>2, <1>5, <1>6, <1>7, <1>8 DEF Block, u

-----------------------------------------------------------------------------
\* The initial state.
LEMMA LayerStarts ==
    ASSUME Orderliness, Locks!Init
    PROVE  LayerInv
<1>1. \A t \in Locks!Threads : script[t] = IF t = "table" THEN Locks!Beginning("table") ELSE <<>>
  BY DEF Locks!Init, Locks!Beginning
<1>2. LocksType
  <2>1. Locks!Beginning("table") \in Seq(Steps) /\ <<>> \in Seq(Steps)
    <3>1. Locks!Do("lock", "go") \in Steps
      BY DEF Locks!Do, Steps, Locks!Mutexes
    <3>2. QED  BY <3>1, EmptySeq DEF Locks!Beginning
  <2>2. script \in [Locks!Threads -> Seq(Steps)]
    <3>1. \A t \in Locks!Threads : Locks!Beginning(t) \in Seq(Steps)
      BY <2>1 DEF Locks!Beginning
    <3>2. QED  BY <3>1 DEF Locks!Init
  <2>3. QED  BY <2>2 DEF Locks!Init, LocksType
<1>3. AllOrderly
  <2> SUFFICES ASSUME NEW t \in Locks!Threads
               PROVE  Orderly(Rest(t)) /\ JoinsQuiet(Rest(t))
    BY DEF AllOrderly
  <2>1. CASE t = "table"
    BY <1>1, <2>1, TableEnds DEF Rest
  <2>2. CASE t # "table"
    <3>1. Rest(t) = <<>>
      BY <1>1, <2>2 DEF Rest
    <3>2. QED  BY <3>1, BlockEmpty DEF Block
  <2>3. QED  BY <2>1, <2>2
<1>4. OwnersUnlock
  BY DEF Locks!Init, OwnersUnlock, Orderliness
<1>5. QuietReaders
  <2>1. \A c \in Connections : c \in Locks!Threads /\ c # "table"
    BY DEF Orderliness, Locks!Threads, Locks!Workers
  <2>2. QED  BY <1>1, <2>1 DEF QuietReaders
<1>6. QED  BY <1>2, <1>3, <1>4, <1>5 DEF LayerInv

\* A thread that has done a step has the rest to do.
LEMMA GoOnRest ==
    ASSUME LayerInv, NEW t \in Locks!Threads, script[t] # <<>>, Locks!GoOn(t)
    PROVE  /\ script' \in [Locks!Threads -> Seq(Steps)]
           /\ Rest(t) # <<>> /\ Rest(t)[1] = Head(script[t])
           /\ Rest(t) \in Seq(Steps)
           /\ Rest(t)' = Tail(Rest(t))
           /\ \A u \in Locks!Threads : u # t => Rest(u)' = Rest(u)
           /\ AllOrderly' /\ QuietReaders'
           /\ \A m \in Locks!Mutexes : HeldAt(Rest(t)', 1) = HeldAt(Rest(t), 2)
<1>1. /\ script[t] \in Seq(Steps)
      /\ Head(script[t]) = script[t][1]
      /\ Tail(script[t]) \in Seq(Steps)
      /\ script' = [script EXCEPT ![t] = Tail(@)]
  BY HeadTailProperties DEF LayerInv, LocksType, Locks!GoOn
<1>2. script' \in [Locks!Threads -> Seq(Steps)] /\ script'[t] = Tail(script[t])
      /\ \A u \in Locks!Threads : u # t => script'[u] = script[u]
  BY <1>1 DEF LayerInv, LocksType
<1>3. <<Locks!Do("unlock", "go")>> \in Seq(Steps)
  BY OnlyUnlock DEF Orderly, Locks!Mutexes
<1>4. \A u \in Locks!Threads : u # t => Rest(u)' = Rest(u)
  BY <1>2 DEF Rest
<1>5. /\ Rest(t) # <<>> /\ Rest(t)[1] = Head(script[t])
      /\ Rest(t)' = Tail(Rest(t))
  <2>1. CASE t = "table"
    <3> DEFINE u == <<Locks!Do("unlock", "go")>>
               s == script[t]
    <3>1. Rest(t) = s \o u /\ Rest(t)' = Tail(s) \o u
      BY <1>2, <2>1 DEF Rest
    <3> HIDE DEF u
    <3>2. s \in Seq(Steps) /\ s # <<>> /\ u \in Seq(Steps)
      BY <1>1, <1>3 DEF u
    <3> HIDE DEF s
    <3>3. s \o u # <<>> /\ (s \o u)[1] = s[1] /\ Tail(s \o u) = Tail(s) \o u
      <4>1. /\ s \o u \in Seq(Steps)
            /\ Len(s \o u) = Len(s) + Len(u)
            /\ \A i \in 1 .. Len(s) + Len(u) :
                  (s \o u)[i] = IF i <= Len(s) THEN s[i] ELSE u[i - Len(s)]
        BY <3>2, ConcatProperties
      <4>2. Len(s) \in Nat \ {0} /\ Len(u) \in Nat
        BY <3>2, LenProperties
      <4>3. s \o u # <<>>
        BY <4>1, <4>2, LenProperties
      <4>4. (s \o u)[1] = s[1]
        BY <4>1, <4>2
      <4>5. /\ Tail(s) \in Seq(Steps) /\ Len(Tail(s)) = Len(s) - 1
            /\ \A i \in 1 .. Len(Tail(s)) : Tail(s)[i] = s[i + 1]
        BY <3>2, HeadTailProperties
      <4>6. /\ Tail(s \o u) \in Seq(Steps) /\ Len(Tail(s \o u)) = Len(s \o u) - 1
            /\ \A i \in 1 .. Len(Tail(s \o u)) : Tail(s \o u)[i] = (s \o u)[i + 1]
        BY <4>1, <4>3, HeadTailProperties
      <4>7. /\ Tail(s) \o u \in Seq(Steps)
            /\ Len(Tail(s) \o u) = Len(Tail(s)) + Len(u)
            /\ \A i \in 1 .. Len(Tail(s)) + Len(u) :
                  (Tail(s) \o u)[i] =
                     IF i <= Len(Tail(s)) THEN Tail(s)[i] ELSE u[i - Len(Tail(s))]
        BY <3>2, <4>5, ConcatProperties
      <4>8. ASSUME NEW i \in 1 .. Len(Tail(s \o u))
            PROVE  Tail(s \o u)[i] = (Tail(s) \o u)[i]
        <5>1. i \in 1 .. Len(s) + Len(u) - 1 /\ i + 1 \in 1 .. Len(s) + Len(u)
              /\ i \in 1 .. Len(Tail(s)) + Len(u)
          BY <4>1, <4>2, <4>5, <4>6
        <5>2. CASE i + 1 <= Len(s)
          <6>1. i <= Len(Tail(s)) /\ i \in 1 .. Len(Tail(s))
            BY <4>2, <4>5, <5>1, <5>2
          <6>2. QED  BY <4>1, <4>5, <4>6, <4>7, <5>1, <5>2, <6>1
        <5>3. CASE ~ (i + 1 <= Len(s))
          <6>1. ~ (i <= Len(Tail(s))) /\ (i + 1) - Len(s) = i - Len(Tail(s))
            BY <4>2, <4>5, <5>1, <5>3
          <6>2. QED  BY <4>1, <4>6, <4>7, <5>1, <5>3, <6>1
        <5>4. QED  BY <5>2, <5>3
      <4>9. Len(Tail(s \o u)) = Len(Tail(s) \o u)
        BY <4>1, <4>2, <4>5, <4>6, <4>7
      <4>10. Tail(s \o u) = Tail(s) \o u
        BY <4>6, <4>7, <4>8, <4>9, SeqEqual
      <4>11. QED  BY <4>3, <4>4, <4>10
    <3>4. s[1] = Head(script[t])
      BY <1>1 DEF s
    <3>5. QED  BY <3>1, <3>3, <3>4
  <2>2. CASE t # "table"
    BY <1>1, <1>2, <2>2 DEF Rest
  <2>3. QED  BY <2>1, <2>2
<1>6. Orderly(Rest(t)) /\ JoinsQuiet(Rest(t)) /\ Rest(t) \in Seq(Steps)
  BY DEF LayerInv, AllOrderly, Orderly
<1>7. Orderly(Rest(t)') /\ JoinsQuiet(Rest(t)')
  <2> DEFINE r == Rest(t)
  <2>1. r \in Seq(Steps) /\ r # <<>> /\ Orderly(r) /\ JoinsQuiet(r)
    BY <1>5, <1>6
  <2> HIDE DEF r
  <2>2. Orderly(Tail(r)) /\ JoinsQuiet(Tail(r))
    <3>1. /\ Len(r) \in Nat \ {0} /\ Len(Tail(r)) = Len(r) - 1
          /\ \A i \in 1 .. Len(Tail(r)) : Tail(r)[i] = r[i + 1]
      BY <2>1, HeadTailProperties, LenProperties
    <3>2. JoinsQuiet(Tail(r))
      BY <2>1, <3>1 DEF JoinsQuiet
    <3>3. QED  BY <2>1, <3>2, OrderlyTail
  <2>3. QED  BY <1>5, <2>2 DEF r
<1>8. AllOrderly'
  <2> SUFFICES ASSUME NEW u \in Locks!Threads
               PROVE  Orderly(Rest(u)') /\ JoinsQuiet(Rest(u)')
    BY DEF AllOrderly, Orderly, JoinsQuiet
  <2>1. CASE u = t
    BY <1>7, <2>1
  <2>2. CASE u # t
    BY <1>4, <2>2 DEF LayerInv, AllOrderly
  <2>3. QED  BY <2>1, <2>2
<1>9. QuietReaders'
  <2> SUFFICES ASSUME NEW c \in Connections \intersect Quiet
               PROVE  script'[c] \in {<<>>, <<Locks!Do("end", c)>>}
    BY DEF QuietReaders, Locks!Do
  <2>1. c \in Locks!Threads
    BY DEF Locks!Threads, Locks!Workers
  <2>2. script[c] \in {<<>>, <<Locks!Do("end", c)>>}
    BY DEF LayerInv, QuietReaders
  <2>3. CASE c = t
    <3>1. script[t] = <<Locks!Do("end", c)>>
      BY <2>2, <2>3
    <3>2. Tail(script[t]) = <<>>
      BY <3>1
    <3>3. QED  BY <1>2, <2>3, <3>2
  <2>4. CASE c # t
    BY <1>2, <2>1, <2>2, <2>4
  <2>5. QED  BY <2>3, <2>4
<1>10. HeldAt(Rest(t)', 1) = HeldAt(Rest(t), 2)
  <2> DEFINE r == Rest(t)
  <2>1. r \in Seq(Steps) /\ r # <<>>
    BY <1>5, <1>6
  <2> HIDE DEF r
  <2>2. HeldAt(Tail(r), 1) = HeldAt(r, 1 + 1)
    BY <2>1, HeldAtTail
  <2>3. QED  BY <1>5, <2>2 DEF r
<1>11. QED  BY <1>2, <1>4, <1>5, <1>6, <1>8, <1>9, <1>10

\* A thread that begins a call or a turn has all of it to do.
LEMMA BeginRest ==
    ASSUME LayerInv, NEW t \in Locks!Threads, script[t] = <<>>, NEW steps,
           script' = [script EXCEPT ![t] = steps], UNCHANGED owner,
           IF t = "table" THEN steps \in {Locks!TableTurn, Locks!Ending("table")}
                          ELSE Block(steps, 0),
           t \in Connections \intersect Quiet =>
               steps \in {<<>>, <<Locks!Do("end", t)>>}
    PROVE  LayerInv'
<1> DEFINE u == <<Locks!Do("unlock", "go")>>
<1>1. script'[t] = steps /\ \A w \in Locks!Threads : w # t => script'[w] = script[w]
  BY DEF LayerInv, LocksType
<1>2. \A w \in Locks!Threads : w # t => Rest(w)' = Rest(w)
  BY <1>1 DEF Rest
<1>3. /\ steps \in Seq(Steps)
      /\ Orderly(Rest(t)') /\ JoinsQuiet(Rest(t)')
      /\ HeldAt(Rest(t)', 1) = HeldAt(Rest(t), 1)
  <2>1. CASE t = "table"
    <3>1. Rest(t)' = steps \o u
      BY <1>1, <2>1 DEF Rest
    <3>2. steps \in {Locks!TableTurn, Locks!Ending("table")}
      BY <2>1
    <3>3. steps \in Seq(Steps)
      <4>1. Locks!Do("unlock", "go") \in Steps /\ Locks!Do("lock", "go") \in Steps
            /\ Locks!Do("end", "table") \in Steps
        BY DEF Locks!Do, Steps, Locks!Mutexes, Locks!Threads, Locks!Workers
      <4>2. Locks!Ending("table") \in Seq(Steps)
        BY <4>1 DEF Locks!Ending
      <4>3. Locks!TableCall \in Seq(Steps)
        BY TableCallBlock DEF Block, Orderly
      <4>4. <<Locks!Do("unlock", "go"), Locks!Do("lock", "go")>> \in Seq(Steps)
        BY <4>1
      <4>5. Locks!TableTurn \in Seq(Steps)
        BY <4>3, <4>4, ConcatProperties DEF Locks!TableTurn
      <4>6. QED  BY <3>2, <4>2, <4>5
    <3>4. /\ Orderly(steps \o u) /\ JoinsQuiet(steps \o u)
          /\ HeldAt(steps \o u, 1) = {"go"}
      BY <3>2, TableRest, TableEnds
    <3>5. HeldAt(Rest(t), 1) = {"go"}
      BY <2>1, RestAtTheEnd
    <3>6. QED  BY <3>1, <3>3, <3>4, <3>5
  <2>2. CASE t # "table"
    <3>1. Rest(t)' = steps
      BY <1>1, <2>2 DEF Rest
    <3>2. Block(steps, 0)
      BY <2>2
    <3>3. HeldAt(Rest(t), 1) = {}
      BY <2>2, RestAtTheEnd
    <3>4. /\ Orderly(steps) /\ JoinsQuiet(steps) /\ HeldAt(steps, 1) = {}
          /\ steps \in Seq(Steps)
      BY <3>2 DEF Block, Orderly
    <3>5. QED  BY <3>1, <3>3, <3>4
  <2>3. QED  BY <2>1, <2>2
<1>4. LocksType'
  BY <1>3 DEF LayerInv, LocksType
<1>5. AllOrderly'
  <2> SUFFICES ASSUME NEW w \in Locks!Threads
               PROVE  Orderly(Rest(w)') /\ JoinsQuiet(Rest(w)')
    BY DEF AllOrderly, Orderly, JoinsQuiet
  <2>1. CASE w = t
    BY <1>3, <2>1
  <2>2. CASE w # t
    BY <1>2, <2>2 DEF LayerInv, AllOrderly
  <2>3. QED  BY <2>1, <2>2
<1>6. OwnersUnlock'
  <2> SUFFICES ASSUME NEW w \in Locks!Threads, NEW m \in Locks!Mutexes, owner[m] = w
               PROVE  m \in HeldAt(Rest(w)', 1)
    BY DEF OwnersUnlock, HeldAt, Takes, Unlocks
  <2>1. m \in HeldAt(Rest(w), 1)
    BY DEF LayerInv, OwnersUnlock
  <2>2. CASE w = t
    BY <1>3, <2>1, <2>2
  <2>3. CASE w # t
    BY <1>2, <2>1, <2>3
  <2>4. QED  BY <2>2, <2>3
<1>7. QuietReaders'
  <2> SUFFICES ASSUME NEW c \in Connections \intersect Quiet
               PROVE  script'[c] \in {<<>>, <<Locks!Do("end", c)>>}
    BY DEF QuietReaders, Locks!Do
  <2>1. c \in Locks!Threads
    BY DEF Locks!Threads, Locks!Workers
  <2>2. script[c] \in {<<>>, <<Locks!Do("end", c)>>}
    BY DEF LayerInv, QuietReaders
  <2>3. QED  BY <1>1, <2>1, <2>2
<1>8. QED  BY <1>4, <1>5, <1>6, <1>7 DEF LayerInv

\* A step of a thread keeps the invariant.
LEMMA StepInv ==
    ASSUME Orderliness, LayerInv, NEW t \in Locks!Threads, Locks!Step(t)
    PROVE  LayerInv'
<1>1. script[t] # <<>> /\ Locks!GoOn(t)
  BY DEF Locks!Step, Locks!Lock, Locks!Unlock, Locks!Start, Locks!Stop, Locks!Join, Locks!End, Locks!Does
<1>2. /\ script' \in [Locks!Threads -> Seq(Steps)]
      /\ Rest(t) # <<>> /\ Rest(t)[1] = Head(script[t])
      /\ Rest(t) \in Seq(Steps)
      /\ \A u \in Locks!Threads : u # t => Rest(u)' = Rest(u)
      /\ AllOrderly' /\ QuietReaders'
      /\ \A m \in Locks!Mutexes : HeldAt(Rest(t)', 1) = HeldAt(Rest(t), 2)
  BY <1>1, GoOnRest
<1> DEFINE r == Rest(t)
<1>3. r \in Seq(Steps) /\ Len(r) \in Nat \ {0} /\ r[1] = Head(script[t])
      /\ r[1] \in Steps
  <2>1. r \in Seq(Steps) /\ r # <<>> /\ r[1] = Head(script[t])
    BY <1>2
  <2> HIDE DEF r
  <2>2. Len(r) \in Nat \ {0}
    BY <2>1, LenProperties
  <2>3. 1 \in 1 .. Len(r)
    BY <2>2
  <2>4. QED  BY <2>1, <2>2, <2>3, ElementOfSeq
<1>4. ASSUME NEW m \in Locks!Mutexes, m \in HeldAt(r, 1), ~ Unlocks(r, 1, m)
      PROVE  m \in HeldAt(Rest(t)', 1)
  <2> HIDE DEF r
  <2>1. PICK k \in 1 .. Len(r) :
               Unlocks(r, k, m) /\ \A j \in 1 .. k - 1 : ~ Takes(r, j, m)
    BY <1>4 DEF HeldAt
  <2>2. k \in 2 .. Len(r) /\ \A j \in 2 .. k - 1 : j \in 1 .. k - 1
    BY <1>3, <1>4, <2>1
  <2>3. m \in HeldAt(r, 2)
    BY <2>1, <2>2 DEF HeldAt
  <2>4. QED  BY <1>2, <2>3 DEF r
<1> HIDE DEF r
<1>5. LocksType' /\ OwnersUnlock'
  <2>1. CASE Locks!Lock(t)
    <3> DEFINE m == Locks!Which(t)
    <3>1. /\ owner[m] = None /\ owner' = [owner EXCEPT ![m] = t]
          /\ Takes(r, 1, m)
      BY <1>3, <2>1 DEF Locks!Lock, Locks!Does, Locks!Which, Takes
    <3> HIDE DEF m
    <3>2. m \in Locks!Mutexes
      BY <1>3, <3>1 DEF Takes, Steps
    <3>3. m \in HeldAt(r, 2)
      <4>1. 1 \in 1 .. Len(r) /\ 1 + 1 = 2
        BY <1>3
      <4>2. Orderly(r)
        BY DEF r, LayerInv, AllOrderly
      <4>3. QED  BY <3>1, <3>2, <4>1, <4>2 DEF Orderly
    <3>4. LocksType'
      BY <1>2, <3>1, <3>2 DEF LayerInv, LocksType
    <3>5. ASSUME NEW u \in Locks!Threads, NEW h \in Locks!Mutexes, owner'[h] = u
          PROVE  h \in HeldAt(Rest(u)', 1)
      <4>1. CASE h = m
        <5>1. u = t
          BY <3>1, <3>2, <3>5, <4>1 DEF LayerInv, LocksType
        <5>2. QED  BY <1>2, <3>2, <3>3, <4>1, <5>1 DEF r
      <4>2. CASE h # m
        <5>1. owner[h] = u
          BY <3>1, <3>5, <4>2 DEF LayerInv, LocksType
        <5>2. h \in HeldAt(Rest(u), 1)
          BY <5>1 DEF LayerInv, OwnersUnlock
        <5>3. CASE u # t
          BY <1>2, <5>2, <5>3
        <5>4. CASE u = t
          <6>1. ~ Unlocks(r, 1, h)
            BY <3>1 DEF Takes, Unlocks
          <6>2. h \in HeldAt(r, 1)
            BY <5>2, <5>4 DEF r
          <6>3. QED  BY <1>4, <5>4, <6>1, <6>2
        <5>5. QED  BY <5>3, <5>4
      <4>3. QED  BY <4>1, <4>2
    <3>6. QED  BY <3>4, <3>5 DEF OwnersUnlock, HeldAt, Takes, Unlocks
  <2>2. CASE Locks!Unlock(t)
    <3> DEFINE m == Locks!Which(t)
    <3>1. owner' = [owner EXCEPT ![m] = None] /\ Unlocks(r, 1, m)
      BY <1>3, <2>2 DEF Locks!Unlock, Locks!Does, Locks!Which, Unlocks
    <3> HIDE DEF m
    <3>2. m \in Locks!Mutexes
      BY <1>3, <3>1 DEF Unlocks, Steps
    <3>3. LocksType'
      BY <1>2, <3>1, <3>2 DEF LayerInv, LocksType
    <3>4. ASSUME NEW u \in Locks!Threads, NEW h \in Locks!Mutexes, owner'[h] = u
          PROVE  h \in HeldAt(Rest(u)', 1)
      <4>1. h # m /\ owner[h] = u
        BY <3>1, <3>4 DEF LayerInv, LocksType, Orderliness
      <4>2. h \in HeldAt(Rest(u), 1)
        BY <4>1 DEF LayerInv, OwnersUnlock
      <4>3. CASE u # t
        BY <1>2, <4>2, <4>3
      <4>4. CASE u = t
        <5>1. ~ Unlocks(r, 1, h)
          BY <3>1, <4>1 DEF Unlocks
        <5>2. h \in HeldAt(r, 1)
          BY <4>2, <4>4 DEF r
        <5>3. QED  BY <1>4, <4>4, <5>1, <5>2
      <4>5. QED  BY <4>3, <4>4
    <3>5. QED  BY <3>3, <3>4 DEF OwnersUnlock, HeldAt, Takes, Unlocks
  <2>3. CASE Locks!Start(t) \/ Locks!Stop(t) \/ Locks!Join(t) \/ Locks!End(t)
    <3>1. owner' = owner /\ Head(script[t]).what # "unlock"
      BY <2>3 DEF Locks!Start, Locks!Stop, Locks!Join, Locks!End, Locks!Does
    <3>2. LocksType'
      BY <1>2, <3>1 DEF LayerInv, LocksType
    <3>3. ASSUME NEW u \in Locks!Threads, NEW h \in Locks!Mutexes, owner'[h] = u
          PROVE  h \in HeldAt(Rest(u)', 1)
      <4>1. h \in HeldAt(Rest(u), 1)
        BY <3>1, <3>3 DEF LayerInv, OwnersUnlock
      <4>2. CASE u # t
        BY <1>2, <4>1, <4>2
      <4>3. CASE u = t
        <5>1. ~ Unlocks(r, 1, h) /\ h \in HeldAt(r, 1)
          BY <1>3, <3>1, <4>1, <4>3 DEF r, Unlocks
        <5>2. QED  BY <1>4, <4>3, <5>1
      <4>4. QED  BY <4>2, <4>3
    <3>4. QED  BY <3>2, <3>3 DEF OwnersUnlock, HeldAt, Takes, Unlocks
  <2>4. QED  BY <2>1, <2>2, <2>3 DEF Locks!Step
<1>6. QED  BY <1>2, <1>5 DEF LayerInv

\* Every step keeps the invariant.
LEMMA LayerStays ==
    ASSUME Orderliness, LayerInv, [Locks!Next]_Locks!vars
    PROVE  LayerInv'
<1>1. ASSUME NEW t \in Locks!Threads, Locks!Step(t)
      PROVE  LayerInv'
  BY <1>1, StepInv
<1>2. ASSUME NEW t \in Locks!Workers, Locks!Turn(t)
      PROVE  LayerInv'
  <2>1. /\ t \in Locks!Threads /\ script[t] = <<>> /\ UNCHANGED owner
        /\ t # "application"
    BY <1>2 DEF Locks!Turn, Locks!Threads, Locks!Workers, Orderliness
  <2>2. PICK steps \in Locks!Turns(t) \union {Locks!Ending(t)} :
               script' = [script EXCEPT ![t] = steps]
    BY <1>2 DEF Locks!Turn
  <2>3. CASE t = "table"
    <3>1. steps \in {Locks!TableTurn, Locks!Ending("table")}
      BY <2>2, <2>3 DEF Locks!Turns
    <3>2. t \notin Connections
      BY <2>3 DEF Orderliness
    <3>3. QED  BY <2>1, <2>2, <2>3, <3>1, <3>2, BeginRest
  <2>4. CASE t # "table"
    <3>1. Locks!Ending(t) = <<Locks!Do("end", t)>> /\ Block(Locks!Ending(t), 0)
      BY <2>1, <2>4, BlockStep DEF Locks!Ending
    <3>2. ASSUME steps \in Locks!Turns(t)
          PROVE  /\ Block(steps, 0)
                 /\ t \in Connections \intersect Quiet => steps = <<>>
      <4>1. CASE t = "process"
        <5>1. Locks!Turns(t) = Locks!ProcessTurns /\ t \notin Connections
          BY <4>1 DEF Locks!Turns, Orderliness
        <5>2. QED  BY <3>2, <5>1, ProcessBlocks
      <4>2. CASE t # "process"
        <5>1. Locks!Turns(t) = Locks!ReaderTurns(t)
          BY <2>4, <4>2 DEF Locks!Turns
        <5>2. t \in Connections \intersect Quiet => steps = <<>>
          BY <3>2, <5>1 DEF Locks!ReaderTurns
        <5>3. QED  BY <3>2, <5>1, <5>2, ReaderBlocks
      <4>3. QED  BY <4>1, <4>2
    <3>3. /\ Block(steps, 0)
          /\ t \in Connections \intersect Quiet =>
               steps \in {<<>>, <<Locks!Do("end", t)>>}
      BY <2>2, <3>1, <3>2
    <3>4. QED  BY <2>1, <2>2, <2>4, <3>3, BeginRest
  <2>5. QED  BY <2>3, <2>4
<1>3. ASSUME NEW steps, Block(steps, 0), Locks!Call(steps)
      PROVE  LayerInv'
  <2>1. /\ "application" \in Locks!Threads /\ script["application"] = <<>>
        /\ script' = [script EXCEPT !["application"] = steps]
        /\ UNCHANGED owner
        /\ "application" \notin Connections /\ "application" # "table"
    BY <1>3 DEF Locks!Call, Locks!Threads, Orderliness
  <2>2. QED  BY <1>3, <2>1, BeginRest
<1>4. ASSUME NEW c \in Connections, Locks!Connect(c)
      PROVE  LayerInv'
  BY <1>3, <1>4, AppendBlock DEF Locks!Connect
<1>5. ASSUME NEW c \in Connections, Locks!Disconnect(c)
      PROVE  LayerInv'
  <2>1. c \in Quiet
    BY <1>5 DEF Locks!Disconnect, Orderliness
  <2>2. PICK steps \in Locks!RemoveSteps(c) : Locks!Call(steps)
    BY <1>5 DEF Locks!Disconnect
  <2>3. QED  BY <1>3, <2>1, <2>2, RemoveBlock
<1>6. CASE Locks!SendPacket
  BY <1>3, <1>6, SendBlock DEF Locks!SendPacket
<1>7. CASE Locks!Delete
  BY <1>7 DEF Locks!Delete, Orderliness
<1>8. CASE UNCHANGED Locks!vars
  <2>1. script' = script /\ owner' = owner
    BY <1>8 DEF Locks!vars
  <2>2. \A t \in Locks!Threads : Rest(t)' = Rest(t)
    BY <2>1 DEF Rest
  <2>3. LocksType' /\ QuietReaders'
    BY <2>1 DEF LayerInv, LocksType, QuietReaders
  <2>4. AllOrderly'
    <3>1. \A t \in Locks!Threads : Orderly(Rest(t)') /\ JoinsQuiet(Rest(t)')
      BY <2>2 DEF LayerInv, AllOrderly
    <3>2. QED  BY <3>1 DEF AllOrderly, Orderly, JoinsQuiet
  <2>5. OwnersUnlock'
    <3>1. \A t \in Locks!Threads, m \in Locks!Mutexes :
             owner'[m] = t => m \in HeldAt(Rest(t)', 1)
      BY <2>1, <2>2 DEF LayerInv, OwnersUnlock
    <3>2. QED  BY <3>1 DEF OwnersUnlock, HeldAt, Takes, Unlocks
  <2>6. QED  BY <2>3, <2>4, <2>5 DEF LayerInv
<1>9. QED  BY <1>1, <1>2, <1>4, <1>5, <1>6, <1>7, <1>8 DEF Locks!Next

-----------------------------------------------------------------------------
\* A thread that is not between its turns begins with the next step.
LEMMA RestHead ==
    ASSUME LayerInv, NEW t \in Locks!Threads, script[t] # <<>>
    PROVE  Rest(t)[1] = Head(script[t]) /\ 1 \in 1 .. Len(Rest(t))
<1> DEFINE s == script[t]
           u == <<Locks!Do("unlock", "go")>>
<1>1. s \in Seq(Steps) /\ s # <<>> /\ u \in Seq(Steps) /\ Head(s) = s[1]
  BY OnlyUnlock DEF LayerInv, LocksType, Orderly, Locks!Mutexes
<1>2. Rest(t) = s \/ Rest(t) = s \o u
  BY DEF Rest
<1> HIDE DEF s, u
<1>3. Len(s) \in Nat \ {0} /\ Len(u) \in Nat
  BY <1>1, LenProperties
<1>4. /\ Len(s \o u) = Len(s) + Len(u)
      /\ \A i \in 1 .. Len(s) + Len(u) :
            (s \o u)[i] = IF i <= Len(s) THEN s[i] ELSE u[i - Len(s)]
  BY <1>1, ConcatProperties
<1>5. (s \o u)[1] = s[1] /\ 1 \in 1 .. Len(s \o u) /\ 1 \in 1 .. Len(s)
  BY <1>3, <1>4
<1>6. QED  BY <1>1, <1>2, <1>5 DEF s

\* A thread holds nothing above what it waits for.
LEMMA WaitsUpwards ==
    ASSUME LayerInv, NEW t \in Locks!Threads, Locks!Does(t, "lock"), NEW h \in Locks!Mutexes,
           owner[h] = t
    PROVE  Level(h) < Level(Locks!Which(t))
<1>1. /\ Rest(t)[1] = Head(script[t]) /\ 1 \in 1 .. Len(Rest(t))
      /\ Orderly(Rest(t))
  BY RestHead DEF Locks!Does, LayerInv, AllOrderly
<1> DEFINE r == Rest(t)
           m == Locks!Which(t)
<1>2. r[1].what = "lock" /\ r[1].which = m
  BY <1>1 DEF Locks!Does, Locks!Which
<1>3. h \in HeldAt(r, 1)
  BY DEF LayerInv, OwnersUnlock
<1>4. Orderly(r) /\ 1 \in 1 .. Len(r)
  BY <1>1
<1> HIDE DEF r, m
<1>5. r[1] \in Steps
  BY <1>4, ElementOfSeq DEF Orderly
<1>6. m \in Locks!Mutexes
  BY <1>2, <1>5 DEF Steps
<1>7. Level(h) < Level(m)
  BY <1>2, <1>3, <1>4, <1>6 DEF Orderly, Takes
<1>8. QED  BY <1>7 DEF m

\* What a thread locks is a mutex, and it waits for the end of a thread only that
\* takes none.
LEMMA WaitsForWhat ==
    ASSUME LayerInv, NEW t \in Locks!Threads
    PROVE  /\ Locks!Does(t, "lock") => Locks!Which(t) \in Locks!Mutexes
           /\ Locks!Does(t, "join") => Locks!Which(t) \in Connections \intersect Quiet
<1> SUFFICES ASSUME script[t] # <<>>
             PROVE  LET first == Head(script[t])
                    IN /\ first.what = "lock" => first.which \in Locks!Mutexes
                       /\ first.what = "join" =>
                            first.which \in Connections \intersect Quiet
  BY DEF Locks!Does, Locks!Which
<1>1. Rest(t)[1] = Head(script[t]) /\ 1 \in 1 .. Len(Rest(t))
  BY RestHead
<1>2. Rest(t) \in Seq(Steps) /\ JoinsQuiet(Rest(t))
  BY DEF LayerInv, AllOrderly, Orderly
<1>3. Rest(t)[1] \in Steps
  BY <1>1, <1>2, ElementOfSeq
<1>4. Head(script[t]).what = "join" =>
        Head(script[t]).which \in Connections \intersect Quiet
  BY <1>1, <1>2 DEF JoinsQuiet
<1>5. Head(script[t]).what = "lock" => Head(script[t]).which \in Locks!Mutexes
  BY <1>1, <1>3 DEF Steps
<1>6. QED  BY <1>4, <1>5

\* The mutexes along a circle of threads would have to rise for ever.
LEMMA NoCircle ==
    ASSUME LayerInv
    PROVE  Locks!NoCircularWait
<1> SUFFICES ASSUME NEW circle \in (SUBSET Locks!Threads) \ {{}},
                    \A t \in circle : \E u \in circle : Locks!WaitsFor(t, u)
             PROVE  FALSE
  BY Zenon DEF Locks!NoCircularWait
<1>0. circle \subseteq Locks!Threads /\ circle # {}
  <2>1. circle \in SUBSET Locks!Threads /\ circle \notin {{}}
    BY Zenon
  <2>2. QED  BY <2>1
<1>1. ASSUME NEW t \in circle
      PROVE  Locks!Does(t, "lock") /\ \E u \in circle : owner[Locks!Which(t)] = u
  <2>1. PICK u \in circle : Locks!WaitsFor(t, u)
    OBVIOUS
  <2>0. t \in Locks!Threads
    BY <1>0
  <2>2. CASE Locks!Does(t, "join") /\ Locks!Which(t) = u
    <3>1. u \in Connections \intersect Quiet
      BY <2>0, <2>2, WaitsForWhat
    <3>2. script[u] \in {<<>>, <<Locks!Do("end", u)>>}
      BY <3>1 DEF LayerInv, QuietReaders
    <3>3. ~ Locks!Does(u, "lock") /\ ~ Locks!Does(u, "join")
      BY <3>2 DEF Locks!Does, Locks!Do
    <3>4. \E w \in circle : Locks!WaitsFor(u, w)
      OBVIOUS
    <3>5. QED  BY <3>3, <3>4 DEF Locks!WaitsFor
  <2>3. CASE Locks!Does(t, "lock") /\ owner[Locks!Which(t)] = u
    BY <2>3
  <2>4. QED  BY <2>1, <2>2, <2>3 DEF Locks!WaitsFor
<1> DEFINE Rank(t) == Level(Locks!Which(t))
<1>2. \A t \in circle : Rank(t) \in 1 .. 6
  BY <1>0, <1>1, WaitsForWhat, LevelType
<1>3. \A t \in circle : \E u \in circle : Rank(t) < Rank(u)
  BY <1>0, <1>1, WaitsForWhat, WaitsUpwards
<1> HIDE DEF Rank
<1>4. ASSUME NEW n \in Int, NEW t \in circle, n <= Rank(t)
      PROVE  \E u \in circle : n + 1 <= Rank(u)
  BY <1>2, <1>3, <1>4, SMTT(30)
<1>5. \E t \in circle : 1 <= Rank(t)
  BY <1>0, <1>2
<1>6. \E t \in circle : 2 <= Rank(t)
  BY <1>4, <1>5
<1>7. \E t \in circle : 3 <= Rank(t)
  BY <1>4, <1>6
<1>8. \E t \in circle : 4 <= Rank(t)
  BY <1>4, <1>7
<1>9. \E t \in circle : 5 <= Rank(t)
  BY <1>4, <1>8
<1>10. \E t \in circle : 6 <= Rank(t)
  BY <1>4, <1>9
<1>11. \E t \in circle : 7 <= Rank(t)
  BY <1>4, <1>10
<1>12. QED  BY <1>2, <1>11

\* No two threads of a layer, and no more of them, wait for each other.
LEMMA LayerNeverCircles ==
    ASSUME Orderliness
    PROVE  Locks!Spec => []Locks!NoCircularWait
<1>1. Locks!Init => LayerInv
  BY LayerStarts
<1>2. LayerInv /\ [Locks!Next]_Locks!vars => LayerInv'
  BY LayerStays
<1>3. LayerInv => Locks!NoCircularWait
  BY NoCircle
<1>4. QED  BY <1>1, <1>2, <1>3, PTL DEF Locks!Spec

-----------------------------------------------------------------------------
(***************************************************************************)
(* send_message.  A code of three digits says yes to more than one command,*)
(* so each exchange needs to know which replies can be on their way: before*)
(* the text, 354 only when the server has read DATA and waits; after it,   *)
(* 250 only when the text was taken.                                       *)
(***************************************************************************)

Bytes == Seq(0 .. 255)

\* Letters are made of files of bytes, or of files that are missing.
Sensible ==
    /\ Letters \subseteq Seq(Bytes \union {Missing})
    /\ MaxLines \in Nat

\* The text of a letter, and its end.
TextItems(letter) ==
    {Mail!Item(w) : w \in {"header", "boundary", "end"}} \union
    {[word |-> "base64", data |-> Mail!base64_encode(letter[k])] :
        k \in DOMAIN letter \ Mail!Absent(letter)}
Dot == Mail!Item("dot")
WholeText(letter) == Mail!MessageLines(letter) \o <<Dot>>

Commands == {"ehlo", "MAIL", "RCPT", "DATA"}
Items(letter) ==
    TextItems(letter) \union {Dot}
        \union {Mail!Item(w) : w \in Commands \union {"QUIT"}}
Answers ==
    [code : {220, 221, 250, 354, 550}, behind : Mail!LastBehind \union {"-"}]

Typed ==
    /\ Mail!TypeOK
    /\ spoken \in Seq(Items(files))
    /\ replies \in Seq(Answers)

\* Before the text: the server has read DATA only if nothing is behind it.
BeforeText ==
    exchange <= 5 =>
        /\ lines = <<>> /\ mailbox = <<>>
        /\ \A i \in DOMAIN spoken :
              /\ spoken[i].word \in Commands
              /\ spoken[i].word = "DATA" => exchange = 5 /\ i = Len(spoken)
        /\ mode = "data" => exchange = 5 /\ spoken = <<>>
        /\ \A i \in DOMAIN replies :
              replies[i].code = 354 =>
                 /\ mode = "data"
                 /\ \A j \in i .. Len(replies) : replies[j].code = 354

\* No dot will come: the sender has ended before it.
IsBroken ==
    /\ sender # "running"
    /\ \A i \in DOMAIN spoken : spoken[i] \in TextItems(files)

\* What the server has collected and what is on its way are the letter.
IsWhole ==
    /\ Mail!Absent(files) = {}
    /\ lines \in Seq(TextItems(files))
    /\ lines \o spoken = WholeText(files)

\* The server reads the text, and has taken it when it says so.
AfterData ==
    exchange >= 6 =>
        /\ mode = "data" =>
              exchange = 6 /\ mailbox = <<>> /\ (IsBroken \/ IsWhole)
        /\ mode # "data" =>
              mode = "command" /\ \A i \in DOMAIN spoken : spoken[i].word = "QUIT"
        /\ exchange = 6 =>
              \A i \in DOMAIN replies :
                 replies[i].code = 250 => mailbox # <<>>
        /\ exchange = 7 => mailbox # <<>>

SenderInv == Typed /\ BeforeText /\ AfterData

-----------------------------------------------------------------------------
\* Induction over the numbers, for a set.
LEMMA EveryNumber ==
    ASSUME NEW S, 0 \in S, \A n \in Nat : n \in S => n + 1 \in S
    PROVE  \A n \in Nat : n \in S
<1> SUFFICES ASSUME NEW m \in Nat, m \notin S
             PROVE  FALSE
    OBVIOUS
<1> DEFINE missing == {n \in Nat : n \notin S}
<1>1. PICK n \in missing : \A k \in missing : <<k, n>> \notin OpToRel(<, Nat)
    <2>1. missing \subseteq Nat /\ missing # {}
        OBVIOUS
    <2> HIDE DEF missing
    <2> QED BY <2>1, NatLessThanWellFounded, WFMin
<1>2. \A k \in missing : ~ (k < n)
    BY <1>1 DEF OpToRel
<1>3. n \in Nat /\ n # 0 /\ n - 1 \in Nat /\ n - 1 < n
    <2>1. n \in Nat /\ n \notin S
        OBVIOUS
    <2>2. n # 0
        BY <2>1
    <2> QED BY <2>1, <2>2
<1>4. n - 1 \in S
    BY <1>2, <1>3
<1>5. (n - 1) + 1 = n
    BY <1>3
<1> QED BY <1>1, <1>3, <1>4, <1>5

\* The recursion of FlattenSeq has a solution.
LEMMA FlattenEquation ==
    ASSUME NEW T, NEW seqs \in Seq(Seq(T)), Len(seqs) # 0
    PROVE  \E w : /\ Mail!FlattenSeq(seqs) = w[Len(seqs)]
                  /\ \A i \in 1 .. Len(seqs) :
                        w[i] = IF i = 1 THEN seqs[i] ELSE w[i - 1] \o seqs[i]
<1> DEFINE More(f, i) == f \o seqs[i]
           Solves(w, n) ==
               w = [i \in 1 .. n |-> IF i = 1 THEN seqs[i]
                                     ELSE w[i - 1] \o seqs[i]]
           S == {n \in Nat : \E w : Solves(w, n)}
<1>1. 0 \in S
    <2>1. Solves([i \in 1 .. 0 |-> <<>>], 0)
        OBVIOUS
    <2> QED BY <2>1
<1>2. ASSUME NEW n \in Nat, n \in S
      PROVE  n + 1 \in S
    <2>1. PICK w : Solves(w, n)
        BY <1>2
    <2>2. w = [i \in 1 .. n |-> IF i = 1 THEN seqs[i] ELSE More(w[i - 1], i)]
        BY <2>1
    <2> HIDE DEF More
    <2> DEFINE v == [i \in 1 .. n + 1 |->
                        IF i <= n THEN w[i]
                        ELSE IF i = 1 THEN seqs[i] ELSE More(w[n], i)]
    <2>3. ASSUME NEW i \in 1 .. n + 1
          PROVE  v[i] = IF i = 1 THEN seqs[i] ELSE More(v[i - 1], i)
        <3>1. CASE i <= n
            <4>1. v[i] = w[i] /\ (i # 1 => v[i - 1] = w[i - 1])
                BY <3>1
            <4>2. w[i] = IF i = 1 THEN seqs[i] ELSE More(w[i - 1], i)
                BY <2>2, <3>1
            <4> QED BY <4>1, <4>2
        <3>2. CASE i = n + 1
            <4>1. v[i] = IF i = 1 THEN seqs[i] ELSE More(w[n], i)
                BY <3>2
            <4>2. i # 1 => i - 1 = n /\ v[n] = w[n]
                BY <3>2
            <4> QED BY <4>1, <4>2
        <3> QED BY <3>1, <3>2
    <2> HIDE DEF v
    <2>4. v = [i \in 1 .. n + 1 |-> v[i]]
        BY DEF v
    <2>5. v = [i \in 1 .. n + 1 |-> IF i = 1 THEN seqs[i] ELSE More(v[i - 1], i)]
        BY <2>3, <2>4
    <2>6. Solves(v, n + 1)
        BY <2>5 DEF More
    <2> HIDE DEF Solves
    <2> QED BY <2>6
<1>3. Len(seqs) \in S
    <2>1. Len(seqs) \in Nat
        BY LenProperties
    <2> HIDE DEF S
    <2>2. \A n \in Nat : n \in S
        BY <1>1, <1>2, EveryNumber
    <2> QED BY <2>1, <2>2
<1> DEFINE flatten == CHOOSE w : Solves(w, Len(seqs))
<1>4. Solves(flatten, Len(seqs))
    <2>1. \E w : Solves(w, Len(seqs))
        BY <1>3
    <2> HIDE DEF Solves
    <2> QED BY <2>1
<1>5. Mail!FlattenSeq(seqs) = flatten[Len(seqs)]
    BY DEF Mail!FlattenSeq
<1> HIDE DEF flatten
<1>6. \A i \in 1 .. Len(seqs) :
          flatten[i] = IF i = 1 THEN seqs[i] ELSE flatten[i - 1] \o seqs[i]
    BY <1>4
<1> QED BY <1>5, <1>6

\* What is put together from sequences of a set is one itself.
LEMMA FlattenType ==
    ASSUME NEW T, NEW seqs \in Seq(Seq(T))
    PROVE  Mail!FlattenSeq(seqs) \in Seq(T)
<1>1. CASE Len(seqs) = 0
    <2>1. seqs = <<>>
        BY <1>1, EmptySeq
    <2>2. Mail!FlattenSeq(seqs) = seqs
        BY <1>1 DEF Mail!FlattenSeq
    <2>3. <<>> \in Seq(T)
        OBVIOUS
    <2>4. Mail!FlattenSeq(seqs) = <<>>
        BY <2>1, <2>2
    <2> QED BY <2>3, <2>4
<1>2. CASE Len(seqs) # 0
    <2>1. PICK w : /\ Mail!FlattenSeq(seqs) = w[Len(seqs)]
                   /\ \A i \in 1 .. Len(seqs) :
                         w[i] = IF i = 1 THEN seqs[i]
                                ELSE w[i - 1] \o seqs[i]
        BY <1>2, FlattenEquation
    <2>2. Len(seqs) \in Nat /\ \A i \in 1 .. Len(seqs) : seqs[i] \in Seq(T)
        BY LenProperties, ElementOfSeq
    <2> DEFINE S == {n \in Nat : n \in 1 .. Len(seqs) => w[n] \in Seq(T)}
    <2>3. 0 \in S
        OBVIOUS
    <2>4. ASSUME NEW n \in Nat, n \in S
          PROVE  n + 1 \in S
        <3> SUFFICES ASSUME n + 1 \in 1 .. Len(seqs)
                     PROVE  w[n + 1] \in Seq(T)
            OBVIOUS
        <3>1. seqs[n + 1] \in Seq(T)
            BY <2>2
        <3>2. CASE n = 0
            <4>1. w[1] = seqs[1]
                BY <2>1, <3>2
            <4> QED BY <3>1, <3>2, <4>1
        <3>3. CASE n # 0
            <4>1. n \in 1 .. Len(seqs)
                BY <2>2, <3>3
            <4>2. w[n + 1] = w[n] \o seqs[n + 1]
                <5>1. (n + 1) - 1 = n /\ n + 1 # 1
                    BY <3>3
                <5> QED BY <2>1, <5>1
            <4>3. w[n] \in Seq(T)
                BY <2>4, <4>1
            <4> QED BY <3>1, <4>2, <4>3, ConcatProperties
        <3> QED BY <3>2, <3>3
    <2>5. Len(seqs) \in S
        <3> HIDE DEF S
        <3>1. \A n \in Nat : n \in S
            BY <2>3, <2>4, EveryNumber
        <3> QED BY <2>2, <3>1
    <2>6. Len(seqs) \in 1 .. Len(seqs)
        BY <1>2, <2>2
    <2> QED BY <2>1, <2>5, <2>6
<1> QED BY <1>1, <1>2

LEMMA Pair ==
    ASSUME NEW S, NEW a \in S, NEW b \in S
    PROVE  <<a, b>> \in Seq(S) /\ <<a>> \in Seq(S)
OBVIOUS

LEMMA Triple ==
    ASSUME NEW S, NEW a \in S, NEW b \in S, NEW c \in S
    PROVE  <<a, b, c>> \in Seq(S)
OBVIOUS

\* The text of a letter has no dot of its own.
LEMMA TextType ==
    ASSUME Sensible, NEW letter \in Letters
    PROVE  Mail!MessageLines(letter) \in Seq(TextItems(letter))
<1> DEFINE T == TextItems(letter)
           begun == Mail!Begun(letter)
           part == [k \in DOMAIN begun |-> Mail!PartLines(letter[k])]
           end == IF Mail!Absent(letter) = {} THEN <<Mail!Item("end")>> ELSE <<>>
<1>1. letter \in Seq(Bytes \union {Missing})
    BY DEF Sensible
<1>2. Mail!Item("header") \in T /\ Mail!Item("boundary") \in T /\ Mail!Item("end") \in T
    BY DEF TextItems
<1>3. \E n \in Nat : n <= Len(letter) /\ DOMAIN begun = 1 .. n
    <2>1. Len(letter) \in Nat /\ DOMAIN letter = 1 .. Len(letter)
        BY <1>1, LenProperties
    <2>2. CASE Mail!Absent(letter) = {}
        <3>1. begun = letter
            BY <2>2 DEF Mail!Begun
        <3> HIDE DEF begun
        <3>2. Len(letter) <= Len(letter) /\ DOMAIN begun = 1 .. Len(letter)
            BY <2>1, <3>1
        <3> QED BY <2>1, <3>2
    <2>3. CASE Mail!Absent(letter) # {}
        <3>1. Mail!Min(Mail!Absent(letter)) \in 1 .. Len(letter)
            <4>1. Mail!Absent(letter) \subseteq Nat
                BY <2>1 DEF Mail!Absent
            <4>2. PICK m \in Mail!Absent(letter) :
                      \A k \in Mail!Absent(letter) : <<k, m>> \notin OpToRel(<, Nat)
                BY <2>3, <4>1, NatLessThanWellFounded, WFMin
            <4>3. \A k \in Mail!Absent(letter) : ~ (k < m)
                BY <4>1, <4>2 DEF OpToRel
            <4>4. \A k \in Mail!Absent(letter) : m <= k
                BY <4>1, <4>3
            <4>5. Mail!Min(Mail!Absent(letter)) \in Mail!Absent(letter)
                BY <4>4 DEF Mail!Min
            <4> QED BY <2>1, <4>5 DEF Mail!Absent
        <3> DEFINE m == Mail!Min(Mail!Absent(letter))
        <3> HIDE DEF m
        <3>2. m \in 1 .. Len(letter)
            BY <3>1 DEF m
        <3>3. \A i \in 1 .. m : letter[i] \in Bytes \union {Missing}
            BY <1>1, <2>1, <3>2, ElementOfSeq
        <3>4. Len(SubSeq(letter, 1, m)) = m
              /\ SubSeq(letter, 1, m) \in Seq(Bytes \union {Missing})
            BY <1>1, <2>1, <3>2, <3>3, SubSeqProperties
        <3>5. DOMAIN SubSeq(letter, 1, m) = 1 .. m
            BY <3>4, LenProperties
        <3> QED BY <2>1, <2>3, <3>2, <3>5 DEF Mail!Begun, m
    <2> QED BY <2>2, <2>3
<1>4. PICK n \in Nat : n <= Len(letter) /\ DOMAIN begun = 1 .. n
    BY <1>3
<1>5. ASSUME NEW k \in 1 .. n
      PROVE  Mail!PartLines(letter[k]) \in Seq(T)
    <2>1. k \in DOMAIN letter
        BY <1>1, <1>4, LenProperties
    <2>2. <<Mail!Item("boundary"), Mail!Item("header")>> \in Seq(T)
        BY <1>2, Pair
    <2>3. CASE letter[k] = Missing
        <3>1. Mail!PartLines(letter[k]) =
                  <<Mail!Item("boundary"), Mail!Item("header")>> \o <<>>
            BY <2>3 DEF Mail!PartLines
        <3> HIDE DEF T
        <3> QED BY <2>2, <3>1, ConcatProperties
    <2>4. CASE letter[k] # Missing
        <3> DEFINE code == [word |-> "base64",
                            data |-> Mail!base64_encode(letter[k])]
        <3>1. code \in T
            BY <2>1, <2>4 DEF TextItems, Mail!Absent
        <3>2. Mail!PartLines(letter[k]) =
                  <<Mail!Item("boundary"), Mail!Item("header")>> \o <<code>>
            BY <2>4 DEF Mail!PartLines
        <3> HIDE DEF T, code
        <3>3. <<code>> \in Seq(T)
            BY <3>1, Pair
        <3> QED BY <2>2, <3>2, <3>3, ConcatProperties
    <2> QED BY <2>3, <2>4
<1>6. part \in Seq(Seq(T))
    <2>1. part = [k \in 1 .. n |-> Mail!PartLines(letter[k])]
        BY <1>4
    <2> HIDE DEF T, begun
    <2> QED BY <1>5, <2>1
<1>7. <<Mail!Item("header")>> \in Seq(T) /\ end \in Seq(T)
    <2> HIDE DEF T
    <2>1. <<Mail!Item("header")>> \in Seq(T) /\ <<Mail!Item("end")>> \in Seq(T)
        BY <1>2, Pair
    <2> QED BY <2>1
<1>8. Mail!MessageLines(letter) = (<<Mail!Item("header")>> \o Mail!FlattenSeq(part)) \o end
    BY DEF Mail!MessageLines
<1> HIDE DEF T, part, end
<1>9. Mail!FlattenSeq(part) \in Seq(T)
    BY <1>6, FlattenType
<1> QED BY <1>7, <1>8, <1>9, ConcatProperties DEF T

-----------------------------------------------------------------------------
LEMMA CodesAre ==
    /\ Len(Mail!Codes) = 7 /\ DOMAIN Mail!Codes = 1 .. 7
    /\ Mail!Codes[5] = 354 /\ Mail!Codes[6] = 250 /\ Mail!Codes[7] = 221
    /\ \A k \in {1, 2, 3, 4, 6, 7} : Mail!Codes[k] # 354
BY DEF Mail!Codes

LEMMA WordsAre ==
    /\ DOMAIN Mail!Words = 1 .. 7
    /\ \A k \in 2 .. 5 : Mail!Words[k] \in Commands
    /\ \A k \in 2 .. 4 : Mail!Words[k] # "DATA"
    /\ Mail!Words[7] = "QUIT"
BY DEF Mail!Words, Commands

LEMMA ItemsAre ==
    ASSUME NEW letter
    PROVE  /\ \A x \in TextItems(letter) :
                 x.word \in {"header", "boundary", "end", "base64"}
           /\ \A x \in Items(letter) :
                 /\ x.word \in {Mail!Words[k] : k \in DOMAIN Mail!Words} \union Mail!TextWords
                 /\ x.word = "dot" => x = Dot
           /\ TextItems(letter) \subseteq Items(letter)
           /\ Dot \in Items(letter) /\ Dot.word = "dot"
<1>1. \A x \in TextItems(letter) :
          x.word \in {"header", "boundary", "end", "base64"}
    BY DEF TextItems, Mail!Item
<1>2. \A w \in Commands \union {"QUIT"} :
          w \in {Mail!Words[k] : k \in DOMAIN Mail!Words} /\ w # "dot"
    <2>1. /\ Mail!Words[2] = "ehlo" /\ Mail!Words[3] = "MAIL" /\ Mail!Words[4] = "RCPT"
          /\ Mail!Words[5] = "DATA" /\ Mail!Words[7] = "QUIT" /\ DOMAIN Mail!Words = 1 .. 7
        BY DEF Mail!Words
    <2>2. 2 \in 1 .. 7 /\ 3 \in 1 .. 7 /\ 4 \in 1 .. 7 /\ 5 \in 1 .. 7
          /\ 7 \in 1 .. 7
        OBVIOUS
    <2>3. {"ehlo", "MAIL", "RCPT", "DATA", "QUIT"} \subseteq
              {Mail!Words[k] : k \in DOMAIN Mail!Words}
        BY <2>1, <2>2
    <2> QED BY <2>3 DEF Commands
<1>3. Dot.word = "dot" /\ \A w : Mail!Item(w).word = w
    BY DEF Dot, Mail!Item
<1>4. {"header", "boundary", "end", "base64", "dot"} \subseteq Mail!TextWords
    BY DEF Mail!TextWords
<1> QED BY <1>1, <1>2, <1>3, <1>4 DEF Items

LEMMA TailOf ==
    ASSUME NEW S, NEW s \in Seq(S), s # <<>>
    PROVE  /\ Len(s) \in Nat \ {0} /\ DOMAIN s = 1 .. Len(s) /\ 1 \in DOMAIN s
           /\ Head(s) = s[1] /\ Head(s) \in S
           /\ Tail(s) \in Seq(S) /\ Len(Tail(s)) = Len(s) - 1
           /\ DOMAIN Tail(s) = 1 .. Len(s) - 1
           /\ \A i \in 1 .. Len(s) - 1 : Tail(s)[i] = s[i + 1]
<1>1. Len(s) \in Nat \ {0}
    BY EmptySeq, LenProperties
<1>2. Tail(s) \in Seq(S) /\ Len(Tail(s)) = Len(s) - 1 /\ Head(s) \in S
      /\ Head(s) = s[1] /\ \A i \in 1 .. Len(s) - 1 : Tail(s)[i] = s[i + 1]
    BY HeadTailProperties
<1> QED BY <1>1, <1>2, LenProperties

LEMMA AppendOf ==
    ASSUME NEW S, NEW s \in Seq(S), NEW x \in S
    PROVE  /\ Append(s, x) \in Seq(S)
           /\ Len(s) \in Nat /\ Len(Append(s, x)) = Len(s) + 1
           /\ DOMAIN s = 1 .. Len(s)
           /\ DOMAIN Append(s, x) = 1 .. Len(s) + 1
           /\ \A i \in 1 .. Len(s) : Append(s, x)[i] = s[i]
           /\ Append(s, x)[Len(s) + 1] = x
<1>1. Append(s, x) \in Seq(S) /\ Len(Append(s, x)) = Len(s) + 1
      /\ (\A i \in 1 .. Len(s) : Append(s, x)[i] = s[i])
      /\ Append(s, x)[Len(s) + 1] = x
    BY AppendProperties
<1> QED BY <1>1, LenProperties

\* A reply is added to those that are on their way.
LEMMA Replied ==
    ASSUME Sensible, Typed, NEW code \in {220, 221, 250, 354, 550}, Mail!Reply(code)
    PROVE  /\ replies' \in Seq(Answers)
           /\ Len(replies) \in Nat /\ Len(replies') \in Nat
           /\ DOMAIN replies = 1 .. Len(replies)
           /\ DOMAIN replies' = 1 .. Len(replies')
           /\ Len(replies) <= Len(replies')
           /\ \A i \in DOMAIN replies : replies'[i] = replies[i]
           /\ \A i \in DOMAIN replies' :
                 i > Len(replies) => replies'[i].code = code
<1>1. PICK n \in 1 .. MaxLines, b \in Mail!LastBehind :
          replies' = replies \o
              [i \in 1 .. n |->
                  [code |-> code, behind |-> IF i = n THEN b ELSE "-"]]
    BY DEF Mail!Reply
<1> DEFINE more ==
        [i \in 1 .. n |-> [code |-> code, behind |-> IF i = n THEN b ELSE "-"]]
<1>2. n \in Nat
    BY DEF Sensible
<1>3. \A i \in 1 .. n : more[i] \in Answers /\ more[i].code = code
    BY DEF Answers
<1>4. more \in Seq(Answers) /\ Len(more) = n
    BY <1>2, <1>3
<1>5. replies' = replies \o more /\ replies \in Seq(Answers)
    BY <1>1 DEF Typed
<1> HIDE DEF more
<1>6. /\ replies' \in Seq(Answers)
      /\ Len(replies') = Len(replies) + n
      /\ \A i \in 1 .. Len(replies) + n :
            replies'[i] = IF i <= Len(replies) THEN replies[i]
                          ELSE more[i - Len(replies)]
    <2> DEFINE joined == replies \o more
    <2>1. joined \in Seq(Answers) /\ Len(joined) = Len(replies) + n
        BY <1>4, <1>5, ConcatProperties, ZenonT(60)
    <2>2. \A i \in 1 .. Len(replies) + n :
              joined[i] = IF i <= Len(replies) THEN replies[i]
                          ELSE more[i - Len(replies)]
        BY <1>4, <1>5, ConcatProperties
    <2>3. replies' = joined
        BY <1>5
    <2> HIDE DEF joined
    <2>4. replies' \in Seq(Answers) /\ Len(replies') = Len(replies) + n
        BY <2>1, <2>3, Zenon
    <2>5. \A i \in 1 .. Len(replies) + n :
              replies'[i] = IF i <= Len(replies) THEN replies[i]
                            ELSE more[i - Len(replies)]
        BY <2>2, <2>3, Zenon
    <2> QED BY <2>4, <2>5, Zenon
<1>7. Len(replies) \in Nat /\ DOMAIN replies = 1 .. Len(replies)
      /\ DOMAIN replies' = 1 .. Len(replies')
    BY <1>5, <1>6, LenProperties
<1> QED BY <1>2, <1>3, <1>6, <1>7

\* The dot comes when the whole letter has been collected, and not before.
LEMMA DotIsLast ==
    ASSUME Sensible, NEW letter \in Letters,
           NEW ls \in Seq(TextItems(letter)), NEW sp \in Seq(Items(letter)),
           sp # <<>>, ls \o sp = WholeText(letter)
    PROVE  /\ Head(sp).word = "dot" =>
                 Tail(sp) = <<>> /\ ls = Mail!MessageLines(letter)
           /\ Head(sp).word # "dot" =>
                 /\ Append(ls, Head(sp)) \in Seq(TextItems(letter))
                 /\ Append(ls, Head(sp)) \o Tail(sp) = WholeText(letter)
<1> DEFINE T == TextItems(letter)
           I == Items(letter)
           text == Mail!MessageLines(letter)
           whole == WholeText(letter)
<1>1. T \subseteq I /\ Dot \in I /\ Dot.word = "dot"
      /\ \A x \in T : x.word # "dot"
    BY ItemsAre
<1>2. text \in Seq(T) /\ whole = text \o <<Dot>>
    BY TextType DEF WholeText
<1> HIDE DEF T, I, text, whole
<1>3. text \in Seq(I) /\ ls \in Seq(I) /\ ls \in Seq(T) /\ sp \in Seq(I)
      /\ ls \o sp = whole
    BY <1>1, <1>2 DEF T, I, whole
<1>4. <<Dot>> \in Seq(I) /\ Len(<<Dot>>) = 1 /\ <<Dot>>[1] = Dot
    BY <1>1
<1>5. Len(text) \in Nat /\ Len(ls) \in Nat /\ Len(sp) \in Nat \ {0}
    BY <1>3, TailOf, LenProperties
<1>6. /\ Len(whole) = Len(text) + 1
      /\ \A i \in 1 .. Len(text) + 1 :
            whole[i] = IF i <= Len(text) THEN text[i]
                       ELSE <<Dot>>[i - Len(text)]
    BY <1>2, <1>3, <1>4, ConcatProperties
<1>7. /\ Len(whole) = Len(ls) + Len(sp)
      /\ \A i \in 1 .. Len(ls) + Len(sp) :
            whole[i] = IF i <= Len(ls) THEN ls[i] ELSE sp[i - Len(ls)]
    BY <1>3, ConcatProperties
<1> DEFINE p == Len(ls) + 1
<1>8. p \in 1 .. Len(text) + 1
    BY <1>5, <1>6, <1>7
<1>9. Head(sp) = whole[p]
    <2>1. Head(sp) = sp[1]
        BY <1>3, TailOf
    <2>2. p \in 1 .. Len(ls) + Len(sp) /\ ~ (p <= Len(ls)) /\ p - Len(ls) = 1
        BY <1>5
    <2> QED BY <1>7, <2>1, <2>2
<1>10. CASE p <= Len(text)
    <2>1. Head(sp) = text[p]
        BY <1>6, <1>8, <1>9, <1>10
    <2>2. text[p] \in T
        BY <1>2, <1>5, <1>8, <1>10, ElementOfSeq
    <2>3. Head(sp) \in T /\ Head(sp).word # "dot"
        BY <1>1, <2>1, <2>2
    <2>4. Append(ls, Head(sp)) \in Seq(T)
        BY <1>3, <2>3, AppendOf
    <2>5. Append(ls, Head(sp)) \o Tail(sp) = ls \o sp
        <3>1. sp = <<Head(sp)>> \o Tail(sp)
            <4>1. sp = SubSeq(sp, 1, Len(sp)) /\ Tail(sp) = SubSeq(sp, 2, Len(sp))
                BY <1>3, SubSeqFull, TailIsSubSeq
            <4>2. 1 \in 1 .. Len(sp) /\ Len(sp) \in 1 .. Len(sp)
                BY <1>5
            <4>3. SubSeq(sp, 1, Len(sp)) =
                      <<sp[1]>> \o SubSeq(sp, 1 + 1, Len(sp))
                BY <1>3, <4>2, SubSeqRecursiveFirst
            <4>4. Head(sp) = sp[1]
                BY <1>3, TailOf
            <4> QED BY <4>1, <4>3, <4>4
        <3>2. Append(ls, Head(sp)) = ls \o <<Head(sp)>>
            BY <1>3, <2>3, AppendIsConcat
        <3>3. Tail(sp) \in Seq(I) /\ <<Head(sp)>> \in Seq(I)
            BY <1>3, TailOf, Pair
        <3> QED BY <1>3, <3>1, <3>2, <3>3, ConcatAssociative
    <2> QED BY <1>3, <2>3, <2>4, <2>5 DEF T, whole
<1>11. CASE ~ (p <= Len(text))
    <2>1. p = Len(text) + 1 /\ Len(ls) = Len(text) /\ Len(sp) = 1
        BY <1>5, <1>6, <1>7, <1>8, <1>11
    <2>2. Head(sp) = Dot
        <3>1. whole[Len(text) + 1] = <<Dot>>[1]
            BY <1>5, <1>6
        <3> QED BY <1>4, <1>9, <2>1, <3>1
    <2>3. Tail(sp) = <<>>
        <3>1. Tail(sp) \in Seq(I) /\ Len(Tail(sp)) = 0
            BY <1>3, <1>5, <2>1, TailOf
        <3> QED BY <3>1, EmptySeq
    <2>4. ls = text
        <3>1. \A i \in 1 .. Len(ls) : ls[i] = text[i]
            BY <1>5, <1>6, <1>7, <2>1
        <3> QED BY <1>3, <2>1, <3>1, SeqEqual
    <2> QED BY <1>1, <2>2, <2>3, <2>4 DEF text
<1> QED BY <1>10, <1>11


LEMMA TypedParts ==
    /\ /\ files \in Letters
       /\ sender \in {"running", "returned", "threw", "killed", "overran"}
       /\ exchange \in 1 .. 7
       /\ spoken \in Seq(Items(files))
       /\ replies \in Seq(Answers)
       /\ mode \in {"greeting", "command", "data"}
       /\ up \in BOOLEAN
       => Typed
    /\ /\ files' \in Letters
       /\ sender' \in {"running", "returned", "threw", "killed", "overran"}
       /\ exchange' \in 1 .. 7
       /\ spoken' \in Seq(Items(files'))
       /\ replies' \in Seq(Answers)
       /\ mode' \in {"greeting", "command", "data"}
       /\ up' \in BOOLEAN
       => Typed'
<1>1. ASSUME NEW letter, NEW s \in Seq(Items(letter))
      PROVE  \A i \in DOMAIN s :
                s[i].word \in {Mail!Words[k] : k \in DOMAIN Mail!Words} \union Mail!TextWords
    <2>1. \A x \in Items(letter) :
              x.word \in {Mail!Words[k] : k \in DOMAIN Mail!Words} \union Mail!TextWords
        BY ItemsAre
    <2>2. \A i \in DOMAIN s : s[i] \in Items(letter)
        BY LenProperties, ElementOfSeq
    <2> QED BY <2>1, <2>2
<1>2. ASSUME NEW s \in Seq(Answers)
      PROVE  \A i \in DOMAIN s :
                /\ s[i].code \in {220, 221, 250, 354, 550}
                /\ s[i].behind \in Mail!LastBehind \union {"-"}
    <2>1. \A i \in DOMAIN s : s[i] \in Answers
        BY LenProperties, ElementOfSeq
    <2> QED BY <2>1 DEF Answers
<1>3. DOMAIN Mail!Codes = 1 .. 7
    BY CodesAre
<1> QED BY <1>1, <1>2, <1>3 DEF Typed, Mail!TypeOK

LEMMA TypeParts ==
    ASSUME Typed
    PROVE  /\ files \in Letters
           /\ sender \in {"running", "returned", "threw", "killed", "overran"}
           /\ exchange \in 1 .. 7
           /\ spoken \in Seq(Items(files))
           /\ replies \in Seq(Answers)
           /\ mode \in {"greeting", "command", "data"}
           /\ up \in BOOLEAN
BY CodesAre DEF Typed, Mail!TypeOK

LEMMA SenderStarts ==
    ASSUME Mail!Init
    PROVE  SenderInv
<1>1. spoken = <<>> /\ replies = <<>> /\ lines = <<>> /\ mailbox = <<>>
      /\ mode = "greeting" /\ exchange = 1 /\ files \in Letters
      /\ sender = "running" /\ up = TRUE
    BY DEF Mail!Init
<1>2. Typed
    <2>1. spoken \in Seq(Items(files)) /\ replies \in Seq(Answers)
        BY <1>1
    <2> QED BY <1>1, <2>1, TypedParts
<1>3. BeforeText
    BY <1>1 DEF BeforeText
<1>4. AfterData
    BY <1>1 DEF AfterData
<1> QED BY <1>2, <1>3, <1>4 DEF SenderInv

\* The greeting comes before everything else.
LEMMA GreetInv ==
    ASSUME Sensible, SenderInv, Mail!Greet
    PROVE  SenderInv'
<1>1. Typed /\ BeforeText /\ AfterData
    BY DEF SenderInv
<1>2. /\ mode = "greeting" /\ mode' = "command"
      /\ Mail!Reply(220) \/ Mail!Reply(550)
      /\ files' = files /\ sender' = sender /\ exchange' = exchange
      /\ spoken' = spoken /\ accepted' = accepted /\ lines' = lines
      /\ mailbox' = mailbox /\ up' = up
    BY DEF Mail!Greet, Mail!senderVars
<1>3. exchange \in 1 .. 7 /\ exchange <= 5
    <2>1. exchange \in 1 .. 7
        BY <1>1, TypeParts
    <2>2. ~ (exchange >= 6)
        BY <1>1, <1>2 DEF AfterData
    <2> QED BY <2>1, <2>2
<1>4. PICK code \in {220, 550} : Mail!Reply(code)
    BY <1>2
<1>5. /\ replies' \in Seq(Answers)
      /\ DOMAIN replies = 1 .. Len(replies) /\ DOMAIN replies' = 1 .. Len(replies')
      /\ Len(replies) \in Nat /\ Len(replies') \in Nat
      /\ \A i \in DOMAIN replies : replies'[i] = replies[i]
      /\ \A i \in DOMAIN replies' : i > Len(replies) => replies'[i].code = code
    BY <1>1, <1>4, Replied
<1>6. Typed'
    BY <1>1, <1>2, <1>5, TypeParts, TypedParts
<1>7. \A i \in DOMAIN replies' : replies'[i].code # 354
    <2>1. \A i \in DOMAIN replies : replies[i].code # 354
        BY <1>1, <1>2, <1>3 DEF BeforeText
    <2>2. ASSUME NEW i \in DOMAIN replies'
          PROVE  replies'[i].code # 354
        <3>1. CASE i \in DOMAIN replies
            BY <1>5, <2>1, <3>1
        <3>2. CASE i \notin DOMAIN replies
            <4>1. i > Len(replies)
                BY <1>5, <3>2
            <4> QED BY <1>5, <4>1
        <3> QED BY <3>1, <3>2
    <2> QED BY <2>2
<1>8. BeforeText'
    <2>1. /\ lines = <<>> /\ mailbox = <<>>
          /\ \A i \in DOMAIN spoken :
                /\ spoken[i].word \in Commands
                /\ spoken[i].word = "DATA" => exchange = 5 /\ i = Len(spoken)
        BY <1>1, <1>3 DEF BeforeText
    <2> QED BY <1>2, <1>7, <2>1 DEF BeforeText
<1>9. AfterData'
    BY <1>2, <1>3 DEF AfterData
<1> QED BY <1>6, <1>8, <1>9 DEF SenderInv

\* What was written has been read in the order it was written in.
LEMMA AnswerInv ==
    ASSUME Sensible, SenderInv, Mail!Answer
    PROVE  SenderInv'
<1> DEFINE verb == Head(spoken).word
<1>1. Typed /\ BeforeText /\ AfterData
    BY DEF SenderInv
<1>2. /\ mode = "command" /\ spoken # <<>> /\ spoken' = Tail(spoken)
      /\ files' = files /\ sender' = sender /\ exchange' = exchange
      /\ lines' = lines /\ mailbox' = mailbox /\ up' = up
    BY DEF Mail!Answer, Mail!senderVars
<1>3. \/ /\ mode' = IF verb = "DATA" THEN "data" ELSE "command"
         /\ Mail!Reply(Mail!CodeOf(verb))
      \/ verb # "QUIT" /\ Mail!Reply(550) /\ mode' = mode
    BY DEF Mail!Answer
<1>4. /\ exchange \in 1 .. 7 /\ spoken \in Seq(Items(files))
      /\ mode \in {"greeting", "command", "data"}
    BY <1>1, TypeParts
<1>5. /\ Len(spoken) \in Nat \ {0} /\ DOMAIN spoken = 1 .. Len(spoken)
      /\ 1 \in DOMAIN spoken /\ Head(spoken) = spoken[1]
      /\ Tail(spoken) \in Seq(Items(files))
      /\ Len(Tail(spoken)) = Len(spoken) - 1
      /\ DOMAIN Tail(spoken) = 1 .. Len(spoken) - 1
      /\ \A i \in 1 .. Len(spoken) - 1 : Tail(spoken)[i] = spoken[i + 1]
    BY <1>2, <1>4, TailOf
<1>6. verb = spoken[1].word
    BY <1>5
<1> HIDE DEF verb
<1>7. /\ Len(spoken') = Len(spoken) - 1 /\ spoken' \in Seq(Items(files'))
      /\ DOMAIN spoken' = 1 .. Len(spoken) - 1
      /\ \A i \in DOMAIN spoken' : i + 1 \in DOMAIN spoken
                                   /\ spoken'[i] = spoken[i + 1]
    BY <1>2, <1>5
<1>8. mode' \in {"command", "data"}
      /\ (mode' = "data" => verb = "DATA" /\ Mail!Reply(Mail!CodeOf(verb)))
    BY <1>2, <1>3
<1>9. PICK code \in {221, 250, 354, 550} :
          /\ Mail!Reply(code)
          /\ code = 354 => verb = "DATA" /\ mode' = "data"
          /\ mode' = "data" => code = 354
          /\ code = 250 => verb # "QUIT"
    <2>1. CASE verb = "DATA" /\ mode' = "data"
        <3>1. Mail!Reply(354)
            BY <1>8, <2>1 DEF Mail!CodeOf
        <3> QED BY <2>1, <3>1
    <2>2. CASE verb = "QUIT" /\ mode' # "data"
        <3>1. Mail!Reply(Mail!CodeOf(verb)) /\ Mail!CodeOf(verb) = 221
            BY <1>3, <2>2 DEF Mail!CodeOf
        <3> QED BY <2>2, <3>1
    <2>3. CASE mode' # "data" /\ verb # "QUIT" /\ Mail!Reply(550)
        BY <2>3
    <2>4. CASE mode' # "data" /\ verb # "QUIT" /\ ~ Mail!Reply(550)
        <3>1. Mail!Reply(Mail!CodeOf(verb)) /\ verb # "DATA"
            BY <1>3, <2>4
        <3>2. Mail!CodeOf(verb) = 250
            BY <2>4, <3>1 DEF Mail!CodeOf
        <3> QED BY <2>4, <3>1, <3>2
    <2> QED BY <1>8, <2>1, <2>2, <2>3, <2>4
<1>10. /\ replies' \in Seq(Answers)
       /\ DOMAIN replies = 1 .. Len(replies) /\ DOMAIN replies' = 1 .. Len(replies')
       /\ Len(replies) \in Nat /\ Len(replies') \in Nat
       /\ \A i \in DOMAIN replies : replies'[i] = replies[i]
       /\ \A i \in DOMAIN replies' : i > Len(replies) => replies'[i].code = code
    BY <1>1, <1>9, Replied
<1>11. Typed'
    <2>1. files' \in Letters /\ up' \in BOOLEAN /\ exchange' \in 1 .. 7
          /\ sender' \in {"running", "returned", "threw", "killed", "overran"}
        BY <1>1, <1>2, TypeParts
    <2>2. mode' \in {"greeting", "command", "data"}
        BY <1>8
    <2> QED BY <1>7, <1>10, <2>1, <2>2, TypedParts
<1>12. CASE exchange <= 5
    <2>1. /\ lines = <<>> /\ mailbox = <<>>
          /\ \A i \in DOMAIN spoken :
                /\ spoken[i].word \in Commands
                /\ spoken[i].word = "DATA" => exchange = 5 /\ i = Len(spoken)
          /\ \A i \in DOMAIN replies : replies[i].code # 354
        BY <1>1, <1>2, <1>12 DEF BeforeText
    <2>2. \A i \in DOMAIN spoken' :
              /\ spoken'[i].word \in Commands
              /\ spoken'[i].word = "DATA" => exchange' = 5 /\ i = Len(spoken')
        BY <1>2, <1>7, <1>5, <2>1
    <2>3. mode' = "data" => exchange' = 5 /\ spoken' = <<>>
        <3>1. SUFFICES ASSUME mode' = "data"
                       PROVE  exchange = 5 /\ spoken' = <<>>
            BY <1>2
        <3>2. spoken[1].word = "DATA"
            BY <1>6, <1>8, <3>1
        <3>3. exchange = 5 /\ 1 = Len(spoken)
            BY <1>5, <2>1, <3>2
        <3>4. Len(spoken') = 0
            <4>1. Len(spoken') = Len(spoken) - 1
                BY <1>7
            <4> QED BY <3>3, <4>1
        <3> QED BY <1>7, <3>3, <3>4, EmptySeq
    <2>4. ASSUME NEW i \in DOMAIN replies', replies'[i].code = 354
          PROVE  /\ mode' = "data"
                 /\ \A j \in i .. Len(replies') : replies'[j].code = 354
        <3>1. i \notin DOMAIN replies
            BY <1>10, <2>1, <2>4
        <3>2. i > Len(replies)
            BY <1>10, <3>1
        <3>3. code = 354
            BY <1>10, <2>4, <3>2
        <3>4. \A j \in i .. Len(replies') :
                  j \in DOMAIN replies' /\ j > Len(replies)
            BY <1>10, <3>2
        <3> QED BY <1>9, <1>10, <3>3, <3>4
    <2>5. BeforeText'
        BY <1>2, <2>1, <2>2, <2>3, <2>4 DEF BeforeText
    <2>6. AfterData'
        BY <1>2, <1>4, <1>12 DEF AfterData
    <2> QED BY <1>11, <2>5, <2>6 DEF SenderInv
<1>13. CASE exchange >= 6
    <2>1. /\ \A i \in DOMAIN spoken : spoken[i].word = "QUIT"
          /\ exchange = 6 => \A i \in DOMAIN replies :
                                replies[i].code = 250 => mailbox # <<>>
          /\ exchange = 7 => mailbox # <<>>
        BY <1>1, <1>2, <1>13 DEF AfterData
    <2>2. verb = "QUIT"
        BY <1>5, <1>6, <2>1
    <2>3. mode' = "command" /\ code # 250
        BY <1>8, <1>9, <2>2
    <2>4. \A i \in DOMAIN spoken' : spoken'[i].word = "QUIT"
        BY <1>7, <2>1
    <2>5. exchange' = 6 => \A i \in DOMAIN replies' :
                              replies'[i].code = 250 => mailbox' # <<>>
        <3>1. SUFFICES ASSUME exchange' = 6, NEW i \in DOMAIN replies',
                              replies'[i].code = 250
                       PROVE  mailbox # <<>>
            BY <1>2
        <3>2. ~ (i > Len(replies))
            BY <1>10, <2>3, <3>1
        <3>3. i \in DOMAIN replies
            BY <1>10, <3>2
        <3> QED BY <1>2, <1>10, <2>1, <3>1, <3>3
    <2>6. AfterData'
        BY <1>2, <2>1, <2>3, <2>4, <2>5 DEF AfterData
    <2>7. BeforeText'
        BY <1>2, <1>4, <1>13 DEF BeforeText
    <2> QED BY <1>11, <2>6, <2>7 DEF SenderInv
<1> QED BY <1>4, <1>12, <1>13

LEMMA CollectInv ==
    ASSUME Sensible, SenderInv, Mail!Collect
    PROVE  SenderInv'
<1> DEFINE verb == Head(spoken).word
           T == TextItems(files)
<1>1. Typed /\ BeforeText /\ AfterData
    BY DEF SenderInv
<1>2. /\ mode = "data" /\ spoken # <<>> /\ spoken' = Tail(spoken)
      /\ files' = files /\ sender' = sender /\ exchange' = exchange
      /\ up' = up
    BY DEF Mail!Collect, Mail!senderVars
<1>3. /\ files \in Letters /\ exchange \in 1 .. 7
      /\ spoken \in Seq(Items(files)) /\ replies \in Seq(Answers)
    BY <1>1, TypeParts
<1>4. exchange = 6 /\ mailbox = <<>> /\ (IsBroken \/ IsWhole)
    <2>1. ~ (exchange <= 5)
        BY <1>1, <1>2 DEF BeforeText
    <2>2. exchange >= 6
        BY <1>3, <2>1
    <2> QED BY <1>1, <1>2, <2>2 DEF AfterData
<1>5. \A i \in DOMAIN replies : replies[i].code # 250
    BY <1>1, <1>4 DEF AfterData
<1>6. /\ Len(spoken) \in Nat \ {0} /\ DOMAIN spoken = 1 .. Len(spoken)
      /\ 1 \in DOMAIN spoken /\ Head(spoken) = spoken[1]
      /\ Tail(spoken) \in Seq(Items(files))
      /\ Len(Tail(spoken)) = Len(spoken) - 1
      /\ DOMAIN Tail(spoken) = 1 .. Len(spoken) - 1
      /\ \A i \in 1 .. Len(spoken) - 1 : Tail(spoken)[i] = spoken[i + 1]
    BY <1>2, <1>3, TailOf
<1>7. /\ spoken' \in Seq(Items(files'))
      /\ \A i \in DOMAIN spoken' : i + 1 \in DOMAIN spoken
                                   /\ spoken'[i] = spoken[i + 1]
    BY <1>2, <1>6
<1>8. IsBroken => verb # "dot"
    <2>1. SUFFICES ASSUME IsBroken
                   PROVE  verb # "dot"
        OBVIOUS
    <2>2. spoken[1] \in T
        BY <1>6, <2>1 DEF IsBroken
    <2>3. spoken[1].word \in {"header", "boundary", "end", "base64"}
        BY <2>2, ItemsAre
    <2> QED BY <1>6, <2>3
<1>9. IsWhole =>
        /\ verb = "dot" =>
              Tail(spoken) = <<>> /\ lines = Mail!MessageLines(files)
        /\ verb # "dot" =>
              /\ Append(lines, Head(spoken)) \in Seq(T)
              /\ Append(lines, Head(spoken)) \o Tail(spoken) = WholeText(files)
    BY <1>2, <1>3, DotIsLast DEF IsWhole
<1>10. BeforeText'
    BY <1>2, <1>4 DEF BeforeText
<1>11. CASE verb # "dot"
    <2>1. /\ lines' = Append(lines, Head(spoken))
          /\ mode' = mode /\ mailbox' = mailbox /\ replies' = replies
        BY <1>11 DEF Mail!Collect
    <2>2. Typed'
        BY <1>1, <1>2, <1>7, <2>1, TypeParts, TypedParts
    <2>3. IsBroken => IsBroken'
        BY <1>2, <1>7 DEF IsBroken
    <2>4. IsWhole => IsWhole'
        <3>1. SUFFICES ASSUME IsWhole
                       PROVE  IsWhole'
            OBVIOUS
        <3>2. /\ lines' \in Seq(TextItems(files'))
              /\ lines' \o spoken' = WholeText(files)
            BY <1>2, <1>9, <1>11, <2>1, <3>1
        <3>3. WholeText(files') = WholeText(files)
            BY <1>2
        <3>4. Mail!Absent(files') = {}
            BY <1>2, <3>1 DEF IsWhole
        <3> QED BY <3>2, <3>3, <3>4 DEF IsWhole
    <2>5. AfterData'
        BY <1>2, <1>4, <1>5, <2>1, <2>3, <2>4 DEF AfterData
    <2> QED BY <1>10, <2>2, <2>5 DEF SenderInv
<1>12. CASE verb = "dot"
    <2>1. Tail(spoken) = <<>>
        BY <1>4, <1>8, <1>9, <1>12
    <2>2. /\ mode' = "command"
          /\ \/ Mail!Reply(250) /\ mailbox' = Append(mailbox, lines)
             \/ Mail!Reply(550) /\ mailbox' = mailbox
        BY <1>12 DEF Mail!Collect
    <2>3. PICK code \in {250, 550} :
              Mail!Reply(code) /\ (code = 250 => mailbox' = Append(mailbox, lines))
        BY <2>2
    <2>4. /\ replies' \in Seq(Answers)
          /\ DOMAIN replies = 1 .. Len(replies)
          /\ DOMAIN replies' = 1 .. Len(replies')
          /\ Len(replies) \in Nat /\ Len(replies') \in Nat
          /\ \A i \in DOMAIN replies : replies'[i] = replies[i]
          /\ \A i \in DOMAIN replies' :
                i > Len(replies) => replies'[i].code = code
        BY <1>1, <2>3, Replied
    <2>5. Typed'
        BY <1>1, <1>2, <1>7, <2>2, <2>4, TypeParts, TypedParts
    <2>6. code = 250 => mailbox' # <<>>
        <3>1. <<>> \in Seq({lines}) /\ lines \in {lines}
            OBVIOUS
        <3>2. Len(Append(<<>>, lines)) = Len(<<>>) + 1
            BY <3>1, AppendProperties
        <3>3. Append(<<>>, lines) # <<>>
            BY <3>2
        <3> QED BY <1>4, <2>3, <3>3
    <2>7. \A i \in DOMAIN replies' :
              replies'[i].code = 250 => mailbox' # <<>>
        <3>1. SUFFICES ASSUME NEW i \in DOMAIN replies',
                              replies'[i].code = 250
                       PROVE  code = 250
            BY <2>6
        <3>2. i \notin DOMAIN replies
            BY <1>5, <2>4, <3>1
        <3>3. i > Len(replies)
            BY <2>4, <3>2
        <3> QED BY <2>4, <3>1, <3>3
    <2>8. \A i \in DOMAIN spoken' : spoken'[i].word = "QUIT"
        BY <1>2, <2>1
    <2>9. AfterData'
        BY <1>2, <1>4, <2>2, <2>7, <2>8 DEF AfterData
    <2> QED BY <1>10, <2>5, <2>9 DEF SenderInv
<1> QED BY <1>11, <1>12

LEMMA HangUpInv ==
    ASSUME Sensible, SenderInv, Mail!HangUp
    PROVE  SenderInv'
<1>1. Typed /\ BeforeText /\ AfterData
    BY DEF SenderInv
<1>2. /\ up' = FALSE /\ files' = files /\ sender' = sender
      /\ exchange' = exchange /\ spoken' = spoken /\ replies' = replies
      /\ mode' = mode /\ lines' = lines /\ mailbox' = mailbox
    BY DEF Mail!HangUp, Mail!senderVars
<1>3. Typed'
    BY <1>1, <1>2, TypeParts, TypedParts
<1>4. BeforeText'
    BY <1>1, <1>2 DEF BeforeText
<1>5. AfterData'
    <2>1. IsBroken => IsBroken'
        BY <1>2 DEF IsBroken
    <2>2. IsWhole => IsWhole'
        BY <1>2 DEF IsWhole
    <2> QED BY <1>1, <1>2, <2>1, <2>2 DEF AfterData
<1> QED BY <1>3, <1>4, <1>5 DEF SenderInv

LEMMA GetLineAtEndInv ==
    ASSUME Sensible, SenderInv, Mail!GetLineAtEnd
    PROVE  SenderInv'
<1>1. Typed /\ BeforeText /\ AfterData
    BY DEF SenderInv
<1>2. /\ sender' = "overran" /\ files' = files /\ up' = up
      /\ exchange' = exchange /\ spoken' = spoken /\ replies' = replies
      /\ mode' = mode /\ lines' = lines /\ mailbox' = mailbox
    BY DEF Mail!GetLineAtEnd, Mail!mailerVars
<1>3. Typed'
    BY <1>1, <1>2, TypeParts, TypedParts
<1>4. BeforeText'
    BY <1>1, <1>2 DEF BeforeText
<1>5. AfterData'
    <2>1. IsBroken => IsBroken'
        BY <1>2 DEF IsBroken
    <2>2. IsWhole => IsWhole'
        BY <1>2 DEF IsWhole
    <2> QED BY <1>1, <1>2, <2>1, <2>2 DEF AfterData
<1> QED BY <1>3, <1>4, <1>5 DEF SenderInv

\* get_line takes one line off the queue, or two.
LEMMA LinesLeft ==
    ASSUME replies \in Seq(Answers), Mail!ReadLine
    PROVE  \E taken \in {1, 2} :
              /\ replies' \in Seq(Answers) /\ DOMAIN replies = 1 .. Len(replies)
              /\ Len(replies) \in Nat /\ Len(replies') = Len(replies) - taken
              /\ DOMAIN replies' = 1 .. Len(replies) - taken
              /\ \A i \in DOMAIN replies' : i + taken \in DOMAIN replies
                                            /\ replies'[i] = replies[i + taken]
<1> DEFINE rest1 == Tail(replies)
           rest2 == Tail(rest1)
<1>1. replies # <<>>
    BY DEF Mail!ReadLine
<1>2. /\ Len(replies) \in Nat \ {0} /\ DOMAIN replies = 1 .. Len(replies)
      /\ rest1 \in Seq(Answers) /\ Len(rest1) = Len(replies) - 1
      /\ DOMAIN rest1 = 1 .. Len(replies) - 1
      /\ \A i \in 1 .. Len(replies) - 1 : rest1[i] = replies[i + 1]
    BY <1>1, TailOf
<1>3. \/ replies' = rest1
      \/ rest1 # <<>> /\ replies' = rest2
    BY DEF Mail!ReadLine
<1> HIDE DEF rest1
<1>4. CASE replies' = rest1
    <2>1. \A i \in 1 .. Len(replies) - 1 : i + 1 \in DOMAIN replies
        BY <1>2
    <2> QED BY <1>2, <1>4, <2>1
<1>5. CASE rest1 # <<>> /\ replies' = rest2
    <2>1. /\ Len(rest1) \in Nat \ {0}
          /\ rest2 \in Seq(Answers) /\ Len(rest2) = Len(rest1) - 1
          /\ DOMAIN rest2 = 1 .. Len(rest1) - 1
          /\ \A i \in 1 .. Len(rest1) - 1 : rest2[i] = rest1[i + 1]
        BY <1>2, <1>5, TailOf
    <2> HIDE DEF rest2
    <2>2. ASSUME NEW i \in 1 .. Len(replies) - 2
          PROVE  i + 2 \in DOMAIN replies /\ rest2[i] = replies[i + 2]
        <3>1. i + 1 \in 1 .. Len(replies) - 1 /\ (i + 1) + 1 = i + 2
              /\ i \in 1 .. Len(rest1) - 1
            BY <1>2, <2>2
        <3> QED BY <1>2, <2>1, <3>1
    <2>3. Len(rest1) - 1 = Len(replies) - 2
        BY <1>2
    <2> QED BY <1>2, <1>5, <2>1, <2>2, <2>3
<1> QED BY <1>3, <1>4, <1>5

\* A line is read, and whatever is said after it.
LEMMA GetLineInv ==
    ASSUME Sensible, SenderInv, Mail!GetLine
    PROVE  SenderInv'
<1> DEFINE line == Head(replies)
<1>1. Typed /\ BeforeText /\ AfterData
    BY DEF SenderInv
<1>2. /\ sender = "running" /\ Mail!ReadLine /\ replies # <<>>
      /\ files' = files /\ mode' = mode /\ lines' = lines
      /\ mailbox' = mailbox /\ up' = up
    BY DEF Mail!GetLine, Mail!ReadLine, Mail!mailerVars
<1>3. /\ files \in Letters /\ exchange \in 1 .. 7
      /\ spoken \in Seq(Items(files)) /\ replies \in Seq(Answers)
      /\ mode \in {"greeting", "command", "data"} /\ up \in BOOLEAN
    BY <1>1, TypeParts
<1>4. /\ Len(replies) \in Nat \ {0} /\ DOMAIN replies = 1 .. Len(replies)
      /\ 1 \in DOMAIN replies /\ line = replies[1]
    BY <1>2, <1>3, TailOf
<1>5. line.code \in {220, 221, 250, 354, 550}
    <2>1. replies[1] \in Answers
        BY <1>3, <1>4, ElementOfSeq
    <2> QED BY <1>4, <2>1 DEF Answers
<1>6. \/ /\ exchange = 2 /\ sender' \in {"running", "threw"}
         /\ exchange' = exchange /\ spoken' = spoken
      \/ /\ line.code = Mail!Codes[exchange] \/ exchange = 2
         /\ exchange < 7 /\ exchange' = exchange + 1 /\ Mail!Say(exchange + 1)
      \/ /\ exchange = 7 /\ sender' = "returned"
         /\ exchange' = exchange /\ spoken' = spoken
      \/ /\ sender' = "threw"
         /\ exchange' = exchange /\ spoken' = spoken
    <2>1. Mail!EhloGoesOn(line) => exchange = 2
        BY Zenon DEF Mail!EhloGoesOn
    <2> QED BY <2>1, CodesAre DEF Mail!GetLine, Mail!IsWanted
<1> HIDE DEF line
<1>7. PICK taken \in {1, 2} :
         /\ replies' \in Seq(Answers) /\ DOMAIN replies = 1 .. Len(replies)
         /\ Len(replies) \in Nat /\ Len(replies') = Len(replies) - taken
         /\ DOMAIN replies' = 1 .. Len(replies) - taken
         /\ \A i \in DOMAIN replies' : i + taken \in DOMAIN replies
                                       /\ replies'[i] = replies[i + taken]
    BY <1>2, <1>3, LinesLeft
<1>8. \A i \in DOMAIN replies' :
          (replies[i + taken].code = 354 =>
              /\ mode = "data"
              /\ \A j \in i + taken .. Len(replies) : replies[j].code = 354) =>
          (replies'[i].code = 354 =>
              /\ mode = "data"
              /\ \A j \in i .. Len(replies') : replies'[j].code = 354)
    <2>1. SUFFICES ASSUME NEW i \in DOMAIN replies',
                          \A j \in i + taken .. Len(replies) :
                              replies[j].code = 354,
                          NEW j \in i .. Len(replies')
                   PROVE  replies'[j].code = 354
        BY <1>7, SMTT(30)
    <2>2. j \in DOMAIN replies' /\ j + taken \in i + taken .. Len(replies)
        BY <1>7, <2>1
    <2> QED BY <1>7, <2>1, <2>2
<1>9. CASE exchange' = exchange /\ spoken' = spoken
           /\ sender' \in {"running", "returned", "threw"}
           /\ (exchange = 2 \/ sender' # "running")
    <2>1. Typed'
        BY <1>2, <1>3, <1>7, <1>9, TypedParts
    <2>2. BeforeText'
        <3>1. SUFFICES ASSUME exchange' <= 5
                       PROVE  BeforeText'
            BY DEF BeforeText
        <3>2. /\ lines = <<>> /\ mailbox = <<>>
              /\ \A i \in DOMAIN spoken :
                    /\ spoken[i].word \in Commands
                    /\ spoken[i].word = "DATA" =>
                          exchange = 5 /\ i = Len(spoken)
              /\ mode = "data" => exchange = 5 /\ spoken = <<>>
              /\ \A i \in DOMAIN replies :
                    replies[i].code = 354 =>
                       /\ mode = "data"
                       /\ \A j \in i .. Len(replies) : replies[j].code = 354
            BY <1>1, <1>9, <3>1 DEF BeforeText
        <3>3. \A i \in DOMAIN replies' :
                  replies'[i].code = 354 =>
                     /\ mode = "data"
                     /\ \A j \in i .. Len(replies') : replies'[j].code = 354
            BY <1>7, <1>8, <3>2
        <3> QED BY <1>2, <1>9, <3>2, <3>3 DEF BeforeText
    <2>3. AfterData'
        <3>1. SUFFICES ASSUME exchange >= 6
                       PROVE  AfterData'
            BY <1>3, <1>9 DEF AfterData
        <3>2. IsWhole => IsWhole'
            BY <1>2, <1>9 DEF IsWhole
        <3>3. ~ IsBroken
            BY <1>2 DEF IsBroken
        <3> QED BY <1>1, <1>2, <1>3, <1>7, <1>9, <3>1, <3>2, <3>3
                DEF AfterData
    <2> QED BY <2>1, <2>2, <2>3 DEF SenderInv
<1>10. CASE /\ line.code = Mail!Codes[exchange] \/ exchange = 2
            /\ exchange < 7 /\ exchange' = exchange + 1
            /\ Mail!Say(exchange + 1) /\ exchange <= 4
    <2>1. exchange + 1 \in 2 .. 5 /\ exchange + 1 # 6
        BY <1>3, <1>10
    <2>2. \/ /\ spoken' = Append(spoken, Mail!Item(Mail!Words[exchange + 1]))
             /\ sender' = sender
          \/ spoken' = spoken /\ sender' = "killed"
        BY <1>10, <2>1 DEF Mail!Say
    <2> DEFINE item == Mail!Item(Mail!Words[exchange + 1])
    <2>3. /\ item \in Items(files) /\ item.word \in Commands
          /\ item.word = "DATA" => exchange + 1 = 5
        <3>1. Mail!Words[exchange + 1] \in Commands
            BY <2>1, WordsAre
        <3>2. exchange + 1 # 5 => exchange + 1 \in 2 .. 4
            BY <2>1
        <3>3. exchange + 1 # 5 => Mail!Words[exchange + 1] # "DATA"
            BY <3>2, WordsAre
        <3> QED BY <3>1, <3>3 DEF Items, Mail!Item
    <2> HIDE DEF item
    <2>4. /\ lines = <<>> /\ mailbox = <<>> /\ mode # "data"
          /\ \A i \in DOMAIN spoken :
                spoken[i].word \in Commands /\ spoken[i].word # "DATA"
          /\ \A i \in DOMAIN replies : replies[i].code # 354
        BY <1>1, <1>3, <1>10 DEF BeforeText
    <2>5. /\ spoken' \in Seq(Items(files'))
          /\ \A i \in DOMAIN spoken' :
                /\ spoken'[i].word \in Commands
                /\ spoken'[i].word = "DATA" =>
                      exchange' = 5 /\ i = Len(spoken')
        <3>1. CASE spoken' = spoken
            BY <1>2, <1>3, <2>4, <3>1
        <3>2. CASE spoken' = Append(spoken, item)
            <4>1. /\ Append(spoken, item) \in Seq(Items(files))
                  /\ Len(spoken) \in Nat
                  /\ Len(Append(spoken, item)) = Len(spoken) + 1
                  /\ DOMAIN spoken = 1 .. Len(spoken)
                  /\ DOMAIN Append(spoken, item) = 1 .. Len(spoken) + 1
                  /\ \A i \in 1 .. Len(spoken) :
                        Append(spoken, item)[i] = spoken[i]
                  /\ Append(spoken, item)[Len(spoken) + 1] = item
                BY <1>3, <2>3, AppendOf
            <4>2. ASSUME NEW i \in DOMAIN spoken'
                  PROVE  /\ spoken'[i].word \in Commands
                         /\ spoken'[i].word = "DATA" =>
                               exchange' = 5 /\ i = Len(spoken')
                <5>1. CASE i \in DOMAIN spoken
                    <6>1. spoken'[i] = spoken[i]
                        BY <3>2, <4>1, <5>1
                    <6> QED BY <2>4, <5>1, <6>1
                <5>2. CASE i \notin DOMAIN spoken
                    <6>1. i = Len(spoken) + 1
                        BY <3>2, <4>1, <5>2
                    <6>2. spoken'[i] = item /\ Len(spoken') = i
                        BY <3>2, <4>1, <6>1
                    <6> QED BY <1>10, <2>3, <6>2
                <5> QED BY <5>1, <5>2
            <4> QED BY <1>2, <3>2, <4>1, <4>2
        <3> QED BY <2>2, <3>1, <3>2 DEF item
    <2>6. Typed'
        <3>1. sender' \in {"running", "returned", "threw", "killed", "overran"}
            BY <1>2, <2>2
        <3>2. exchange' \in 1 .. 7
            BY <1>3, <1>10
        <3> QED BY <1>2, <1>3, <1>7, <2>5, <3>1, <3>2, TypedParts
    <2>7. BeforeText'
        BY <1>2, <1>7, <2>4, <2>5 DEF BeforeText
    <2>8. AfterData'
        BY <1>3, <1>10 DEF AfterData
    <2> QED BY <2>6, <2>7, <2>8 DEF SenderInv
<1>11. CASE /\ line.code = Mail!Codes[exchange] \/ exchange = 2
            /\ exchange' = exchange + 1 /\ Mail!Say(exchange + 1) /\ exchange = 5
    <2>1. replies[1].code = 354 /\ exchange' = 6 /\ exchange + 1 = 6
        <3>1. Mail!Codes[5] = 354 /\ exchange # 2
            BY <1>11, CodesAre
        <3> QED BY <1>4, <1>11, <3>1
    <2>2. /\ lines = <<>> /\ mailbox = <<>> /\ mode = "data" /\ spoken = <<>>
          /\ \A j \in 1 .. Len(replies) : replies[j].code = 354
        BY <1>1, <1>4, <1>11, <2>1 DEF BeforeText
    <2> DEFINE text == Mail!MessageLines(files)
               T == TextItems(files)
    <2>3. text \in Seq(T) /\ T \subseteq Items(files) /\ Dot \in Items(files)
        BY <1>3, TextType, ItemsAre
    <2>4. \/ /\ Mail!Absent(files) = {}
             /\ spoken' = spoken \o text \o <<Mail!Item("dot")>>
             /\ sender' = sender
          \/ spoken' = spoken \o text /\ sender' = "threw"
          \/ spoken' = spoken /\ sender' = "killed"
        BY <1>11, <2>1 DEF Mail!Say
    <2> HIDE DEF text, T
    <2>5. text \in Seq(Items(files)) /\ <<Dot>> \in Seq(Items(files))
          /\ <<>> \in Seq(Items(files)) /\ <<>> \in Seq(T)
        BY <2>3
    <2>6. <<>> \o text = text
        BY <2>3, ConcatEmptySeq
    <2>7. \/ /\ Mail!Absent(files) = {} /\ spoken' = WholeText(files)
             /\ sender' = sender
          \/ spoken' = text /\ sender' = "threw"
          \/ spoken' = <<>> /\ sender' = "killed"
        BY <2>2, <2>4, <2>6 DEF WholeText, Dot, text
    <2>8. WholeText(files) \in Seq(Items(files))
        BY <2>5, ConcatProperties DEF WholeText, text
    <2>9. spoken' \in Seq(Items(files'))
        BY <1>2, <2>5, <2>7, <2>8
    <2>10. Typed'
        <3>1. sender' \in {"running", "returned", "threw", "killed", "overran"}
            BY <1>2, <2>7
        <3>2. exchange' \in 1 .. 7
            BY <2>1
        <3> QED BY <1>2, <1>3, <1>7, <2>9, <3>1, <3>2, TypedParts
    <2>11. IsBroken' \/ IsWhole'
        <3>1. CASE spoken' = text /\ sender' = "threw"
            <4>1. \A i \in DOMAIN text : text[i] \in T
                BY <2>3, LenProperties, ElementOfSeq
            <4> QED BY <1>2, <3>1, <4>1 DEF IsBroken, T
        <3>2. CASE spoken' = <<>> /\ sender' = "killed"
            BY <3>2 DEF IsBroken
        <3>3. CASE Mail!Absent(files) = {} /\ spoken' = WholeText(files)
            <4>1. <<>> \o WholeText(files) = WholeText(files)
                BY <2>8, ConcatEmptySeq
            <4>2. lines' = <<>> /\ lines' \in Seq(TextItems(files'))
                BY <1>2, <2>2
            <4>3. lines' \o spoken' = WholeText(files')
                BY <1>2, <3>3, <4>1, <4>2
            <4> QED BY <1>2, <3>3, <4>2, <4>3 DEF IsWhole
        <3> QED BY <2>7, <3>1, <3>2, <3>3
    <2>12. \A i \in DOMAIN replies' : replies'[i].code # 250
        BY <1>7, <2>2
    <2>13. AfterData'
        BY <1>2, <2>1, <2>2, <2>11, <2>12 DEF AfterData
    <2>14. BeforeText'
        BY <2>1 DEF BeforeText
    <2> QED BY <2>10, <2>13, <2>14 DEF SenderInv
<1>12. CASE /\ line.code = Mail!Codes[exchange] \/ exchange = 2
            /\ exchange' = exchange + 1 /\ Mail!Say(exchange + 1) /\ exchange = 6
    <2>1. replies[1].code = 250 /\ exchange' = 7 /\ exchange + 1 = 7
        <3>1. Mail!Codes[6] = 250 /\ exchange # 2
            BY <1>12, CodesAre
        <3> QED BY <1>4, <1>12, <3>1
    <2>2. mailbox # <<>>
        BY <1>1, <1>4, <1>12, <2>1 DEF AfterData
    <2>3. mode = "command" /\ \A i \in DOMAIN spoken : spoken[i].word = "QUIT"
        BY <1>1, <1>12, <2>2 DEF AfterData
    <2> DEFINE item == Mail!Item("QUIT")
    <2>4. \/ spoken' = Append(spoken, item) /\ sender' = sender
          \/ spoken' = spoken /\ sender' = "killed"
        BY <1>12, <2>1, WordsAre DEF Mail!Say
    <2>5. item \in Items(files) /\ item.word = "QUIT"
        BY DEF Items, Mail!Item
    <2> HIDE DEF item
    <2>6. /\ spoken' \in Seq(Items(files'))
          /\ \A i \in DOMAIN spoken' : spoken'[i].word = "QUIT"
        <3>1. CASE spoken' = spoken
            BY <1>2, <1>3, <2>3, <3>1
        <3>2. CASE spoken' = Append(spoken, item)
            <4>1. /\ Append(spoken, item) \in Seq(Items(files))
                  /\ Len(spoken) \in Nat
                  /\ DOMAIN spoken = 1 .. Len(spoken)
                  /\ DOMAIN Append(spoken, item) = 1 .. Len(spoken) + 1
                  /\ \A i \in 1 .. Len(spoken) :
                        Append(spoken, item)[i] = spoken[i]
                  /\ Append(spoken, item)[Len(spoken) + 1] = item
                BY <1>3, <2>5, AppendOf
            <4>2. \A i \in DOMAIN spoken' :
                      i \in DOMAIN spoken \/ i = Len(spoken) + 1
                BY <3>2, <4>1
            <4> QED BY <1>2, <2>3, <2>5, <3>2, <4>1, <4>2
        <3> QED BY <2>4, <3>1, <3>2
    <2>7. Typed'
        <3>1. sender' \in {"running", "returned", "threw", "killed", "overran"}
            BY <1>2, <2>4
        <3>2. exchange' \in 1 .. 7
            BY <2>1
        <3> QED BY <1>2, <1>3, <1>7, <2>6, <3>1, <3>2, TypedParts
    <2>8. AfterData'
        BY <1>2, <2>1, <2>2, <2>3, <2>6 DEF AfterData
    <2>9. BeforeText'
        BY <2>1 DEF BeforeText
    <2> QED BY <2>7, <2>8, <2>9 DEF SenderInv
<1>13. exchange <= 4 \/ exchange = 5 \/ exchange = 6 \/ exchange = 7
    BY <1>3
<1> QED BY <1>2, <1>6, <1>9, <1>10, <1>11, <1>12, <1>13

\* Every step of either side keeps the order of the dialogue.
LEMMA SenderStays ==
    ASSUME Sensible, SenderInv, [Mail!Next]_Mail!mailVars
    PROVE  SenderInv'
<1>1. CASE Mail!Next
    BY <1>1, GreetInv, AnswerInv, CollectInv, HangUpInv, GetLineInv,
       GetLineAtEndInv DEF Mail!Next, Mail!SenderStep, Mail!MailerStep
<1>2. CASE UNCHANGED Mail!mailVars
    <2>1. /\ files' = files /\ sender' = sender /\ up' = up
          /\ exchange' = exchange /\ spoken' = spoken /\ replies' = replies
          /\ mode' = mode /\ lines' = lines /\ mailbox' = mailbox
        BY <1>2 DEF Mail!mailVars, Mail!senderVars, Mail!mailerVars
    <2>2. Typed /\ BeforeText /\ AfterData
        BY DEF SenderInv
    <2>3. Typed'
        BY <2>1, <2>2, TypeParts, TypedParts
    <2>4. BeforeText'
        BY <2>1, <2>2 DEF BeforeText
    <2>5. AfterData'
        <3>1. IsBroken => IsBroken'
            BY <2>1 DEF IsBroken
        <3>2. IsWhole => IsWhole'
            BY <2>1 DEF IsWhole
        <3> QED BY <2>1, <2>2, <3>1, <3>2 DEF AfterData
    <2> QED BY <2>3, <2>4, <2>5 DEF SenderInv
<1> QED BY <1>1, <1>2

\* The variables of the mail sender keep their types.
LEMMA SenderTypeCorrect ==
    ASSUME Sensible
    PROVE  Mail!Spec => []Mail!TypeOK
<1>1. SenderInv => Mail!TypeOK
    BY DEF SenderInv, Typed
<1>2. Mail!Init => SenderInv
    BY SenderStarts
<1>3. SenderInv /\ [Mail!Next]_Mail!mailVars => SenderInv'
    BY SenderStays
<1> QED BY <1>1, <1>2, <1>3, PTL DEF Mail!Spec

\* What is read first is a command, unless the server waits for text.
LEMMA SenderTextInTime ==
    ASSUME SenderInv
    PROVE  Mail!TextIsExpected
<1>1. SUFFICES ASSUME spoken # <<>>, Head(spoken).word \in Mail!TextWords,
                      mode # "data"
               PROVE  FALSE
    BY DEF Mail!TextIsExpected
<1>2. Typed /\ BeforeText /\ AfterData
    BY DEF SenderInv
<1>3. spoken \in Seq(Items(files)) /\ exchange \in 1 .. 7
    BY <1>2, TypeParts
<1>4. 1 \in DOMAIN spoken /\ Head(spoken) = spoken[1]
    BY <1>1, <1>3, TailOf
<1>5. spoken[1].word \in Commands \union {"QUIT"}
    <2>1. CASE exchange <= 5
        BY <1>2, <1>4, <2>1 DEF BeforeText
    <2>2. CASE exchange >= 6
        BY <1>1, <1>2, <1>4, <2>2 DEF AfterData
    <2> QED BY <1>3, <2>1, <2>2
<1> QED BY <1>1, <1>4, <1>5 DEF Commands, Mail!TextWords

\* Text is read as text.
LEMMA SenderTextInOrder ==
    ASSUME Sensible
    PROVE  Mail!Spec => []Mail!TextIsExpected
<1>1. SenderInv => Mail!TextIsExpected
    BY SenderTextInTime
<1>2. Mail!Init => SenderInv
    BY SenderStarts
<1>3. SenderInv /\ [Mail!Next]_Mail!mailVars => SenderInv'
    BY SenderStays
<1> QED BY <1>1, <1>2, <1>3, PTL DEF Mail!Spec

-----------------------------------------------------------------------------
\* The text of a letter whose files are all there decodes to them.
Decodable ==
    \A letter \in Letters :
        Mail!Absent(letter) = {} => Mail!Decoded(Mail!MessageLines(letter)) = letter

\* The mailbox has at most one text.
KeptOnce == mailbox # <<>> => DOMAIN mailbox = {1}

LEMMA One ==
    ASSUME NEW text
    PROVE  /\ Append(<<>>, text) # <<>> /\ DOMAIN Append(<<>>, text) = {1}
           /\ Append(<<>>, text)[1] = text
           /\ Append(<<>>, text) = [i \in {1} |-> text]
<1>1. <<>> \in Seq({text}) /\ Len(<<>>) = 0
    OBVIOUS
<1>2. /\ Append(<<>>, text) \in Seq({text}) /\ Len(Append(<<>>, text)) = 1
      /\ Append(<<>>, text)[1] = text
    BY <1>1, AppendProperties
<1>3. DOMAIN Append(<<>>, text) = 1 .. 1
    BY <1>2, LenProperties
<1>4. Append(<<>>, text) = [i \in 1 .. 1 |-> Append(<<>>, text)[i]]
    BY <1>2, <1>3
<1>5. 1 .. 1 = {1}
    OBVIOUS
<1>6. Append(<<>>, text) # <<>>
    BY <1>2
<1> QED BY <1>2, <1>3, <1>4, <1>5, <1>6

\* A text is taken once, and whole.
LEMMA CollectDelivers ==
    ASSUME Sensible, Decodable, SenderInv, Mail!Collect
    PROVE  /\ sender' = sender /\ files' = files
           /\ \/ mailbox' = mailbox
              \/ /\ mailbox = <<>> /\ mailbox' = Append(<<>>, lines)
                 /\ Mail!Decoded(lines) = files
<1>1. Typed /\ BeforeText /\ AfterData
    BY DEF SenderInv
<1>2. /\ mode = "data" /\ spoken # <<>>
      /\ files' = files /\ sender' = sender
      /\ \/ mailbox' = mailbox
         \/ Head(spoken).word = "dot" /\ mailbox' = Append(mailbox, lines)
    BY DEF Mail!Collect, Mail!senderVars
<1>3. /\ files \in Letters /\ exchange \in 1 .. 7
      /\ spoken \in Seq(Items(files))
    BY <1>1, TypeParts
<1>4. mailbox = <<>> /\ (IsBroken \/ IsWhole)
    <2>1. ~ (exchange <= 5)
        BY <1>1, <1>2 DEF BeforeText
    <2>2. exchange >= 6
        BY <1>3, <2>1
    <2> QED BY <1>1, <1>2, <2>2 DEF AfterData
<1>5. CASE mailbox' = mailbox
    BY <1>2, <1>5
<1>6. CASE Head(spoken).word = "dot" /\ mailbox' = Append(mailbox, lines)
    <2>1. ~ IsBroken
        <3>1. SUFFICES ASSUME IsBroken
                       PROVE  FALSE
            OBVIOUS
        <3>2. 1 \in DOMAIN spoken /\ Head(spoken) = spoken[1]
            BY <1>2, <1>3, TailOf
        <3>3. spoken[1] \in TextItems(files)
            BY <3>1, <3>2 DEF IsBroken
        <3>4. spoken[1].word \in {"header", "boundary", "end", "base64"}
            BY <3>3, ItemsAre
        <3> QED BY <1>6, <3>2, <3>4
    <2>2. IsWhole
        BY <1>4, <2>1
    <2>3. lines = Mail!MessageLines(files)
        BY <1>2, <1>3, <1>6, <2>2, DotIsLast DEF IsWhole
    <2>4. Mail!Decoded(Mail!MessageLines(files)) = files
        BY <1>3, <2>2 DEF Decodable, IsWhole
    <2> QED BY <1>2, <1>4, <1>6, <2>3, <2>4
<1> QED BY <1>2, <1>5, <1>6

\* send_message says that the letter was handed over only when it was.
LEMMA SenderTells ==
    ASSUME SenderInv, Mail!GetLine \/ Mail!GetLineAtEnd
    PROVE  /\ mailbox' = mailbox /\ files' = files /\ sender = "running"
           /\ \/ sender' = sender
              \/ sender' \in {"threw", "killed", "overran"}
              \/ sender' = "returned" /\ mailbox # <<>>
<1>1. CASE Mail!GetLineAtEnd
    BY <1>1 DEF Mail!GetLineAtEnd, Mail!mailerVars
<1>2. CASE Mail!GetLine
    <2>1. sender = "running" /\ mailbox' = mailbox /\ files' = files
        BY <1>2 DEF Mail!GetLine, Mail!mailerVars
    <2>2. \/ sender' \in {"running", "threw"}
          \/ Mail!Say(exchange + 1)
          \/ sender' = "returned" /\ exchange = 7
        BY <1>2, CodesAre DEF Mail!GetLine
    <2>3. Mail!Say(exchange + 1) => sender' = sender \/ sender' \in {"threw", "killed"}
        BY DEF Mail!Say
    <2>4. exchange = 7 => mailbox # <<>>
        BY DEF SenderInv, AfterData
    <2> QED BY <2>1, <2>2, <2>3, <2>4
<1> QED BY <1>1, <1>2

\* Every step of either side keeps the promise.
LEMMA SenderDelivers ==
    ASSUME Sensible, Decodable, SenderInv, KeptOnce, [Mail!Next]_Mail!mailVars
    PROVE  /\ KeptOnce'
           /\ [Mail!Delivery!Next]_Mail!Delivery!vars
<1> DEFINE Told(s) == CASE s = "running" -> "nothing"
                        [] s = "returned" -> "success"
                        [] OTHER -> "failure"
           Entry(text, letter) ==
               [sender |-> "sender",
                letter |-> IF Mail!Decoded(text) = letter THEN "whole"
                           ELSE "damaged"]
           toldHere == [s \in {"sender"} |-> Told(sender)]
           kept == [i \in DOMAIN mailbox |-> Entry(mailbox[i], files)]
<1>1. /\ Mail!Delivery!vars = <<toldHere, kept>>
      /\ Mail!Delivery!vars' = <<toldHere', kept'>>
    BY DEF Mail!Delivery!vars
<1>2. toldHere' = [s \in {"sender"} |-> Told(sender')]
      /\ kept' = [i \in DOMAIN mailbox' |-> Entry(mailbox'[i], files')]
    OBVIOUS
<1>3. CASE UNCHANGED <<sender, files, mailbox>>
    BY <1>1, <1>2, <1>3 DEF KeptOnce
<1>4. CASE Mail!Collect /\ mailbox' # mailbox
    <2>1. /\ sender' = sender /\ files' = files
          /\ mailbox = <<>> /\ mailbox' = Append(<<>>, lines)
          /\ Mail!Decoded(lines) = files
        BY <1>4, CollectDelivers
    <2>2. /\ DOMAIN mailbox' = {1} /\ mailbox'[1] = lines
        BY <2>1, One
    <2> DEFINE entry == [sender |-> "sender", letter |-> "whole"]
    <2>3. kept = <<>>
        BY <2>1
    <2>4. kept' = [i \in {1} |-> entry]
        BY <1>2, <2>1, <2>2
    <2> HIDE DEF entry
    <2>5. kept' = Append(kept, entry)
        BY <2>3, <2>4, One
    <2>6. toldHere' = toldHere
        BY <1>2, <2>1
    <2>7. ~ Mail!Delivery!Kept("sender")
        BY <2>1 DEF Mail!Delivery!Kept
    <2>8. Mail!Delivery!Keep("sender")
        BY <2>5, <2>6, <2>7 DEF Mail!Delivery!Keep, entry
    <2>9. KeptOnce'
        BY <2>2 DEF KeptOnce
    <2> QED BY <2>8, <2>9 DEF Mail!Delivery!Next
<1>5. CASE Mail!SenderStep /\ sender' # sender
    <2>1. /\ mailbox' = mailbox /\ files' = files /\ sender = "running"
          /\ \/ sender' \in {"threw", "killed", "overran"}
             \/ sender' = "returned" /\ mailbox # <<>>
        BY <1>5, SenderTells DEF Mail!SenderStep
    <2>2. toldHere = [s \in {"sender"} |-> "nothing"]
        BY <2>1
    <2>3. kept' = kept
        BY <1>2, <2>1
    <2>4. CASE sender' \in {"threw", "killed", "overran"}
        <3>1. toldHere' = [s \in {"sender"} |-> "failure"]
            BY <1>2, <2>4
        <3>2. Mail!Delivery!Tell("sender")
            BY <2>2, <2>3, <3>1 DEF Mail!Delivery!Tell
        <3> QED BY <2>1, <3>2 DEF Mail!Delivery!Next, KeptOnce
    <2>5. CASE sender' = "returned" /\ mailbox # <<>>
        <3>1. toldHere' = [s \in {"sender"} |-> "success"]
            BY <1>2, <2>5
        <3>2. 1 \in DOMAIN mailbox
            BY <2>5 DEF KeptOnce
        <3>3. Mail!Delivery!Kept("sender")
            BY <3>2 DEF Mail!Delivery!Kept
        <3>4. Mail!Delivery!Tell("sender")
            BY <2>2, <2>3, <3>1, <3>3 DEF Mail!Delivery!Tell
        <3> QED BY <2>1, <3>4 DEF Mail!Delivery!Next, KeptOnce
    <2> QED BY <2>1, <2>4, <2>5
<1>6. \/ UNCHANGED <<sender, files, mailbox>>
      \/ Mail!Collect /\ mailbox' # mailbox
      \/ Mail!SenderStep /\ sender' # sender
    <2>1. CASE Mail!Collect
        BY <2>1, CollectDelivers
    <2>2. CASE Mail!SenderStep
        BY <2>2, SenderTells DEF Mail!SenderStep
    <2>3. CASE Mail!Greet \/ Mail!Answer \/ Mail!HangUp \/ UNCHANGED Mail!mailVars
        BY <2>3 DEF Mail!Greet, Mail!Answer, Mail!HangUp, Mail!mailVars, Mail!senderVars, Mail!mailerVars
    <2> QED BY <2>1, <2>2, <2>3 DEF Mail!Next, Mail!MailerStep
<1> QED BY <1>3, <1>4, <1>5, <1>6

\* The promise of MailDelivery, for a letter that can be decoded.
LEMMA LetterIsThere ==
    ASSUME Sensible, Decodable
    PROVE  Mail!Spec => Mail!LetterHandedOver
<1>1. Mail!Init => SenderInv /\ KeptOnce /\ Mail!Delivery!Init
    <2>1. Mail!Init => SenderInv
        BY SenderStarts
    <2>2. Mail!Init => KeptOnce
        BY DEF Mail!Init, KeptOnce
    <2>3. Mail!Init => Mail!Delivery!Init
        BY DEF Mail!Init, Mail!Delivery!Init
    <2> QED BY <2>1, <2>2, <2>3
<1>2. SenderInv /\ KeptOnce /\ [Mail!Next]_Mail!mailVars =>
          SenderInv' /\ KeptOnce' /\ [Mail!Delivery!Next]_Mail!Delivery!vars
    BY SenderStays, SenderDelivers
<1> QED BY <1>1, <1>2, PTL DEF Mail!Spec, Mail!LetterHandedOver, Mail!Delivery!Spec

-----------------------------------------------------------------------------
(***************************************************************************)
(* The programs side by side: a step of one is a step that leaves the      *)
(* others alone, so what was proved of each holds of all of them.          *)
(***************************************************************************)
LEMMA SessionsRun == Spec => SMTP!Spec
<1>1. Init => SMTP!Init
    BY DEF Init
<1>2. UNCHANGED sessionVars => UNCHANGED SMTP!smtpVars
    BY DEF sessionVars, SMTP!smtpVars, SMTP!clientVars, SMTP!streamVars,
           SMTP!threadVars, SMTP!serverVars
<1>3. [Next]_vars => SMTP!Next \/ UNCHANGED sessionVars
    BY DEF Next, Session, Sender, Dictionary, Layer, vars
<1>4. [Next]_vars => [SMTP!Next]_SMTP!smtpVars
    BY <1>2, <1>3
<1> QED BY <1>1, <1>4, PTL DEF Spec, SMTP!Spec

LEMMA SenderRuns == Spec => Mail!Spec
<1>1. Init => Mail!Init
    BY DEF Init
<1>2. UNCHANGED senderVars => UNCHANGED Mail!mailVars
    BY DEF senderVars, Mail!mailVars, Mail!senderVars, Mail!mailerVars
<1>3. [Next]_vars => Mail!Next \/ UNCHANGED senderVars
    BY DEF Next, Session, Sender, Dictionary, Layer, vars
<1>4. [Next]_vars => [Mail!Next]_Mail!mailVars
    BY <1>2, <1>3
<1> QED BY <1>1, <1>4, PTL DEF Spec, Mail!Spec

LEMMA DictionaryRuns == Spec => Dict!Spec
<1>1. Init => Dict!Init
    BY DEF Init
<1>2. UNCHANGED dictionaryVars => UNCHANGED Dict!dictVars
    BY DEF dictionaryVars, Dict!dictVars, Dict!clientVars, Dict!networkVars,
           Dict!serverVars
<1>3. [Next]_vars => Dict!Next \/ UNCHANGED dictionaryVars
    BY DEF Next, Session, Sender, Dictionary, Layer, vars
<1>4. [Next]_vars => [Dict!Next]_Dict!dictVars
    BY <1>2, <1>3
<1> QED BY <1>1, <1>4, PTL DEF Spec, Dict!Spec

LEMMA LayerRuns == Spec => Locks!Spec
<1>1. Init => Locks!Init
    BY DEF Init
<1>2. UNCHANGED layerVars => UNCHANGED Locks!vars
    BY DEF layerVars, Locks!vars
<1>3. [Next]_vars => Locks!Next \/ UNCHANGED layerVars
    BY DEF Next, Session, Sender, Dictionary, Layer, vars
<1>4. [Next]_vars => [Locks!Next]_Locks!vars
    BY <1>2, <1>3
<1> QED BY <1>1, <1>4, PTL DEF Spec, Locks!Spec

(***************************************************************************)
(* Every variable of the programs keeps its type, for letters and rows of  *)
(* bytes and any number of clients.                                        *)
(***************************************************************************)
THEOREM TypeCorrect ==
    ASSUME Dict!Numbers, Sensible
    PROVE  Spec => []TypeOK
<1>1. Dict!Spec => []Dict!TypeOK
    BY Dict!TypeCorrect
<1>2. Mail!Spec => []Mail!TypeOK
    BY SenderTypeCorrect
<1>3. SMTP!Spec => []SMTP!TypeOK
    BY SMTP!TypeCorrect
<1> QED BY <1>1, <1>2, <1>3, SessionsRun, SenderRuns, DictionaryRuns, PTL
        DEF TypeOK

(***************************************************************************)
(* SMTPClient::send and the inbox keep the promise of MailDelivery: for any*)
(* number of clients, texts that arrive in any pieces, and sends and       *)
(* connects that give up at any moment, the inbox gets each letter whole   *)
(* and at most once, and true means that it is there.                      *)
(***************************************************************************)
THEOREM LettersArrive == Spec => LettersDelivered
<1>1. SMTP!Spec => SMTP!LettersDelivered
    BY SMTP!LettersArrive
<1> QED BY <1>1, SessionsRun DEF LettersDelivered

(***************************************************************************)
(* send_message sends the text of a letter only to a server that waits for *)
(* it, whatever the server replies in how many lines, and wherever the     *)
(* letter or the connection breaks off.                                    *)
(***************************************************************************)
THEOREM TextInTime ==
    ASSUME Sensible
    PROVE  Spec => []TextIsExpected
<1>1. Mail!Spec => []Mail!TextIsExpected
    BY SenderTextInOrder
<1> QED BY <1>1, SenderRuns, PTL DEF TextIsExpected

(***************************************************************************)
(* When send_message returns, the server has taken the letter, whole and   *)
(* once: no reply to an earlier command is mistaken for the one that says  *)
(* so.  That base64 and the lines of a letter can be decoded is assumed.   *)
(***************************************************************************)
THEOREM LetterIsHandedOver ==
    ASSUME Sensible, Decodable
    PROVE  Spec => MailHandedOver
<1>1. Mail!Spec => Mail!LetterHandedOver
    BY LetterIsThere
<1> QED BY <1>1, SenderRuns DEF MailHandedOver

(***************************************************************************)
(* A client of the dictionary that has got a list has got the first words  *)
(* that begin with what it asked for, for any sorted file of words and any *)
(* order in which the letters of questions and lists arrive.               *)
(***************************************************************************)
THEOREM AnswersAreRight ==
    ASSUME Dict!Numbers, Dict!Sorted
    PROVE  Spec => []AnswersMatch
<1>1. Dict!Spec => []Dict!AnswersMatch
    BY Dict!AnswersAreRight
<1> QED BY <1>1, DictionaryRuns, PTL DEF AnswersMatch

(***************************************************************************)
(* The server of the dictionary dies only when a client leaves, breaks off *)
(* in a word, or has a bad address, as long as there is memory for words.  *)
(***************************************************************************)
THEOREM DeathHasACause ==
    ASSUME Dict!Numbers, Dict!Affordable
    PROVE  Spec => []DiesForACause
<1>1. Dict!Spec => []Dict!DiesForACause
    BY Dict!DeathHasACause
<1> QED BY <1>1, DictionaryRuns, PTL DEF DiesForACause

(***************************************************************************)
(* The threads of a network layer never wait for each other in a circle,   *)
(* for a mutex or for an end, as long as the layer is not deleted and loses*)
(* only connections to quiet cables: append, removeAt, send and the three  *)
(* loops take their mutexes in one order.                                  *)
(***************************************************************************)
THEOREM ThreadsNeverCircle ==
    ASSUME Orderliness
    PROVE  Spec => []NoCircularWait
<1>1. Locks!Spec => []Locks!NoCircularWait
    BY LayerNeverCircles
<1> QED BY <1>1, LayerRuns, PTL DEF NoCircularWait

=============================================================================
