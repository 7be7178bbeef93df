-------------------------- MODULE DictServerProofs --------------------------
(***************************************************************************)
(* Proofs about DictServer, for any number of clients, words and askings.  *)
(***************************************************************************)
EXTENDS DictServer, SequenceTheorems, WellFoundedInduction, TLAPS

Words == Seq(Nat)

\* What the proofs need of the constants: words are sequences of letters, and
\* what is found in memory is a number.
Numbers ==
    /\ Limit \in Nat \ {0}
    /\ Rows \in Seq(Words)
    /\ Garbage \subseteq Nat
    /\ \A s \in Settings : s.queries \subseteq Words

\* The order of the words in the file: where they differ first, the letter of
\* the later one is greater, and a word comes before those it begins.
Precedes(v, w) ==
    \A j \in DOMAIN v :
        (\A i \in 1 .. j - 1 : i \in DOMAIN w /\ v[i] = w[i])
            => j \in DOMAIN w /\ v[j] <= w[j]

Sorted == \A a, b \in DOMAIN Rows : a < b => Precedes(Rows[a], Rows[b])

\* There is memory for every word that is asked for.
Affordable == \A s \in Settings : \A query \in s.queries : Len(query) # Huge

-----------------------------------------------------------------------------
(***************************************************************************)
(* Dict::search.                                                           *)
(***************************************************************************)

\* A set of numbers has a least one.
LEMMA LeastNumber ==
    ASSUME NEW S, S \subseteq Nat, S # {}
    PROVE  \E n \in S : \A k \in S : n <= k
<1>1. PICK n \in S : \A k \in S : <<k, n>> \notin OpToRel(<, Nat)
  BY NatLessThanWellFounded, WFMin
<1>2. \A k \in S : k < n => <<k, n>> \in OpToRel(<, Nat)
  BY DEF OpToRel
<1>3. \A k \in S : ~ (k < n)
  BY <1>1, <1>2
<1>4. \A k \in S : n <= k
  BY <1>3
<1>5. QED  BY <1>4

\* Min picks it.
LEMMA MinIsLeast ==
    ASSUME NEW S, S \subseteq Nat, S # {}
    PROVE  Min(S) \in S /\ \A k \in S : Min(S) <= k
BY LeastNumber DEF Min

\* A set of numbers with 0 and every successor is the set of all of them.
LEMMA EveryNumber ==
    ASSUME NEW S, 0 \in S, \A n \in Nat : n \in S => n + 1 \in S
    PROVE  \A n \in Nat : n \in S
<1> SUFFICES ASSUME NEW m \in Nat, m \notin S
             PROVE  FALSE
  OBVIOUS
<1> DEFINE missing == {n \in Nat : n \notin S}
<1>1. PICK n \in missing : \A k \in missing : n <= k
  BY LeastNumber
<1>2. n \in Nat /\ n # 0 /\ n - 1 \in Nat /\ n - 1 < n
  BY <1>1
<1>3. n - 1 \in S
  BY <1>1, <1>2
<1>4. (n - 1) + 1 = n
  BY <1>2
<1>5. QED  BY <1>1, <1>2, <1>3, <1>4

\* The recursive function of Found exists: its equation has a solution.
LEMMA FoundEquation ==
    ASSUME Numbers, NEW query
    PROVE  \A i \in 0 .. Len(Rows) :
             Found(i, query) =
               IF i = 0 THEN << >>
               ELSE IF Matches(Rows[i], query)
                    THEN Append(Found(i - 1, query), Rows[i])
               ELSE Found(i - 1, query)
<1> DEFINE More(f, i) == IF Matches(Rows[i], query)
                         THEN Append(f, Rows[i]) ELSE f
<1> DEFINE Solves(w, n) ==
        w = [i \in 0 .. n |-> IF i = 0 THEN << >>
                              ELSE IF Matches(Rows[i], query)
                                   THEN Append(w[i - 1], Rows[i])
                              ELSE w[i - 1]]
<1> DEFINE S == {n \in Nat : \E w : Solves(w, n)}
<1>0. Len(Rows) \in Nat
  BY LenProperties DEF Numbers
<1>1. 0 \in S
  <2>1. Solves([i \in 0 .. 0 |-> << >>], 0)
    OBVIOUS
  <2>2. QED  BY <2>1
<1>2. ASSUME NEW n \in Nat, n \in S
      PROVE  n + 1 \in S
  <2>1. PICK w : Solves(w, n)
    BY <1>2
  <2>0. w = [i \in 0 .. n |-> IF i = 0 THEN << >> ELSE More(w[i - 1], i)]
    BY <2>1
  <2> HIDE DEF More
  <2> DEFINE v == [i \in 0 .. n + 1 |->
                     IF i <= n THEN w[i] ELSE More(w[n], n + 1)]
  <2>2. ASSUME NEW i \in 0 .. n + 1
        PROVE  v[i] = IF i = 0 THEN << >> ELSE More(v[i - 1], i)
    <3>1. CASE i = 0
      <4>1. 0 \in 0 .. n /\ 0 \in 0 .. n + 1 /\ 0 <= n
        OBVIOUS
      <4>2. v[0] = w[0] /\ w[0] = << >>
        BY <2>0, <4>1
      <4>3. QED  BY <3>1, <4>2
    <3>2. CASE i \in 1 .. n
      <4>1. i \in 0 .. n /\ i - 1 \in 0 .. n + 1 /\ i - 1 <= n /\ i <= n /\ i # 0
        BY <3>2
      <4>2. v[i] = w[i] /\ v[i - 1] = w[i - 1]
        BY <4>1
      <4>3. w[i] = More(w[i - 1], i)
        BY <2>0, <4>1
      <4>4. QED  BY <4>1, <4>2, <4>3
    <3>3. CASE i = n + 1
      <4>1. n \in 0 .. n + 1 /\ ~ (i <= n) /\ i - 1 = n /\ i # 0 /\ n <= n
        BY <3>3
      <4>2. v[i] = More(w[n], n + 1) /\ v[n] = w[n]
        BY <4>1
      <4>3. QED  BY <3>3, <4>1, <4>2
    <3>4. QED  BY <3>1, <3>2, <3>3
  <2> HIDE DEF v
  <2>3. v = [i \in 0 .. n + 1 |-> v[i]]
    BY DEF v
  <2>4. v = [i \in 0 .. n + 1 |-> IF i = 0 THEN << >> ELSE More(v[i - 1], i)]
    BY <2>2, <2>3
  <2>5. Solves(v, n + 1)
    BY <2>4 DEF More
  <2> HIDE DEF Solves
  <2>6. QED  BY <2>5
<1>3. Len(Rows) \in S
  <2> HIDE DEF S
  <2>1. \A n \in Nat : n \in S
    BY <1>1, <1>2, EveryNumber
  <2>2. QED  BY <1>0, <2>1
<1> DEFINE found == CHOOSE w : Solves(w, Len(Rows))
<1>4. Solves(found, Len(Rows))
  <2>1. \E w : Solves(w, Len(Rows))
    BY <1>3
  <2> HIDE DEF Solves
  <2>2. QED  BY <2>1
<1>5. \A i : Found(i, query) = found[i]
  BY DEF Found
<1> HIDE DEF found
<1>6. ASSUME NEW i \in 0 .. Len(Rows)
      PROVE  found[i] = IF i = 0 THEN << >>
                        ELSE IF Matches(Rows[i], query)
                             THEN Append(found[i - 1], Rows[i])
                        ELSE found[i - 1]
  BY <1>4
<1>7. QED  BY <1>5, <1>6

\* What has been found are rows, at most one for each row that was read.
LEMMA FoundType ==
    ASSUME Numbers, NEW query
    PROVE  \A i \in 0 .. Len(Rows) : Found(i, query) \in Seq(Words)
<1> DEFINE S == {i \in Nat : i <= Len(Rows) => Found(i, query) \in Seq(Words)}
<1>0. Len(Rows) \in Nat
  BY LenProperties DEF Numbers
<1>1. 0 \in S
  <2>1. Found(0, query) = << >>
    BY <1>0, FoundEquation
  <2>2. << >> \in Seq(Words)
    BY EmptySeq
  <2>3. QED  BY <2>1, <2>2
<1>2. ASSUME NEW i \in Nat, i \in S
      PROVE  i + 1 \in S
  <2> SUFFICES ASSUME i + 1 <= Len(Rows)
               PROVE  Found(i + 1, query) \in Seq(Words)
    OBVIOUS
  <2>1. i <= Len(Rows) /\ i + 1 \in 1 .. Len(Rows) /\ i + 1 \in 0 .. Len(Rows)
        /\ i + 1 # 0 /\ (i + 1) - 1 = i
    BY <1>0
  <2>2. Rows[i + 1] \in Words
    BY <2>1, ElementOfSeq DEF Numbers
  <2>3. Found(i, query) \in Seq(Words)
    BY <1>2, <2>1
  <2>4. \/ Found(i + 1, query) = Append(Found(i, query), Rows[i + 1])
        \/ Found(i + 1, query) = Found(i, query)
    BY <2>1, FoundEquation
  <2>5. Append(Found(i, query), Rows[i + 1]) \in Seq(Words)
    BY <2>2, <2>3, AppendProperties
  <2>6. QED  BY <2>3, <2>4, <2>5
<1> HIDE DEF S
<1>3. \A i \in Nat : i \in S
  BY <1>1, <1>2, EveryNumber
<1>4. QED  BY <1>0, <1>3 DEF S

\* A row adds itself to what was found before, or nothing.
LEMMA FoundGrows ==
    ASSUME Numbers, NEW query, NEW i \in 1 .. Len(Rows)
    PROVE  /\ Found(i - 1, query) \in Seq(Words)
           /\ Found(i, query) \in Seq(Words)
           /\ Len(Found(i, query)) \in
                Len(Found(i - 1, query)) .. Len(Found(i - 1, query)) + 1
           /\ \A k \in 1 .. Len(Found(i - 1, query)) :
                Found(i, query)[k] = Found(i - 1, query)[k]
           /\ ~ Matches(Rows[i], query) => Found(i, query) = Found(i - 1, query)
<1>0. Len(Rows) \in Nat
  BY LenProperties DEF Numbers
<1>1. i \in 0 .. Len(Rows) /\ i - 1 \in 0 .. Len(Rows) /\ i # 0
  BY <1>0
<1>2. Found(i - 1, query) \in Seq(Words) /\ Found(i, query) \in Seq(Words)
  BY <1>1, FoundType
<1>3. Len(Found(i - 1, query)) \in Nat
  BY <1>2, LenProperties
<1>4. Found(i, query) = IF Matches(Rows[i], query)
                        THEN Append(Found(i - 1, query), Rows[i])
                        ELSE Found(i - 1, query)
  BY <1>1, FoundEquation
<1>5. CASE Matches(Rows[i], query)
  <2>1. Rows[i] \in Words
    BY ElementOfSeq DEF Numbers
  <2>2. Found(i, query) = Append(Found(i - 1, query), Rows[i])
    BY <1>4, <1>5
  <2>3. /\ Len(Found(i, query)) = Len(Found(i - 1, query)) + 1
        /\ \A k \in 1 .. Len(Found(i - 1, query)) :
             Found(i, query)[k] = Found(i - 1, query)[k]
    BY <1>2, <2>1, <2>2, AppendProperties
  <2>4. QED  BY <1>2, <1>3, <1>5, <2>3
<1>6. CASE ~ Matches(Rows[i], query)
  BY <1>2, <1>3, <1>4, <1>6
<1>7. QED  BY <1>5, <1>6

\* The first part of a sequence.
LEMMA FirstPart ==
    ASSUME NEW T, NEW s \in Seq(T), NEW n \in Nat, n <= Len(s)
    PROVE  /\ SubSeq(s, 1, n) \in Seq(T)
           /\ Len(SubSeq(s, 1, n)) = n
           /\ \A k \in 1 .. n : SubSeq(s, 1, n)[k] = s[k]
<1>1. Len(s) \in Nat /\ \A k \in 1 .. n : s[k] \in T
  BY LenProperties, ElementOfSeq
<1>2. /\ SubSeq(s, 1, n) \in Seq(T)
      /\ Len(SubSeq(s, 1, n)) = IF 1 <= n THEN n - 1 + 1 ELSE 0
      /\ \A k \in 1 .. n - 1 + 1 : SubSeq(s, 1, n)[k] = s[1 + k - 1]
  BY <1>1, SubSeqProperties
<1>3. QED  BY <1>2

\* What was found after some of the rows begins what is found after all.
LEMMA FoundIsBeginning ==
    ASSUME Numbers, NEW query, NEW n \in 0 .. Len(Rows)
    PROVE  LET all == Found(Len(Rows), query)
           IN /\ Len(Found(n, query)) <= Len(all)
              /\ Found(n, query) = SubSeq(all, 1, Len(Found(n, query)))
              /\ (\A i \in n + 1 .. Len(Rows) : ~ Matches(Rows[i], query))
                   => Found(n, query) = all
<1> DEFINE F(i) == Found(i, query)
<1> DEFINE Begins(i) ==
        /\ Len(F(n)) <= Len(F(i))
        /\ \A k \in 1 .. Len(F(n)) : F(i)[k] = F(n)[k]
        /\ (\A j \in n + 1 .. i : ~ Matches(Rows[j], query)) => F(n) = F(i)
<1> DEFINE S == {d \in Nat : n + d <= Len(Rows) => Begins(n + d)}
<1>0. Len(Rows) \in Nat /\ n \in Nat
  BY LenProperties DEF Numbers
<1>1. F(n) \in Seq(Words) /\ Len(F(n)) \in Nat
  BY FoundType, LenProperties
<1>2. 0 \in S
  BY <1>0, <1>1
<1>3. ASSUME NEW d \in Nat, d \in S
      PROVE  d + 1 \in S
  <2> SUFFICES ASSUME n + (d + 1) <= Len(Rows)
               PROVE  Begins(n + (d + 1))
    OBVIOUS
  <2> DEFINE i == n + (d + 1)
  <2>1. i \in 1 .. Len(Rows) /\ i - 1 = n + d /\ n + d <= Len(Rows)
        /\ n + d \in 0 .. Len(Rows)
    BY <1>0
  <2>2. Begins(i - 1)
    BY <1>3, <2>1
  <2> HIDE DEF i, F
  <2>3. /\ F(i - 1) \in Seq(Words) /\ F(i) \in Seq(Words)
        /\ Len(F(i)) \in Len(F(i - 1)) .. Len(F(i - 1)) + 1
        /\ \A k \in 1 .. Len(F(i - 1)) : F(i)[k] = F(i - 1)[k]
        /\ ~ Matches(Rows[i], query) => F(i) = F(i - 1)
    BY <2>1, FoundGrows DEF F
  <2>4. Len(F(i - 1)) \in Nat /\ Len(F(i)) \in Nat
    BY <2>3, LenProperties
  <2>5. Len(F(n)) <= Len(F(i))
    BY <1>1, <2>2, <2>3, <2>4
  <2>6. \A k \in 1 .. Len(F(n)) : F(i)[k] = F(n)[k]
    BY <1>1, <2>2, <2>3, <2>4
  <2>7. (\A j \in n + 1 .. i : ~ Matches(Rows[j], query)) => F(n) = F(i)
    <3>1. i \in n + 1 .. i /\ \A j \in n + 1 .. i - 1 : j \in n + 1 .. i
      BY <1>0, <2>1 DEF i
    <3>2. QED  BY <2>2, <2>3, <3>1
  <2>8. Begins(i)
    BY <2>5, <2>6, <2>7
  <2>9. QED  BY <2>8 DEF i
<1>4. Begins(Len(Rows))
  <2> HIDE DEF S
  <2>1. \A d \in Nat : d \in S
    BY <1>2, <1>3, EveryNumber
  <2>2. Len(Rows) - n \in Nat /\ n + (Len(Rows) - n) = Len(Rows)
    BY <1>0
  <2> USE DEF S
  <2> HIDE DEF Begins
  <2>3. QED  BY <1>0, <2>1, <2>2
<1> DEFINE all == F(Len(Rows))
<1>5. all \in Seq(Words) /\ Len(all) \in Nat
  BY <1>0, FoundType, LenProperties
<1> HIDE DEF F
<1>6. F(n) = SubSeq(all, 1, Len(F(n)))
  <2> HIDE DEF all
  <2>1. /\ SubSeq(all, 1, Len(F(n))) \in Seq(Words)
        /\ Len(SubSeq(all, 1, Len(F(n)))) = Len(F(n))
        /\ \A k \in 1 .. Len(F(n)) :
             SubSeq(all, 1, Len(F(n)))[k] = all[k]
    BY <1>1, <1>4, <1>5, FirstPart DEF all
  <2>2. QED  BY <1>1, <1>4, <2>1, SeqEqual DEF all
<1>7. QED  BY <1>4, <1>6 DEF F

\* A word matches the rows that it begins.
LEMMA MatchesIsPrefix ==
    ASSUME NEW row \in Words, NEW query \in Words
    PROVE  Matches(row, query) <=> IsPrefix(query, row)
<1>0. /\ Len(query) \in Nat /\ Len(row) \in Nat
      /\ DOMAIN query = 1 .. Len(query)
  BY LenProperties DEF Words
<1>1. SubSeq(query, 1, Len(query)) = query
  BY SubSeqFull DEF Words
<1>2. ASSUME Matches(row, query)
      PROVE  IsPrefix(query, row)
  <2>1. \A j \in 1 .. Len(query) : j <= Len(row) /\ row[j] = query[j]
    BY <1>0, <1>2 DEF Matches, Differences
  <2>2. Len(query) <= Len(row)
    BY <1>0, <2>1
  <2>3. /\ SubSeq(row, 1, Len(query)) \in Seq(Nat)
        /\ Len(SubSeq(row, 1, Len(query))) = Len(query)
        /\ \A j \in 1 .. Len(query) :
             SubSeq(row, 1, Len(query))[j] = row[j]
    BY <1>0, <2>2, FirstPart DEF Words
  <2>4. \A j \in 1 .. Len(query) : query[j] = SubSeq(row, 1, Len(query))[j]
    BY <2>1, <2>3
  <2>5. query = SubSeq(row, 1, Len(query))
    BY <2>3, <2>4, SeqEqual DEF Words
  <2>6. QED  BY <1>1, <2>2, <2>5 DEF IsPrefix
<1>3. ASSUME IsPrefix(query, row)
      PROVE  Matches(row, query)
  <2>1. Len(query) <= Len(row) /\ query = SubSeq(row, 1, Len(query))
    BY <1>1, <1>3 DEF IsPrefix
  <2>2. \A j \in 1 .. Len(query) : SubSeq(row, 1, Len(query))[j] = row[j]
    BY <1>0, <2>1, FirstPart DEF Words
  <2>3. \A j \in 1 .. Len(query) : j <= Len(row) /\ row[j] = query[j]
    BY <1>0, <2>1, <2>2
  <2>4. QED  BY <1>0, <2>3 DEF Matches, Differences
<1>4. QED  BY <1>2, <1>3

\* What is found after all rows are the rows the word begins.
LEMMA BeginningIsFound ==
    ASSUME Numbers, NEW query \in Words
    PROVE  Beginning(query) = Found(Len(Rows), query)
<1> DEFINE Solves(w) ==
        w = [i \in 0 .. Len(Rows) |->
                IF i = 0 THEN << >>
                ELSE w[i - 1] \o
                     IF IsPrefix(query, Rows[i]) THEN <<Rows[i]>> ELSE << >>]
<1> DEFINE found == [i \in 0 .. Len(Rows) |-> Found(i, query)]
<1>0. Len(Rows) \in Nat
  BY LenProperties DEF Numbers
<1>1. ASSUME NEW i \in 1 .. Len(Rows)
      PROVE  Found(i, query) =
               Found(i - 1, query) \o
                 IF IsPrefix(query, Rows[i]) THEN <<Rows[i]>> ELSE << >>
  <2>1. i \in 0 .. Len(Rows) /\ i # 0 /\ i - 1 \in 0 .. Len(Rows)
    BY <1>0
  <2>2. Rows[i] \in Words /\ Found(i - 1, query) \in Seq(Words)
    BY <2>1, FoundType, ElementOfSeq DEF Numbers
  <2>3. Found(i, query) = IF Matches(Rows[i], query)
                          THEN Append(Found(i - 1, query), Rows[i])
                          ELSE Found(i - 1, query)
    BY <2>1, FoundEquation
  <2>4. Matches(Rows[i], query) <=> IsPrefix(query, Rows[i])
    BY <2>2, MatchesIsPrefix
  <2>5. Append(Found(i - 1, query), Rows[i])
          = Found(i - 1, query) \o <<Rows[i]>>
    BY <2>2, AppendIsConcat
  <2>6. Found(i - 1, query) \o << >> = Found(i - 1, query)
    BY <2>2, ConcatEmptySeq
  <2>7. QED  BY <2>3, <2>4, <2>5, <2>6
<1>2. \E w : Solves(w)
  <2>1. Found(0, query) = << >>
    BY <1>0, FoundEquation
  <2>2. \A i \in 0 .. Len(Rows) :
          found[i] = IF i = 0 THEN << >>
                     ELSE found[i - 1] \o
                          IF IsPrefix(query, Rows[i]) THEN <<Rows[i]>> ELSE << >>
    <3>1. \A i \in 0 .. Len(Rows) : found[i] = Found(i, query)
      OBVIOUS
    <3>2. ASSUME NEW i \in 0 .. Len(Rows), i # 0
          PROVE  i \in 1 .. Len(Rows) /\ i - 1 \in 0 .. Len(Rows)
      BY <1>0, <3>2
    <3> HIDE DEF found
    <3>3. QED  BY <1>1, <2>1, <3>1, <3>2
  <2>3. found = [i \in 0 .. Len(Rows) |-> found[i]]
    OBVIOUS
  <2> HIDE DEF found
  <2>4. Solves(found)
    BY <2>2, <2>3
  <2> HIDE DEF Solves
  <2>5. QED  BY <2>4
<1> DEFINE all == CHOOSE w : Solves(w)
<1>3. Solves(all)
  <2> HIDE DEF Solves
  <2>1. QED  BY <1>2
<1>4. Beginning(query) = all[Len(Rows)]
  BY DEF Beginning
<1> HIDE DEF all
<1> DEFINE S == {i \in Nat : i <= Len(Rows) => all[i] = Found(i, query)}
<1>5. 0 \in S
  BY <1>0, <1>3, FoundEquation
<1>6. ASSUME NEW i \in Nat, i \in S
      PROVE  i + 1 \in S
  <2> SUFFICES ASSUME i + 1 <= Len(Rows)
               PROVE  all[i + 1] = Found(i + 1, query)
    OBVIOUS
  <2>1. i <= Len(Rows) /\ i + 1 \in 1 .. Len(Rows) /\ i + 1 \in 0 .. Len(Rows)
        /\ i + 1 # 0 /\ (i + 1) - 1 = i
    BY <1>0
  <2>2. all[i + 1] = all[i] \o
          IF IsPrefix(query, Rows[i + 1]) THEN <<Rows[i + 1]>> ELSE << >>
    BY <1>3, <2>1
  <2>3. all[i] = Found(i, query)
    BY <1>6, <2>1
  <2>4. Found(i + 1, query) = Found(i, query) \o
          IF IsPrefix(query, Rows[i + 1]) THEN <<Rows[i + 1]>> ELSE << >>
    BY <1>1, <2>1
  <2>5. QED  BY <2>2, <2>3, <2>4
<1>7. all[Len(Rows)] = Found(Len(Rows), query)
  <2> HIDE DEF S
  <2>1. \A i \in Nat : i \in S
    BY <1>5, <1>6, EveryNumber
  <2> USE DEF S
  <2>2. QED  BY <1>0, <2>1
<1>8. QED  BY <1>4, <1>7

\* In a sorted file no row behind a greater one matches.
LEMMA NoneBehindGreater ==
    ASSUME Numbers, Sorted, NEW query \in Words,
           NEW a \in DOMAIN Rows, NEW b \in DOMAIN Rows, a < b,
           IsGreater(Rows[a], query)
    PROVE  ~ Matches(Rows[b], query)
<1> DEFINE differences == Differences(Rows[a], query)
<1> DEFINE j == Min(differences)
<1>0. /\ DOMAIN query = 1 .. Len(query) /\ Len(query) \in Nat
      /\ Len(Rows) \in Nat /\ DOMAIN Rows = 1 .. Len(Rows)
  BY LenProperties DEF Words, Numbers
<1>1. Rows[a] \in Words /\ Rows[b] \in Words
  BY <1>0, ElementOfSeq DEF Numbers
<1>2. /\ Len(Rows[a]) \in Nat /\ DOMAIN Rows[a] = 1 .. Len(Rows[a])
      /\ Len(Rows[b]) \in Nat /\ DOMAIN Rows[b] = 1 .. Len(Rows[b])
  BY <1>1, LenProperties DEF Words
<1>3. differences # {} /\ j <= Len(Rows[a]) /\ Rows[a][j] > query[j]
  BY DEF IsGreater, Matches
<1>4. differences \subseteq Nat
  BY <1>0 DEF Differences
<1>5. j \in differences /\ \A i \in differences : j <= i
  BY <1>3, <1>4, MinIsLeast
<1> HIDE DEF j
<1>6. j \in 1 .. Len(query) /\ j \in 1 .. Len(Rows[a])
  BY <1>0, <1>2, <1>3, <1>5 DEF Differences
<1>7. \A i \in 1 .. j - 1 : i <= Len(Rows[a]) /\ Rows[a][i] = query[i]
  <2> SUFFICES ASSUME NEW i \in 1 .. j - 1
               PROVE  i <= Len(Rows[a]) /\ Rows[a][i] = query[i]
    OBVIOUS
  <2>1. i \in DOMAIN query /\ ~ (j <= i)
    BY <1>0, <1>6
  <2>2. i \notin differences
    BY <1>5, <2>1
  <2>3. QED  BY <1>2, <1>6, <2>1, <2>2 DEF Differences
<1>8. SUFFICES ASSUME Matches(Rows[b], query)
               PROVE  FALSE
  OBVIOUS
<1>9. \A i \in 1 .. Len(query) : i \in DOMAIN Rows[b] /\ Rows[b][i] = query[i]
  BY <1>0, <1>2, <1>8 DEF Matches, Differences
<1>10. Precedes(Rows[a], Rows[b])
  BY DEF Sorted
<1>11. \A i \in 1 .. j - 1 : i \in DOMAIN Rows[b] /\ Rows[a][i] = Rows[b][i]
  <2>1. \A i \in 1 .. j - 1 : i \in 1 .. Len(query)
    BY <1>0, <1>6
  <2>2. QED  BY <1>7, <1>9, <2>1
<1>12. Rows[a][j] <= Rows[b][j]
  BY <1>2, <1>6, <1>10, <1>11 DEF Precedes
<1>13. Rows[b][j] = query[j]
  BY <1>6, <1>9
<1>14. Rows[a][j] \in Nat /\ query[j] \in Nat
  BY <1>1, <1>6, ElementOfSeq DEF Words
<1>15. QED  BY <1>3, <1>12, <1>13, <1>14

\* Before the first row at which the search stops, less than Limit rows have
\* been found.
LEMMA FoundBelowLimit ==
    ASSUME Numbers, NEW query, NEW n \in Nat, n <= Len(Rows),
           \A k \in 1 .. n : k \notin Stops(query)
    PROVE  Len(Found(n, query)) < Limit
<1> DEFINE S == {k \in Nat : k <= n => Len(Found(k, query)) < Limit}
<1>0. Len(Rows) \in Nat /\ Limit \in Nat /\ Limit # 0
      /\ DOMAIN Rows = 1 .. Len(Rows)
  BY LenProperties DEF Numbers
<1>1. 0 \in S
  <2>1. Found(0, query) = << >>
    BY <1>0, FoundEquation
  <2>2. Len(Found(0, query)) = 0
    BY <2>1, EmptySeq
  <2>3. QED  BY <1>0, <2>2
<1>2. ASSUME NEW k \in Nat, k \in S
      PROVE  k + 1 \in S
  <2> SUFFICES ASSUME k + 1 <= n
               PROVE  Len(Found(k + 1, query)) < Limit
    OBVIOUS
  <2>1. /\ k <= n /\ k + 1 \in 1 .. n /\ k + 1 \in 1 .. Len(Rows)
        /\ (k + 1) - 1 = k
    BY <1>0
  <2>2. Len(Found(k, query)) < Limit
    BY <1>2, <2>1
  <2>3. /\ Found(k, query) \in Seq(Words) /\ Found(k + 1, query) \in Seq(Words)
        /\ Len(Found(k + 1, query)) \in
             Len(Found(k, query)) .. Len(Found(k, query)) + 1
    BY <2>1, FoundGrows
  <2>4. Len(Found(k, query)) \in Nat /\ Len(Found(k + 1, query)) \in Nat
    BY <2>3, LenProperties
  <2>5. Len(Found(k + 1, query)) # Limit
    BY <1>0, <2>1 DEF Stops
  <2>6. QED  BY <1>0, <2>2, <2>3, <2>4, <2>5
<1> HIDE DEF S
<1>3. \A k \in Nat : k \in S
  BY <1>1, <1>2, EveryNumber
<1>4. QED  BY <1>3 DEF S

\* The search returns what it should, unless it passes the end of the file.
LEMMA SearchIsExpected ==
    ASSUME Numbers, Sorted, NEW query \in Words, ~ PastTheEnd(query)
    PROVE  Search(query) = Expected(query)
<1> DEFINE n == Min(Stops(query))
<1> DEFINE all == Found(Len(Rows), query)
<1>0. /\ Len(Rows) \in Nat /\ Limit \in Nat /\ Limit # 0
      /\ DOMAIN Rows = 1 .. Len(Rows)
  BY LenProperties DEF Numbers
<1>1. n \in Stops(query) /\ \A k \in Stops(query) : n <= k
  <2>1. Stops(query) \subseteq Nat /\ Stops(query) # {}
    BY <1>0 DEF Stops, PastTheEnd
  <2>2. QED  BY <2>1, MinIsLeast
<1>2. Search(query) = Found(n, query)
  BY DEF Search
<1> HIDE DEF n
<1>3. n \in 1 .. Len(Rows) /\ n \in 0 .. Len(Rows) /\ n - 1 \in Nat
      /\ n - 1 <= Len(Rows)
  BY <1>0, <1>1 DEF Stops
<1>4. Len(Found(n, query)) <= Limit
  <2>1. \A k \in 1 .. n - 1 : k \notin Stops(query)
    BY <1>1, <1>3
  <2>2. Len(Found(n - 1, query)) < Limit
    BY <1>3, <2>1, FoundBelowLimit
  <2>3. /\ Found(n - 1, query) \in Seq(Words)
        /\ Len(Found(n, query)) \in
             Len(Found(n - 1, query)) .. Len(Found(n - 1, query)) + 1
    BY <1>3, FoundGrows
  <2>4. Len(Found(n - 1, query)) \in Nat
    BY <2>3, LenProperties
  <2>5. QED  BY <1>0, <2>2, <2>3, <2>4
<1>5. /\ Len(Found(n, query)) <= Len(all)
      /\ Found(n, query) = SubSeq(all, 1, Len(Found(n, query)))
      /\ (\A i \in n + 1 .. Len(Rows) : ~ Matches(Rows[i], query))
           => Found(n, query) = all
  BY <1>3, FoundIsBeginning
<1>6. Expected(query)
        = SubSeq(all, 1, IF Len(all) < Limit THEN Len(all) ELSE Limit)
  BY BeginningIsFound DEF Expected
<1>7. /\ Len(Found(n, query)) \in Nat /\ Len(all) \in Nat
  <2>1. Len(Rows) \in 0 .. Len(Rows)
    BY <1>0
  <2>2. QED  BY <1>3, <2>1, FoundType, LenProperties
<1> HIDE DEF all
<1>8. CASE IsGreater(Rows[n], query)
  <2>1. \A i \in n + 1 .. Len(Rows) : ~ Matches(Rows[i], query)
    <3> SUFFICES ASSUME NEW i \in n + 1 .. Len(Rows)
                 PROVE  ~ Matches(Rows[i], query)
      OBVIOUS
    <3>1. n \in DOMAIN Rows /\ i \in DOMAIN Rows /\ n < i
      BY <1>0, <1>3
    <3>2. QED  BY <1>8, <3>1, NoneBehindGreater
  <2>2. Found(n, query) = all
    BY <1>5, <2>1
  <2>3. (IF Len(all) < Limit THEN Len(all) ELSE Limit) = Len(all)
    BY <1>0, <1>4, <1>7, <2>2
  <2>4. QED  BY <1>2, <1>5, <1>6, <2>2, <2>3
<1>9. CASE Len(Found(n, query)) = Limit
  <2>1. (IF Len(all) < Limit THEN Len(all) ELSE Limit) = Len(Found(n, query))
    BY <1>0, <1>5, <1>7, <1>9
  <2>2. QED  BY <1>2, <1>5, <1>6, <2>1
<1>10. QED  BY <1>1, <1>8, <1>9 DEF Stops

-----------------------------------------------------------------------------
(***************************************************************************)
(* The types: the inductive invariant of TypeOK.                           *)
(***************************************************************************)

Lists == {Search(query) : query \in Words} \union {<< >>}

ClientsType ==
    /\ phase \in [Clients -> {"away", "idle", "waiting", "gone"}]
    /\ asked \in [Clients -> Seq(Words)]
    /\ answers \in [Clients -> Seq(Lists)]

NetworkType ==
    /\ transit \in [Clients -> Seq(Nat)]
    /\ received \in [Clients -> Seq(Nat)]
    /\ back \in [Clients -> Seq(Lists)]
    /\ backlog \in Seq(Clients)

ServerType ==
    /\ clients \in Seq(Clients)
    /\ server \in [at : {"select", "clients", "body", "dead"},
                   place : 0 .. Len(clients) + 1]
    /\ word \in [length : Nat, letters : Words]
    /\ misread \subseteq Clients
    /\ setting \in Settings

\* In the loop the server is at a place of the list, or behind it.
Places ==
    /\ At("clients") => server.place # 0
    /\ At("body") => server.place \in 1 .. Len(clients)

\* A client that waits has asked for one word more than it has answers.
Counts ==
    \A c \in Clients :
        /\ phase[c] \in {"away", "idle"} => Len(asked[c]) = Len(answers[c])
        /\ phase[c] = "waiting" => Len(asked[c]) = Len(answers[c]) + 1
        /\ phase[c] = "gone" => Len(answers[c]) <= Len(asked[c])

Types == ClientsType /\ NetworkType /\ ServerType /\ Places /\ Counts

LEMMA TypesImplyTypeOK ==
    ASSUME Types
    PROVE  TypeOK
<1>1. \A c \in Clients : Len(answers[c]) <= Len(asked[c])
  <2> SUFFICES ASSUME NEW c \in Clients
               PROVE  Len(answers[c]) <= Len(asked[c])
    OBVIOUS
  <2>1. asked[c] \in Seq(Words) /\ answers[c] \in Seq(Lists)
        /\ phase[c] \in {"away", "idle", "waiting", "gone"}
    BY DEF Types, ClientsType
  <2>2. Len(asked[c]) \in Nat /\ Len(answers[c]) \in Nat
    BY <2>1, LenProperties
  <2>3. QED  BY <2>1, <2>2 DEF Types, Counts
<1>2. phase \in [Clients -> {"away", "idle", "waiting", "gone"}]
  BY DEF Types, ClientsType
<1>3. server \in [at : {"select", "clients", "body", "dead"},
                  place : 0 .. Len(clients) + 1]
      /\ misread \subseteq Clients
  BY DEF Types, ServerType
<1>4. QED  BY <1>1, <1>2, <1>3 DEF TypeOK

LEMMA TypesInit ==
    ASSUME Numbers, Init
    PROVE  Types
<1>1. /\ << >> \in Seq(Words) /\ << >> \in Seq(Lists) /\ << >> \in Seq(Nat)
      /\ << >> \in Seq(Clients) /\ << >> \in Words /\ Len(<< >>) = 0
  BY EmptySeq DEF Words
<1>2. ClientsType
  BY <1>1 DEF Init, ClientsType
<1>3. NetworkType
  BY <1>1 DEF Init, NetworkType
<1>4. ServerType
  <2>1. Len(clients) = 0 /\ clients \in Seq(Clients)
    BY <1>1 DEF Init
  <2>2. server \in [at : {"select", "clients", "body", "dead"},
                    place : 0 .. Len(clients) + 1]
    BY <2>1 DEF Init
  <2>3. word \in [length : Nat, letters : Words]
    BY <1>1 DEF Init, NoWord
  <2>4. QED  BY <2>1, <2>2, <2>3 DEF Init, ServerType
<1>5. Places
  BY DEF Init, Places, At
<1>6. Counts
  BY <1>1 DEF Init, Counts
<1>7. QED  BY <1>2, <1>3, <1>4, <1>5, <1>6 DEF Types

\* The place of the list the server is at holds a client.
LEMMA CurrentType ==
    ASSUME Types, At("clients") \/ At("body"), server.place <= Len(clients)
    PROVE  /\ Current \in Clients /\ server.place \in 1 .. Len(clients)
           /\ received[Current] \in Seq(Nat)
           /\ transit[Current] \in Seq(Nat)
<1>1. Len(clients) \in Nat /\ server.place \in Nat /\ clients \in Seq(Clients)
  BY LenProperties DEF Types, ServerType
<1>2. server.place \in 1 .. Len(clients)
  BY <1>1 DEF Types, Places
<1>3. Current \in Clients
  BY <1>1, <1>2, ElementOfSeq DEF Current
<1>4. QED  BY <1>2, <1>3 DEF Types, NetworkType

\* The two parts of a sequence.
LEMMA Parts ==
    ASSUME NEW T, NEW s \in Seq(T), NEW n \in 1 .. Len(s)
    PROVE  /\ SubSeq(s, 1, n) \in Seq(T)
           /\ SubSeq(s, n + 1, Len(s)) \in Seq(T)
           /\ SubSeq(s, 1, n) \o SubSeq(s, n + 1, Len(s)) = s
<1>1. Len(s) \in Nat /\ \A i \in 1 .. Len(s) : s[i] \in T
  BY LenProperties, ElementOfSeq
<1>2. SubSeq(s, 1, n) \in Seq(T)
  BY <1>1, FirstPart
<1>3. SubSeq(s, n + 1, Len(s)) \in Seq(T)
  <2>1. n + 1 \in Int /\ Len(s) \in Int /\ \A i \in n + 1 .. Len(s) : s[i] \in T
    BY <1>1
  <2>2. QED  BY <2>1, SubSeqProperties
<1>4. SubSeq(s, 1, n) \o SubSeq(s, n + 1, Len(s)) = SubSeq(s, 1, Len(s))
  <2>1. 1 \in 1 .. Len(s) + 1 /\ n \in 1 - 1 .. Len(s) /\ Len(s) \in n .. Len(s)
    BY <1>1
  <2>2. QED  BY <2>1, ConcatAdjacentSubSeq
<1>5. QED  BY <1>2, <1>3, <1>4, SubSeqFull

\* Concatenation is associative.
LEMMA Associative ==
    \A r, a, b \in Seq(Nat) : (r \o a) \o b = r \o (a \o b)
<1> SUFFICES ASSUME NEW r \in Seq(Nat), NEW a \in Seq(Nat), NEW b \in Seq(Nat)
             PROVE  (r \o a) \o b = r \o (a \o b)
  OBVIOUS
<1> DEFINE Symbols == Nat
<1>1. r \in Seq(Symbols) /\ a \in Seq(Symbols) /\ b \in Seq(Symbols)
  OBVIOUS
<1> HIDE DEF Symbols
<1>2. QED  BY <1>1, ConcatAssociative, SMTT(60)

\* What moves from the front of the second part to the first changes nothing.
LEMMA Moved ==
    ASSUME NEW r \in Seq(Nat), NEW s \in Seq(Nat), NEW n \in 1 .. Len(s)
    PROVE  /\ r \o SubSeq(s, 1, n) \in Seq(Nat)
           /\ SubSeq(s, n + 1, Len(s)) \in Seq(Nat)
           /\ (r \o SubSeq(s, 1, n)) \o SubSeq(s, n + 1, Len(s)) = r \o s
<1> DEFINE a == SubSeq(s, 1, n)
<1> DEFINE b == SubSeq(s, n + 1, Len(s))
<1>1. a \in Seq(Nat) /\ b \in Seq(Nat)
  BY Parts
<1>2. a \o b = s
  BY Parts
<1> HIDE DEF a, b
<1>3. r \o a \in Seq(Nat)
  BY <1>1, ConcatProperties
<1>4. (r \o a) \o b = r \o (a \o b)
  BY <1>1, Associative
<1>5. QED  BY <1>1, <1>2, <1>3, <1>4 DEF a, b

\* The same between the parts of a longer sequence.
LEMMA MovedBetween ==
    ASSUME NEW l \in Seq(Nat), NEW s \in Seq(Nat), NEW t \in Seq(Nat),
           NEW n \in 1 .. Len(s)
    PROVE  (l \o SubSeq(s, 1, n)) \o (SubSeq(s, n + 1, Len(s)) \o t)
             = l \o (s \o t)
<1> DEFINE a == SubSeq(s, 1, n)
<1> DEFINE b == SubSeq(s, n + 1, Len(s))
<1>1. /\ a \in Seq(Nat) /\ b \in Seq(Nat)
      /\ l \o a \in Seq(Nat)
      /\ (l \o a) \o b = l \o s
  BY Parts, Moved
<1> HIDE DEF a, b
<1>2. ((l \o a) \o b) \o t = (l \o a) \o (b \o t)
  BY <1>1, Associative, ZenonT(60)
<1>3. (l \o s) \o t = l \o (s \o t)
  BY Associative
<1>4. QED  BY <1>1, <1>2, <1>3 DEF a, b

\* What Erase leaves of the list.
LEMMA EraseType ==
    ASSUME NEW T, NEW s \in Seq(T), NEW i \in 1 .. Len(s)
    PROVE  RemoveAt(s, i) \in Seq(T)
<1>1. Len(s) \in Nat /\ \A k \in 1 .. Len(s) : s[k] \in T
  BY LenProperties, ElementOfSeq
<1>2. SubSeq(s, 1, i - 1) \in Seq(T)
  <2>1. 1 \in Int /\ i - 1 \in Int /\ \A k \in 1 .. i - 1 : s[k] \in T
    BY <1>1
  <2>2. QED  BY <2>1, SubSeqProperties
<1>3. SubSeq(s, i + 1, Len(s)) \in Seq(T)
  <2>1. i + 1 \in Int /\ Len(s) \in Int /\ \A k \in i + 1 .. Len(s) : s[k] \in T
    BY <1>1
  <2>2. QED  BY <2>1, SubSeqProperties
<1>4. QED  BY <1>2, <1>3, ConcatProperties DEF RemoveAt

\* Erase ends the turn.
LEMMA EraseTypes ==
    ASSUME Types, Erase, server.place \in 1 .. Len(clients),
           misread' = misread, setting' = setting,
           word' \in [length : Nat, letters : Words]
    PROVE  ServerType' /\ Places'
<1>1. clients' \in Seq(Clients)
  BY EraseType DEF Types, ServerType, Erase
<1>2. Len(clients') \in Nat
  BY <1>1, LenProperties
<1>3. server' = [at |-> "select", place |-> 0]
  BY DEF Erase, GoTo
<1>4. server' \in [at : {"select", "clients", "body", "dead"},
                   place : 0 .. Len(clients') + 1]
  BY <1>2, <1>3
<1>5. QED  BY <1>1, <1>3, <1>4 DEF Types, ServerType, Places, At

\* Allocate stays at the place.
LEMMA AllocateTypes ==
    ASSUME Types, NEW length \in Nat, Allocate(length),
           server.place \in 1 .. Len(clients),
           clients' = clients, setting' = setting, misread' \subseteq Clients
    PROVE  ServerType' /\ Places'
<1>1. server' \in {[at |-> "body", place |-> server.place],
                  [at |-> "dead", place |-> 0]}
  BY DEF Allocate, GoTo
<1>2. server' \in [at : {"select", "clients", "body", "dead"},
                   place : 0 .. Len(clients') + 1]
  <2>1. /\ server.place \in 0 .. Len(clients) + 1
        /\ 0 \in 0 .. Len(clients) + 1
    BY DEF Types, ServerType
  <2>2. QED  BY <1>1, <2>1
<1>3. word' \in [length : Nat, letters : Words]
  <2>1. << >> \in Words
    BY EmptySeq DEF Words
  <2>2. QED  BY <2>1 DEF Allocate, Types, ServerType
<1>4. QED  BY <1>1, <1>2, <1>3 DEF Types, ServerType, Places, At

\* A step of the server keeps the types.
LEMMA ServerTypes ==
    ASSUME Numbers, Types, ServerStep
    PROVE  NetworkType' /\ ServerType' /\ Places' /\ UNCHANGED clientVars
<1> USE DEF At, GoTo
<1>0. /\ Len(clients) \in Nat /\ clients \in Seq(Clients)
      /\ server.place \in 0 .. Len(clients) + 1
      /\ word.length \in Nat /\ word.letters \in Words
      /\ word \in [length : Nat, letters : Words]
  BY LenProperties DEF Types, ServerType
<1>n. NoWord \in [length : Nat, letters : Words]
  BY EmptySeq DEF NoWord, Words
<1>1. CASE StartTurn
  <2>1. NetworkType' /\ UNCHANGED clientVars
    BY <1>1 DEF StartTurn, networkVars, Types, NetworkType
  <2>2. server' = [at |-> "clients", place |-> 1] /\ 1 \in 0 .. Len(clients) + 1
    BY <1>0, <1>1 DEF StartTurn
  <2>3. ServerType'
    BY <1>1, <2>2 DEF StartTurn, Types, ServerType
  <2>4. QED  BY <2>1, <2>2, <2>3 DEF Places
<1>2. CASE Accept
  <2>1. Head(backlog) \in Clients /\ Tail(backlog) \in Seq(Clients)
    BY <1>2, HeadTailProperties DEF Accept, Types, NetworkType
  <2>2. NetworkType' /\ UNCHANGED clientVars
    BY <1>2, <2>1 DEF Accept, Types, NetworkType
  <2>3. /\ clients' \in Seq(Clients) /\ Len(clients') \in Nat
        /\ server' \in {[at |-> "clients", place |-> 1],
                        [at |-> "dead", place |-> 0]}
    <3>1. clients' \in {clients, Append(clients, Head(backlog))}
      BY <1>2 DEF Accept
    <3>2. clients' \in Seq(Clients)
      BY <1>0, <2>1, <3>1, AppendProperties, SMTT(30)
    <3>3. QED  BY <1>2, <3>2, LenProperties DEF Accept
  <2>4. 0 \in 0 .. Len(clients') + 1 /\ 1 \in 0 .. Len(clients') + 1
    BY <2>3
  <2>5. ServerType'
    BY <1>2, <2>3, <2>4 DEF Accept, Types, ServerType
  <2>6. QED  BY <2>2, <2>3, <2>5 DEF Places
<1>3. CASE EndTurn
  <2>1. NetworkType' /\ UNCHANGED clientVars
    BY <1>3 DEF EndTurn, networkVars, Types, NetworkType
  <2>2. server' = [at |-> "select", place |-> 0] /\ 0 \in 0 .. Len(clients) + 1
    BY <1>0, <1>3 DEF EndTurn
  <2>3. ServerType'
    BY <1>3, <2>2 DEF EndTurn, Types, ServerType
  <2>4. QED  BY <2>1, <2>2, <2>3 DEF Places
<1>4. CASE NoData
  <2>1. NetworkType' /\ UNCHANGED clientVars
    BY <1>4 DEF NoData, networkVars, Types, NetworkType
  <2>2. /\ server' = [at |-> "clients", place |-> server.place + 1]
        /\ server.place + 1 \in 0 .. Len(clients) + 1 /\ server.place + 1 # 0
    BY <1>0, <1>4 DEF NoData
  <2>3. ServerType'
    BY <1>4, <2>2 DEF NoData, Types, ServerType
  <2>4. QED  BY <2>1, <2>2, <2>3 DEF Places
<1>5. CASE ReadLength
  <2> DEFINE c == Current
  <2> DEFINE half == Len(received[c]) = 1
  <2>1. /\ c \in Clients /\ server.place \in 1 .. Len(clients)
        /\ received[c] \in Seq(Nat) /\ received[c] # << >>
    BY <1>5, CurrentType DEF ReadLength
  <2>2. /\ received' = [received EXCEPT ![c] =
                           IF half THEN << >> ELSE Tail(Tail(@))]
        /\ misread' = IF half THEN misread \union {c} ELSE misread
        /\ IF half THEN \E length \in Garbage : Allocate(length)
           ELSE Allocate(received[c][2])
        /\ UNCHANGED <<clientVars, transit, back, backlog, clients, setting>>
    BY <1>5 DEF ReadLength
  <2> HIDE DEF c
  <2>3. Len(received[c]) \in Nat /\ Len(received[c]) # 0
    BY <2>1, EmptySeq, LenProperties
  <2>4. ~ half => Tail(Tail(received[c])) \in Seq(Nat) /\ received[c][2] \in Nat
    <3> HAVE ~ half
    <3>1. Tail(received[c]) \in Seq(Nat) /\ Len(Tail(received[c])) # 0
      BY <2>1, <2>3, HeadTailProperties
    <3>2. Tail(received[c]) # << >>
      BY <3>1, EmptySeq
    <3>3. 2 \in 1 .. Len(received[c])
      BY <2>3
    <3>4. QED  BY <2>1, <3>1, <3>2, <3>3, HeadTailProperties, ElementOfSeq
  <2>5. NetworkType'
    <3>1. (IF half THEN << >> ELSE Tail(Tail(received[c]))) \in Seq(Nat)
      BY <2>4, EmptySeq
    <3>2. received' \in [Clients -> Seq(Nat)]
      BY <2>1, <2>2, <3>1 DEF Types, NetworkType
    <3>3. QED  BY <2>2, <3>2 DEF Types, NetworkType
  <2>6. PICK length \in Nat : Allocate(length)
    BY <2>2, <2>4 DEF Numbers
  <2>7. misread' \subseteq Clients
    BY <2>1, <2>2 DEF Types, ServerType
  <2>8. ServerType' /\ Places'
    BY <2>1, <2>2, <2>6, <2>7, AllocateTypes
  <2>9. QED  BY <2>2, <2>5, <2>8
<1>6. CASE ReadAtEnd
  <2>1. NetworkType' /\ UNCHANGED clientVars
    BY <1>6 DEF ReadAtEnd, networkVars, Types, NetworkType
  <2>2. server.place \in 1 .. Len(clients)
    BY <1>6, CurrentType DEF ReadAtEnd
  <2>3. misread' = misread /\ setting' = setting /\ misread' \subseteq Clients
    BY <1>6 DEF ReadAtEnd, Types, ServerType
  <2>4. CASE Erase /\ UNCHANGED word
    BY <1>0, <2>1, <2>2, <2>3, <2>4, EraseTypes
  <2>5. CASE (\E length \in Garbage : Allocate(length)) /\ UNCHANGED clients
    <3>1. PICK length \in Nat : Allocate(length)
      BY <2>5 DEF Numbers
    <3>2. QED  BY <2>1, <2>2, <2>3, <2>5, <3>1, AllocateTypes
  <2>6. QED  BY <1>6, <2>4, <2>5 DEF ReadAtEnd
<1>7. CASE ReadBody
  <2> DEFINE c == Current
  <2>1. server.place \in 1 .. Len(clients) /\ server.at = "body"
    BY <1>7 DEF ReadBody, Types, Places
  <2>2. c \in Clients /\ received[c] \in Seq(Nat)
    BY <1>0, <2>1, CurrentType
  <2>3. PICK n \in {IF word.length - Len(word.letters) < Len(received[c])
                   THEN word.length - Len(word.letters)
                   ELSE Len(received[c])} :
          /\ word' = [word EXCEPT !.letters = @ \o SubSeq(received[c], 1, n)]
          /\ received' = [received EXCEPT ![c] = SubSeq(@, n + 1, Len(@))]
    BY <1>7 DEF ReadBody
  <2>4. /\ received[c] # << >> /\ word.length - Len(word.letters) > 0
        /\ UNCHANGED <<clientVars, transit, back, backlog, clients, server,
                       misread, setting>>
    BY <1>7 DEF ReadBody
  <2> HIDE DEF c
  <2>5. n \in 1 .. Len(received[c])
    <3>1. Len(received[c]) \in Nat /\ Len(received[c]) # 0
      BY <2>2, <2>4, EmptySeq, LenProperties
    <3>2. Len(word.letters) \in Nat
      BY <1>0, LenProperties DEF Words
    <3>3. QED  BY <1>0, <2>3, <2>4, <3>1, <3>2
  <2>6. /\ word.letters \o SubSeq(received[c], 1, n) \in Seq(Nat)
        /\ SubSeq(received[c], n + 1, Len(received[c])) \in Seq(Nat)
    BY <1>0, <2>2, <2>5, Moved DEF Words
  <2>7. word' \in [length : Nat, letters : Words]
    BY <1>0, <2>3, <2>6 DEF Words
  <2>8. received' \in [Clients -> Seq(Nat)]
    BY <2>2, <2>3, <2>6 DEF Types, NetworkType
  <2>9. NetworkType' /\ ServerType'
    BY <2>4, <2>7, <2>8 DEF Types, NetworkType, ServerType
  <2>10. QED  BY <2>1, <2>4, <2>9 DEF Places
<1>8. CASE UncompletePackage
  <2>1. NetworkType' /\ UNCHANGED clientVars
    BY <1>8 DEF UncompletePackage, networkVars, Types, NetworkType
  <2>2. server.place \in 1 .. Len(clients)
    BY <1>8 DEF UncompletePackage, Types, Places
  <2>3. Erase /\ misread' = misread /\ setting' = setting /\ word' = NoWord
    BY <1>8 DEF UncompletePackage
  <2>4. QED  BY <1>n, <2>1, <2>2, <2>3, EraseTypes
<1>9. CASE Answer
  <2> DEFINE c == Current
  <2>1. server.place \in 1 .. Len(clients) /\ server.at = "body"
    BY <1>9 DEF Answer, Types, Places
  <2>2. c \in Clients
    BY <1>0, <2>1, CurrentType
  <2>3. /\ back' \in {back, [back EXCEPT ![c] = Append(@, Search(word.letters))]}
        /\ word' \in {word, NoWord}
        /\ server' \in {[at |-> "clients", place |-> server.place + 1],
                        [at |-> "dead", place |-> 0]}
        /\ UNCHANGED <<clientVars, transit, received, backlog, clients,
                       misread, setting>>
    BY <1>9 DEF Answer
  <2> HIDE DEF c
  <2>4. back' \in [Clients -> Seq(Lists)]
    <3>1. back[c] \in Seq(Lists) /\ Search(word.letters) \in Lists
      BY <1>0, <2>2 DEF Types, NetworkType, Lists
    <3>2. Append(back[c], Search(word.letters)) \in Seq(Lists)
      BY <3>1, AppendProperties
    <3>3. QED  BY <2>2, <2>3, <3>2 DEF Types, NetworkType
  <2>5. /\ server.place + 1 \in 0 .. Len(clients) + 1 /\ server.place + 1 # 0
        /\ 0 \in 0 .. Len(clients) + 1
    BY <1>0, <2>1
  <2>6. server' \in [at : {"select", "clients", "body", "dead"},
                     place : 0 .. Len(clients) + 1]
    BY <2>3, <2>5
  <2>7. NetworkType' /\ ServerType'
    BY <1>0, <1>n, <2>3, <2>4, <2>6 DEF Types, NetworkType, ServerType
  <2>8. QED  BY <2>3, <2>5, <2>7 DEF Places
<1>10. QED
  BY <1>1, <1>2, <1>3, <1>4, <1>5, <1>6, <1>7, <1>8, <1>9 DEF ServerStep

\* A step of a client keeps the types.
LEMMA ClientTypes ==
    ASSUME Numbers, Types, NEW c \in Clients,
           Join(c) \/ Ask(c) \/ Arrive(c) \/ ReadList(c) \/ ReadNothing(c)
           \/ Leave(c)
    PROVE  Types'
<1>1. /\ phase[c] \in {"away", "idle", "waiting", "gone"}
      /\ asked[c] \in Seq(Words) /\ answers[c] \in Seq(Lists)
      /\ transit[c] \in Seq(Nat) /\ received[c] \in Seq(Nat)
      /\ back[c] \in Seq(Lists)
  BY DEF Types, ClientsType, NetworkType
<1>2. Len(asked[c]) \in Nat /\ Len(answers[c]) \in Nat
  BY <1>1, LenProperties
<1>3. /\ << >> \in Lists
      /\ << >> \in Seq(Lists)
  BY EmptySeq DEF Lists
<1>4. UNCHANGED serverVars
  BY DEF Join, Ask, Arrive, ReadList, ReadNothing, Leave
<1>5. ServerType' /\ Places'
  BY <1>4 DEF serverVars, Types, ServerType, Places, At
<1>6. CASE Join(c)
  <2>1. ClientsType'
    BY <1>6 DEF Join, Types, ClientsType
  <2>2. Append(backlog, c) \in Seq(Clients)
    BY AppendProperties DEF Types, NetworkType
  <2>3. NetworkType'
    BY <1>6, <2>2 DEF Join, Types, NetworkType
  <2>4. Counts'
    BY <1>6 DEF Join, Types, ClientsType, Counts
  <2>5. QED  BY <1>5, <2>1, <2>3, <2>4 DEF Types
<1>7. CASE Ask(c)
  <2>1. PICK query \in setting.queries :
          /\ asked' = [asked EXCEPT ![c] = Append(@, query)]
          /\ transit' = [transit EXCEPT ![c] = @ \o <<0, Len(query)>> \o query]
    BY <1>7 DEF Ask
  <2>2. query \in Words
    BY DEF Numbers, Types, ServerType
  <2>3. /\ Append(asked[c], query) \in Seq(Words)
        /\ Len(Append(asked[c], query)) = Len(asked[c]) + 1
    BY <1>1, <2>2, AppendProperties
  <2>4. transit[c] \o <<0, Len(query)>> \o query \in Seq(Nat)
    <3>1. Len(query) \in Nat
      BY <2>2, LenProperties DEF Words
    <3>2. <<0, Len(query)>> \in Seq(Nat)
      BY <3>1
    <3>3. transit[c] \o <<0, Len(query)>> \in Seq(Nat)
      BY <1>1, <3>2, ConcatProperties
    <3>4. QED  BY <2>2, <3>3, ConcatProperties DEF Words
  <2>5. ClientsType'
    BY <1>7, <2>1, <2>3 DEF Ask, Types, ClientsType
  <2>6. NetworkType'
    BY <1>7, <2>1, <2>4 DEF Ask, Types, NetworkType
  <2>7. Counts'
    BY <1>2, <1>7, <2>1, <2>3 DEF Ask, Types, ClientsType, Counts
  <2>8. QED  BY <1>5, <2>5, <2>6, <2>7 DEF Types
<1>8. CASE Arrive(c)
  <2>1. PICK n \in 1 .. Len(transit[c]) :
          /\ received' = [received EXCEPT ![c] = @ \o SubSeq(transit[c], 1, n)]
          /\ transit' = [transit EXCEPT ![c] = SubSeq(@, n + 1, Len(@))]
    BY <1>8 DEF Arrive
  <2>2. /\ received[c] \o SubSeq(transit[c], 1, n) \in Seq(Nat)
        /\ SubSeq(transit[c], n + 1, Len(transit[c])) \in Seq(Nat)
    BY <1>1, Moved
  <2>3. NetworkType'
    BY <1>8, <2>1, <2>2 DEF Arrive, Types, NetworkType
  <2>4. ClientsType' /\ Counts'
    BY <1>8 DEF Arrive, clientVars, Types, ClientsType, Counts
  <2>5. QED  BY <1>5, <2>3, <2>4 DEF Types
<1>9. CASE ReadList(c)
  <2>1. Head(back[c]) \in Lists /\ Tail(back[c]) \in Seq(Lists)
    BY <1>1, <1>9, HeadTailProperties DEF ReadList
  <2>2. /\ Append(answers[c], Head(back[c])) \in Seq(Lists)
        /\ Len(Append(answers[c], Head(back[c]))) = Len(answers[c]) + 1
    BY <1>1, <2>1, AppendProperties
  <2>3. ClientsType'
    BY <1>9, <2>2 DEF ReadList, Types, ClientsType
  <2>4. NetworkType'
    BY <1>9, <2>1 DEF ReadList, Types, NetworkType
  <2>5. Counts'
    BY <1>2, <1>9, <2>2 DEF ReadList, Types, ClientsType, Counts
  <2>6. QED  BY <1>5, <2>3, <2>4, <2>5 DEF Types
<1>10. CASE ReadNothing(c)
  <2>1. /\ Append(answers[c], << >>) \in Seq(Lists)
        /\ Len(Append(answers[c], << >>)) = Len(answers[c]) + 1
    BY <1>1, <1>3, AppendProperties
  <2>2. ClientsType'
    BY <1>10, <2>1 DEF ReadNothing, Types, ClientsType
  <2>3. NetworkType'
    BY <1>10 DEF ReadNothing, networkVars, Types, NetworkType
  <2>4. Counts'
    <3>1. CASE phase' = [phase EXCEPT ![c] = "gone"] /\ UNCHANGED answers
      BY <1>2, <1>10, <3>1 DEF ReadNothing, Types, ClientsType, Counts
    <3>2. CASE /\ phase' = [phase EXCEPT ![c] = "idle"]
               /\ answers' = [answers EXCEPT ![c] = Append(@, << >>)]
      BY <1>2, <1>10, <2>1, <3>2 DEF ReadNothing, Types, ClientsType, Counts
    <3>3. QED  BY <1>10, <3>1, <3>2 DEF ReadNothing
  <2>5. QED  BY <1>5, <2>2, <2>3, <2>4 DEF Types
<1>11. CASE Leave(c)
  <2>1. ClientsType'
    BY <1>11 DEF Leave, Types, ClientsType
  <2>2. NetworkType'
    BY <1>3, <1>11 DEF Leave, Types, NetworkType
  <2>3. Counts'
    BY <1>2, <1>11 DEF Leave, Types, ClientsType, Counts
  <2>4. QED  BY <1>5, <2>1, <2>2, <2>3 DEF Types
<1>12. QED  BY <1>6, <1>7, <1>8, <1>9, <1>10, <1>11

LEMMA TypesStep ==
    ASSUME Numbers, Types, [Next]_dictVars
    PROVE  Types'
<1>1. CASE ServerStep
  <2>1. NetworkType' /\ ServerType' /\ Places' /\ UNCHANGED clientVars
    BY <1>1, ServerTypes
  <2>2. ClientsType' /\ Counts'
    BY <2>1 DEF clientVars, Types, ClientsType, Counts
  <2>3. QED  BY <2>1, <2>2 DEF Types
<1>2. ASSUME NEW c \in Clients,
             Join(c) \/ Ask(c) \/ Arrive(c) \/ ReadList(c) \/ ReadNothing(c)
             \/ Leave(c)
      PROVE  Types'
  BY <1>2, ClientTypes
<1>3. CASE UNCHANGED dictVars
  <2>1. ClientsType' /\ NetworkType' /\ ServerType'
    BY <1>3 DEF dictVars, clientVars, networkVars, serverVars, Types,
                ClientsType, NetworkType, ServerType
  <2>2. Places' /\ Counts'
    BY <1>3 DEF dictVars, clientVars, serverVars, Types, Places, Counts, At
  <2>3. QED  BY <2>1, <2>2 DEF Types
<1>4. QED  BY <1>1, <1>2, <1>3 DEF Next

\* Words are words and lists are lists, no client reads more answers than it
\* has asked for, and the server never loses its place in the list of its
\* connections, although it erases while it goes through it.
THEOREM TypeCorrect ==
    ASSUME Numbers
    PROVE  Spec => []TypeOK
<1>1. Init => Types
  BY TypesInit
<1>2. Types /\ [Next]_dictVars => Types'
  BY TypesStep
<1>3. Types => TypeOK
  BY TypesImplyTypeOK
<1>4. QED  BY <1>1, <1>2, <1>3, PTL DEF Spec

-----------------------------------------------------------------------------
(***************************************************************************)
(* AnswersMatch: where the word is that a client waits for.  No byte of it *)
(* gets lost and none of another client gets between, so what the server   *)
(* searches for is the client's own last word.                             *)
(***************************************************************************)

\* The server reads a word of the client.
IsRead(c) == At("body") /\ Current = c

Question(c) == Last(asked[c])

\* What a client writes for a word.
Written(query) == <<0, Len(query)>> \o query

\* Nothing of the word has been read,
Unread(c) ==
    /\ ~ IsRead(c)
    /\ received[c] \o transit[c] = Written(Question(c))
    /\ back[c] = << >>

\* or its length and perhaps some of its letters,
Together(letters, r, t) == letters \o (r \o t)
HalfRead(c) ==
    /\ IsRead(c)
    /\ Together(word.letters, received[c], transit[c]) = Question(c)
    /\ word.length = Len(Question(c))
    /\ back[c] = << >>

\* or all of it, and the list is on its way.
Replied(c) ==
    /\ ~ IsRead(c)
    /\ received[c] = << >> /\ transit[c] = << >>
    /\ back[c] = <<Search(Question(c))>>

ExchangeOf(c) ==
    ~ At("dead") =>
        /\ phase[c] \in {"away", "idle"} =>
              ~ IsRead(c) /\ received[c] = << >> /\ transit[c] = << >>
        /\ phase[c] = "waiting" => Unread(c) \/ HalfRead(c) \/ Replied(c)

\* What a client has read, and is going to read, are the lists of its words.
RepliesOf(c) ==
    /\ back[c] # << >> =>
          phase[c] = "waiting" /\ back[c] = <<Search(Question(c))>>
    /\ \A k \in 1 .. Len(answers[c]) :
          \/ answers[c][k] = Search(asked[c][k])
          \/ At("dead") /\ answers[c][k] = << >>

Faithful == \A c \in Clients \ misread : ExchangeOf(c) /\ RepliesOf(c)

\* A connection is there only after its client.
Arrived == \A i \in 1 .. Len(backlog) : phase[backlog[i]] # "away"

Inv == Types /\ Faithful /\ Arrived

\* The types of what belongs to a client.
LEMMA OfClient ==
    ASSUME Types, NEW c \in Clients
    PROVE  /\ phase[c] \in {"away", "idle", "waiting", "gone"}
           /\ asked[c] \in Seq(Words) /\ answers[c] \in Seq(Lists)
           /\ Len(asked[c]) \in Nat /\ Len(answers[c]) \in Nat
           /\ transit[c] \in Seq(Nat) /\ received[c] \in Seq(Nat)
           /\ back[c] \in Seq(Lists)
           /\ word.letters \in Seq(Nat) /\ word.length \in Nat
<1>1. /\ phase[c] \in {"away", "idle", "waiting", "gone"}
      /\ asked[c] \in Seq(Words) /\ answers[c] \in Seq(Lists)
      /\ transit[c] \in Seq(Nat) /\ received[c] \in Seq(Nat)
      /\ back[c] \in Seq(Lists)
      /\ word.letters \in Seq(Nat) /\ word.length \in Nat
  BY DEF Types, ClientsType, NetworkType, ServerType, Words
<1>2. QED  BY <1>1, LenProperties

\* The word of a client that waits.
LEMMA QuestionType ==
    ASSUME Types, NEW c \in Clients, phase[c] = "waiting"
    PROVE  /\ Question(c) \in Words
           /\ Len(asked[c]) = Len(answers[c]) + 1
           /\ Question(c) = asked[c][Len(answers[c]) + 1]
<1>1. /\ Len(asked[c]) = Len(answers[c]) + 1
      /\ asked[c] \in Seq(Words) /\ Len(answers[c]) \in Nat
  BY OfClient DEF Types, Counts
<1>2. Len(asked[c]) \in 1 .. Len(asked[c])
  BY <1>1
<1>3. asked[c][Len(asked[c])] \in Words
  BY <1>1, <1>2, ElementOfSeq
<1>4. QED  BY <1>1, <1>3 DEF Question, Last

\* What a step leaves a client.
LEMMA Unaffected ==
    ASSUME NEW d, ExchangeOf(d), RepliesOf(d),
           phase'[d] = phase[d], asked'[d] = asked[d],
           answers'[d] = answers[d], transit'[d] = transit[d],
           received'[d] = received[d], back'[d] = back[d],
           At("dead") => At("dead")',
           ~ At("dead")' => /\ IsRead(d)' <=> IsRead(d)
                            /\ IsRead(d) => word' = word
    PROVE  ExchangeOf(d)' /\ RepliesOf(d)'
<1>1. RepliesOf(d)'
  BY DEF RepliesOf, Question, Last
<1>2. ExchangeOf(d)'
  <2> SUFFICES ASSUME ~ At("dead")'
               PROVE  ExchangeOf(d)'
    BY DEF ExchangeOf
  <2>1. Unread(d) => Unread(d)'
    BY DEF Unread, Question, Last
  <2>2. HalfRead(d) => HalfRead(d)'
    BY DEF HalfRead, Question, Last
  <2>3. Replied(d) => Replied(d)'
    BY DEF Replied, Question, Last
  <2>4. QED  BY <2>1, <2>2, <2>3 DEF ExchangeOf
<1>3. QED  BY <1>1, <1>2

\* The length comes before the letters.
LEMMA WrittenType ==
    ASSUME NEW q \in Seq(Nat)
    PROVE  /\ Written(q) \in Seq(Nat)
           /\ Len(Written(q)) = 2 + Len(q)
           /\ Written(q)[2] = Len(q)
           /\ \A i \in 3 .. 2 + Len(q) : Written(q)[i] = q[i - 2]
<1> DEFINE head == <<0, Len(q)>>
<1>1. Len(q) \in Nat
  BY LenProperties
<1>2. head \in Seq(Nat) /\ Len(head) = 2 /\ head[2] = Len(q)
  BY <1>1
<1>3. Written(q) = head \o q
  BY DEF Written
<1> HIDE DEF head
<1>4. /\ head \o q \in Seq(Nat)
      /\ Len(head \o q) = Len(head) + Len(q)
      /\ \A i \in 1 .. Len(head) + Len(q) :
           (head \o q)[i] = IF i <= Len(head) THEN head[i] ELSE q[i - Len(head)]
  BY <1>2, ConcatProperties
<1>5. QED  BY <1>1, <1>2, <1>3, <1>4

\* What is left without the first number.
LEMMA BehindOne ==
    ASSUME NEW r \in Seq(Nat), Len(r) # 0
    PROVE  /\ Tail(r) \in Seq(Nat)
           /\ Len(Tail(r)) = Len(r) - 1
           /\ \A i \in 1 .. Len(r) - 1 : Tail(r)[i] = r[i + 1]
<1>1. r # << >>
  BY EmptySeq
<1>2. /\ Tail(r) \in Seq(Nat)
      /\ Len(Tail(r)) = Len(r) - 1
      /\ \A i \in 1 .. Len(Tail(r)) : Tail(r)[i] = r[i + 1]
  BY <1>1, HeadTailProperties
<1>3. QED  BY <1>2

\* What is left without the two halves of a length.
LEMMA BehindTwo ==
    ASSUME NEW r \in Seq(Nat), Len(r) # 0, Len(r) # 1
    PROVE  /\ Len(r) >= 2
           /\ Tail(Tail(r)) \in Seq(Nat)
           /\ Len(Tail(Tail(r))) = Len(r) - 2
           /\ \A i \in 1 .. Len(r) - 2 : Tail(Tail(r))[i] = r[i + 2]
<1> DEFINE rest == Tail(Tail(r))
<1>1. Len(r) \in Nat
  BY LenProperties
<1>2. /\ Tail(r) \in Seq(Nat) /\ Len(Tail(r)) = Len(r) - 1
      /\ \A i \in 1 .. Len(r) - 1 : Tail(r)[i] = r[i + 1]
  BY BehindOne
<1>3. Len(Tail(r)) # 0
  BY <1>1, <1>2
<1>4. /\ rest \in Seq(Nat) /\ Len(rest) = Len(Tail(r)) - 1
      /\ \A i \in 1 .. Len(Tail(r)) - 1 : rest[i] = Tail(r)[i + 1]
  BY <1>2, <1>3, BehindOne
<1> HIDE DEF rest
<1>5. Len(rest) = Len(r) - 2
  BY <1>1, <1>2, <1>4
<1>6. ASSUME NEW i \in 1 .. Len(r) - 2
      PROVE  rest[i] = r[i + 2]
  <2>1. i \in 1 .. Len(Tail(r)) - 1 /\ i + 1 \in 1 .. Len(r) - 1
        /\ (i + 1) + 1 = i + 2
    BY <1>1, <1>2
  <2>2. QED  BY <1>2, <1>4, <2>1
<1>7. QED  BY <1>1, <1>4, <1>5, <1>6 DEF rest

\* Behind the length that has been read is the word.
LEMMA LengthRead ==
    ASSUME NEW r \in Seq(Nat), NEW t \in Seq(Nat), NEW q \in Seq(Nat),
           r \o t = Written(q), Len(r) # 0, Len(r) # 1
    PROVE  /\ r[2] = Len(q)
           /\ Tail(Tail(r)) \in Seq(Nat)
           /\ Tail(Tail(r)) \o t = q
<1>1. Len(r) \in Nat /\ Len(t) \in Nat /\ Len(q) \in Nat
  BY LenProperties
<1>2. Len(r) >= 2
  BY BehindTwo
<1>3. /\ Len(Written(q)) = 2 + Len(q)
      /\ Written(q)[2] = Len(q)
      /\ \A i \in 3 .. 2 + Len(q) : Written(q)[i] = q[i - 2]
  BY WrittenType
<1>4. /\ Len(Written(q)) = Len(r) + Len(t)
      /\ \A i \in 1 .. Len(r) + Len(t) :
           Written(q)[i] = IF i <= Len(r) THEN r[i] ELSE t[i - Len(r)]
  BY ConcatProperties
<1>5. Len(r) + Len(t) = 2 + Len(q)
  BY <1>3, <1>4
<1>6. r[2] = Len(q)
  BY <1>1, <1>2, <1>3, <1>4
<1> DEFINE rest == Tail(Tail(r))
<1>7. /\ rest \in Seq(Nat) /\ Len(rest) = Len(r) - 2
      /\ \A i \in 1 .. Len(r) - 2 : rest[i] = r[i + 2]
  BY BehindTwo
<1> HIDE DEF rest
<1>8. /\ rest \o t \in Seq(Nat)
      /\ Len(rest \o t) = Len(rest) + Len(t)
      /\ \A i \in 1 .. Len(rest) + Len(t) :
           (rest \o t)[i] = IF i <= Len(rest) THEN rest[i] ELSE t[i - Len(rest)]
  BY <1>7, ConcatProperties
<1>9. Len(rest) + Len(t) = Len(q)
  BY <1>1, <1>5, <1>7
<1>10. ASSUME NEW i \in 1 .. Len(q)
       PROVE  (rest \o t)[i] = q[i]
  <2>1. /\ i + 2 \in 3 .. 2 + Len(q) /\ i + 2 \in 1 .. Len(r) + Len(t)
        /\ (i + 2) - 2 = i /\ i \in 1 .. Len(rest) + Len(t)
    BY <1>1, <1>5, <1>9
  <2>2. Written(q)[i + 2] = q[i]
    BY <1>3, <2>1
  <2>3. CASE i <= Len(rest)
    <3>1. i + 2 <= Len(r) /\ i \in 1 .. Len(r) - 2
      BY <1>1, <1>7, <2>3
    <3>2. Written(q)[i + 2] = r[i + 2] /\ rest[i] = r[i + 2]
      BY <1>4, <1>7, <2>1, <3>1
    <3>3. (rest \o t)[i] = rest[i]
      BY <1>8, <2>1, <2>3
    <3>4. QED  BY <2>2, <3>2, <3>3
  <2>4. CASE ~ (i <= Len(rest))
    <3>1. ~ (i + 2 <= Len(r)) /\ (i + 2) - Len(r) = i - Len(rest)
      BY <1>1, <1>7, <2>4
    <3>2. Written(q)[i + 2] = t[i - Len(rest)]
      BY <1>4, <2>1, <3>1
    <3>3. (rest \o t)[i] = t[i - Len(rest)]
      BY <1>8, <2>1, <2>4
    <3>4. QED  BY <2>2, <3>2, <3>3
  <2>5. QED  BY <2>3, <2>4
<1>11. rest \o t = q
  BY <1>8, <1>9, <1>10, SeqEqual
<1>12. QED  BY <1>6, <1>7, <1>11 DEF rest

\* A word of the right length is the whole word.
LEMMA WholeWord ==
    ASSUME NEW l \in Seq(Nat), NEW r \in Seq(Nat), NEW t \in Seq(Nat),
           NEW q \in Seq(Nat)
    PROVE  Together(l, r, t) = q /\ Len(l) = Len(q)
             => l = q /\ r = << >> /\ t = << >>
<1> DEFINE both == r \o t
<1>1. Len(l) \in Nat /\ Len(r) \in Nat /\ Len(t) \in Nat
  BY LenProperties
<1>0. both \in Seq(Nat)
  BY ConcatProperties
<1>2. Len(both) = Len(r) + Len(t)
  BY ConcatProperties
<1>3. Together(l, r, t) = l \o both
  BY DEF Together
<1> HIDE DEF both
<1>4. /\ Len(l \o both) = Len(l) + Len(both)
      /\ \A i \in 1 .. Len(l) + Len(both) :
           (l \o both)[i] = IF i <= Len(l) THEN l[i] ELSE both[i - Len(l)]
  BY <1>0, ConcatProperties
<1>5. SUFFICES ASSUME Together(l, r, t) = q, Len(l) = Len(q)
               PROVE  l = q /\ r = << >> /\ t = << >>
  OBVIOUS
<1>6. Len(both) = 0 /\ Len(r) = 0 /\ Len(t) = 0
  BY <1>0, <1>1, <1>2, <1>3, <1>4, <1>5
<1>7. r = << >> /\ t = << >>
  BY <1>6, EmptySeq
<1>8. \A i \in 1 .. Len(l) : l[i] = q[i]
  BY <1>1, <1>3, <1>4, <1>5, <1>6
<1>9. l = q
  BY <1>5, <1>8, SeqEqual
<1>10. QED  BY <1>7, <1>9

\* Steps of the server that read and write nothing.
LEMMA QuietStep ==
    ASSUME Inv, NEW d \in Clients \ misread,
           StartTurn \/ Accept \/ EndTurn \/ NoData \/ ReadAtEnd
           \/ UncompletePackage
    PROVE  ExchangeOf(d)' /\ RepliesOf(d)'
<1> USE DEF At, GoTo
<1>1. ExchangeOf(d) /\ RepliesOf(d) /\ Types
  BY DEF Inv, Faithful
<1>2. /\ phase' = phase /\ asked' = asked /\ answers' = answers
      /\ transit' = transit /\ received' = received /\ back' = back
      /\ ~ At("dead")
  BY DEF StartTurn, Accept, EndTurn, NoData, ReadAtEnd, UncompletePackage,
         clientVars, networkVars
<1>3. CASE StartTurn \/ Accept \/ EndTurn \/ NoData
  <2>1. ~ IsRead(d) /\ ~ IsRead(d)'
    BY <1>3 DEF IsRead, StartTurn, Accept, EndTurn, NoData
  <2>2. QED  BY <1>1, <1>2, <2>1, Unaffected
<1>4. CASE ReadAtEnd \/ UncompletePackage
  <2>1. phase[Current] = "gone"
    BY <1>4 DEF ReadAtEnd, UncompletePackage, AtEnd
  <2>2. CASE d = Current
    <3>1. ExchangeOf(d)'
      BY <1>2, <2>1, <2>2 DEF ExchangeOf
    <3>2. RepliesOf(d)'
      BY <1>1, <1>2 DEF RepliesOf, Question, Last
    <3>3. QED  BY <3>1, <3>2
  <2>3. CASE d # Current
    <3>1. ~ IsRead(d)
      BY <2>3 DEF IsRead
    <3>2. ~ IsRead(d)'
      BY <1>4, <2>3
         DEF IsRead, Current, ReadAtEnd, UncompletePackage, Erase, Allocate
    <3>3. QED  BY <1>1, <1>2, <3>1, <3>2, Unaffected
  <2>4. QED  BY <2>2, <2>3
<1>5. QED  BY <1>3, <1>4

\* The length of a client's word is read.
LEMMA LengthStep ==
    ASSUME Inv, ReadLength, NEW d \in Clients \ misread'
    PROVE  ExchangeOf(d)' /\ RepliesOf(d)'
<1> USE DEF At, GoTo
<1> DEFINE c == Current
<1> DEFINE half == Len(received[c]) = 1
<1>1. /\ received' = [received EXCEPT ![c] =
                         IF half THEN << >> ELSE Tail(Tail(@))]
      /\ misread' = IF half THEN misread \union {c} ELSE misread
      /\ IF half THEN \E length \in Garbage : Allocate(length)
         ELSE Allocate(received[c][2])
      /\ received[c] # << >>
      /\ phase' = phase /\ asked' = asked /\ answers' = answers
      /\ transit' = transit /\ back' = back /\ clients' = clients
      /\ server.at = "clients"
  BY DEF ReadLength, clientVars
<1>2. d \in Clients \ misread /\ Types
  BY <1>1 DEF Inv
<1>3. ExchangeOf(d) /\ RepliesOf(d)
  BY <1>2 DEF Inv, Faithful
<1>4. ~ IsRead(d)
  BY <1>1 DEF IsRead
<1>5. /\ server' \in {[at |-> "body", place |-> server.place],
                      [at |-> "dead", place |-> 0]}
      /\ (server'.at = "body" /\ ~ half) =>
            word' = [length |-> received[c][2], letters |-> << >>]
  BY <1>1 DEF Allocate
<1>6. server'.at = "body" => Current' = c
  BY <1>1, <1>5 DEF Current
<1> HIDE DEF c
<1>7. CASE d # c
  <2>1. received'[d] = received[d]
    BY <1>1, <1>2, <1>7 DEF Types, NetworkType
  <2>2. ~ IsRead(d)'
    BY <1>6, <1>7 DEF IsRead
  <2>3. QED  BY <1>1, <1>3, <1>4, <2>1, <2>2, Unaffected
<1>8. CASE d = c
  <2>1. ~ half
    BY <1>1, <1>8
  <2>2. RepliesOf(d)'
    BY <1>1, <1>3 DEF RepliesOf, Question, Last
  <2>3. CASE server'.at = "dead" \/ phase[d] # "waiting"
    <3>1. phase[d] \notin {"away", "idle"}
      BY <1>1, <1>3, <1>8 DEF ExchangeOf
    <3>2. ExchangeOf(d)'
      BY <1>1, <2>3, <3>1 DEF ExchangeOf
    <3>3. QED  BY <2>2, <3>2
  <2>4. CASE server'.at # "dead" /\ phase[d] = "waiting"
    <3>1. Unread(d)
      BY <1>1, <1>3, <1>4, <1>8, <2>4 DEF ExchangeOf, HalfRead, Replied
    <3>2. Question(d) \in Seq(Nat) /\ received[d] \in Seq(Nat)
          /\ transit[d] \in Seq(Nat)
      BY <1>2, <2>4, QuestionType, OfClient DEF Words
    <3>3. Len(received[d]) # 0
      BY <1>1, <1>8, <3>2, EmptySeq
    <3>4. /\ received[d][2] = Len(Question(d))
          /\ Tail(Tail(received[d])) \in Seq(Nat)
          /\ Tail(Tail(received[d])) \o transit[d] = Question(d)
      <4> DEFINE r == received[d]
      <4> DEFINE t == transit[d]
      <4> DEFINE q == Question(d)
      <4>1. r \in Seq(Nat) /\ t \in Seq(Nat) /\ q \in Seq(Nat)
        BY <3>2
      <4>2. r \o t = Written(q)
        BY <3>1 DEF Unread
      <4>3. Len(r) # 0 /\ Len(r) # 1
        BY <1>8, <2>1, <3>3
      <4> HIDE DEF r, t, q
      <4>4. r[2] = Len(q) /\ Tail(Tail(r)) \in Seq(Nat) /\ Tail(Tail(r)) \o t = q
        BY <4>1, <4>2, <4>3, LengthRead
      <4>5. QED  BY <4>4 DEF r, t, q
    <3>5. received'[d] = Tail(Tail(received[d]))
      BY <1>1, <1>2, <1>8, <2>1 DEF Types, NetworkType
    <3>6. IsRead(d)'
      BY <1>5, <1>6, <1>8, <2>4 DEF IsRead
    <3>7. /\ word'.letters = << >> /\ word'.length = Len(Question(d))
          /\ Question(d)' = Question(d)
      <4>1. server'.at = "body"
        BY <1>5, <2>4
      <4>2. word' = [length |-> received[c][2], letters |-> << >>]
        BY <1>5, <1>8, <2>1, <4>1
      <4>3. word'.letters = << >> /\ word'.length = received[d][2]
        BY <1>8, <4>2
      <4>4. Question(d)' = Question(d)
        BY <1>1 DEF Question, Last
      <4>5. QED  BY <3>4, <4>3, <4>4
    <3>8. << >> \o Question(d) = Question(d)
      BY <3>2, ConcatEmptySeq
    <3>9. word'.letters \o (received'[d] \o transit'[d]) = Question(d)
      BY <1>1, <3>4, <3>5, <3>7, <3>8
    <3>10. back'[d] = << >>
      BY <1>1, <3>1 DEF Unread
    <3>11. HalfRead(d)'
      BY <3>6, <3>7, <3>9, <3>10 DEF HalfRead, Together
    <3>12. QED  BY <1>1, <2>2, <2>4, <3>11 DEF ExchangeOf
  <2>5. QED  BY <2>3, <2>4
<1>9. QED  BY <1>7, <1>8

\* The letters of a client's word are read.
LEMMA LettersStep ==
    ASSUME Inv, ReadBody, NEW d \in Clients \ misread
    PROVE  ExchangeOf(d)' /\ RepliesOf(d)'
<1> USE DEF At, GoTo
<1> DEFINE c == Current
<1>1. PICK n \in {IF word.length - Len(word.letters) < Len(received[c])
                 THEN word.length - Len(word.letters)
                 ELSE Len(received[c])} :
        /\ word' = [word EXCEPT !.letters = @ \o SubSeq(received[c], 1, n)]
        /\ received' = [received EXCEPT ![c] = SubSeq(@, n + 1, Len(@))]
  BY DEF ReadBody
<1>2. /\ received[c] # << >> /\ word.length - Len(word.letters) > 0
      /\ phase' = phase /\ asked' = asked /\ answers' = answers
      /\ transit' = transit /\ back' = back
      /\ clients' = clients /\ server' = server /\ server.at = "body"
  BY DEF ReadBody, clientVars
<1>3. ExchangeOf(d) /\ RepliesOf(d) /\ Types
  BY DEF Inv, Faithful
<1>4. Current' = c
  BY <1>2 DEF Current
<1>5. c = Current
  OBVIOUS
<1> HIDE DEF c
<1>6. CASE d # c
  <2>1. received'[d] = received[d]
    BY <1>1, <1>3, <1>6 DEF Types, NetworkType
  <2>2. ~ IsRead(d) /\ ~ IsRead(d)'
    BY <1>4, <1>5, <1>6 DEF IsRead
  <2>3. QED  BY <1>2, <1>3, <2>1, <2>2, Unaffected
<1>7. CASE d = c
  <2>1. IsRead(d) /\ IsRead(d)'
    BY <1>2, <1>4, <1>5, <1>7 DEF IsRead
  <2>2. RepliesOf(d)'
    BY <1>2, <1>3 DEF RepliesOf, Question, Last
  <2>3. CASE phase[d] # "waiting"
    <3>1. phase[d] \notin {"away", "idle"}
      BY <1>2, <1>3, <2>1 DEF ExchangeOf
    <3>2. ExchangeOf(d)'
      BY <1>2, <2>3, <3>1 DEF ExchangeOf
    <3>3. QED  BY <2>2, <3>2
  <2>4. CASE phase[d] = "waiting"
    <3>1. HalfRead(d)
      BY <1>2, <1>3, <2>1, <2>4 DEF ExchangeOf, Unread, Replied
    <3>2. /\ received[d] \in Seq(Nat) /\ transit[d] \in Seq(Nat)
          /\ word.letters \in Seq(Nat) /\ word.length \in Nat
      BY <1>3, OfClient
    <3>3. n \in 1 .. Len(received[d])
      <4>1. Len(received[d]) \in Nat /\ Len(word.letters) \in Nat
        BY <3>2, LenProperties
      <4>2. Len(received[d]) # 0
        BY <1>2, <1>7, <3>2, EmptySeq
      <4>3. QED  BY <1>1, <1>2, <1>7, <3>2, <4>1, <4>2, SMTT(30)
    <3>4. /\ word'.letters = word.letters \o SubSeq(received[d], 1, n)
          /\ word'.length = word.length
      BY <1>1, <1>3, <1>7 DEF Types, ServerType
    <3>5. received'[d] = SubSeq(received[d], n + 1, Len(received[d]))
      BY <1>1, <1>3, <1>7 DEF Types, NetworkType
    <3>6. word'.letters \o (received'[d] \o transit[d])
            = word.letters \o (received[d] \o transit[d])
      <4> DEFINE l == word.letters
      <4> DEFINE r == received[d]
      <4> DEFINE t == transit[d]
      <4>1. /\ l \in Seq(Nat) /\ r \in Seq(Nat) /\ t \in Seq(Nat)
            /\ n \in 1 .. Len(r)
        BY <3>2, <3>3
      <4> HIDE DEF l, r, t
      <4>2. (l \o SubSeq(r, 1, n)) \o (SubSeq(r, n + 1, Len(r)) \o t)
              = l \o (r \o t)
        BY <4>1, MovedBetween
      <4>3. QED  BY <3>4, <3>5, <4>2 DEF l, r, t
    <3>7. Question(d)' = Question(d)
      BY <1>2 DEF Question, Last
    <3>8. HalfRead(d)'
      BY <1>2, <2>1, <3>1, <3>4, <3>6, <3>7 DEF HalfRead, Together
    <3>9. QED  BY <1>2, <2>2, <2>4, <3>8 DEF ExchangeOf
  <2>5. QED  BY <2>3, <2>4
<1>8. QED  BY <1>6, <1>7

\* The list is sent.
LEMMA AnswerStep ==
    ASSUME Inv, Answer, NEW d \in Clients \ misread
    PROVE  ExchangeOf(d)' /\ RepliesOf(d)'
<1> USE DEF At, GoTo
<1> DEFINE c == Current
<1>1. /\ Len(word.letters) = word.length
      /\ \/ /\ back' = IF phase[c] = "gone" THEN back
                       ELSE [back EXCEPT ![c] = Append(@, Search(word.letters))]
            /\ server'.at = "clients"
         \/ back' = back /\ server'.at = "dead"
      /\ phase' = phase /\ asked' = asked /\ answers' = answers
      /\ transit' = transit /\ received' = received
      /\ server.at = "body"
  BY DEF Answer, clientVars
<1>2. ExchangeOf(d) /\ RepliesOf(d) /\ Types
  BY DEF Inv, Faithful
<1>3. ~ IsRead(d)'
  BY <1>1 DEF IsRead
<1>4. c = Current
  OBVIOUS
<1> HIDE DEF c
<1>5. CASE d # c
  <2>1. back'[d] = back[d]
    BY <1>1, <1>2, <1>5 DEF Types, NetworkType
  <2>2. ~ IsRead(d)
    BY <1>4, <1>5 DEF IsRead
  <2>3. QED  BY <1>1, <1>2, <1>3, <2>1, <2>2, Unaffected
<1>6. CASE d = c /\ (phase[d] = "gone" \/ server'.at = "dead")
  <2>1. back' = back
    BY <1>1, <1>6
  <2>2. RepliesOf(d)'
    BY <1>1, <1>2, <2>1 DEF RepliesOf, Question, Last
  <2>3. ExchangeOf(d)'
    BY <1>1, <1>6 DEF ExchangeOf
  <2>4. QED  BY <2>2, <2>3
<1>7. CASE d = c /\ phase[d] # "gone" /\ server'.at # "dead"
  <2>1. IsRead(d)
    BY <1>1, <1>4, <1>7 DEF IsRead
  <2>2. phase[d] = "waiting"
    BY <1>1, <1>2, <1>7, <2>1, OfClient DEF ExchangeOf
  <2>3. HalfRead(d)
    BY <1>1, <1>2, <2>1, <2>2 DEF ExchangeOf, Unread, Replied
  <2>4. /\ received[d] \in Seq(Nat) /\ transit[d] \in Seq(Nat)
        /\ word.letters \in Seq(Nat) /\ Question(d) \in Seq(Nat)
    BY <1>2, <2>2, OfClient, QuestionType DEF Words
  <2>5. word.letters = Question(d) /\ received[d] = << >> /\ transit[d] = << >>
    <3> DEFINE l == word.letters
    <3> DEFINE r == received[d]
    <3> DEFINE t == transit[d]
    <3> DEFINE q == Question(d)
    <3>1. l \in Seq(Nat) /\ r \in Seq(Nat) /\ t \in Seq(Nat) /\ q \in Seq(Nat)
      BY <2>4
    <3>2. Together(l, r, t) = q /\ Len(l) = Len(q)
      BY <1>1, <2>3 DEF HalfRead
    <3> HIDE DEF l, r, t, q
    <3>3. l = q /\ r = << >> /\ t = << >>
      BY <3>1, <3>2, WholeWord
    <3>4. QED  BY <3>3 DEF l, r, t, q
  <2>6. back'[d] = <<Search(Question(d))>>
    <3>1. back'[d] = Append(back[d], Search(word.letters))
      BY <1>1, <1>2, <1>7 DEF Types, NetworkType
    <3>2. back[d] = << >>
      BY <2>3 DEF HalfRead
    <3>3. QED  BY <2>5, <3>1, <3>2
  <2>7. Question(d)' = Question(d)
    BY <1>1 DEF Question, Last
  <2>8. Replied(d)'
    BY <1>1, <1>3, <2>5, <2>6, <2>7 DEF Replied
  <2>9. RepliesOf(d)'
    BY <1>1, <1>2, <2>2, <2>6, <2>7 DEF RepliesOf
  <2>10. QED  BY <1>1, <2>2, <2>8, <2>9 DEF ExchangeOf
<1>8. QED  BY <1>5, <1>6, <1>7

\* The steps of the server.
LEMMA ServerFaithful ==
    ASSUME Inv, ServerStep
    PROVE  Faithful'
<1>1. misread \subseteq misread'
  BY DEF ServerStep, StartTurn, Accept, EndTurn, NoData, ReadLength, ReadAtEnd,
         ReadBody, UncompletePackage, Answer
<1>2. SUFFICES ASSUME NEW d \in Clients \ misread'
               PROVE  ExchangeOf(d)' /\ RepliesOf(d)'
  BY DEF Faithful
<1>3. d \in Clients \ misread
  BY <1>1
<1>4. CASE StartTurn \/ Accept \/ EndTurn \/ NoData \/ ReadAtEnd
           \/ UncompletePackage
  BY <1>3, <1>4, QuietStep
<1>5. CASE ReadLength
  BY <1>5, LengthStep
<1>6. CASE ReadBody
  BY <1>3, <1>6, LettersStep
<1>7. CASE Answer
  BY <1>3, <1>7, AnswerStep
<1>8. QED  BY <1>4, <1>5, <1>6, <1>7 DEF ServerStep

\* A client asks.
LEMMA AskStep ==
    ASSUME Numbers, Inv, NEW c \in Clients \ misread, Ask(c)
    PROVE  ExchangeOf(c)' /\ RepliesOf(c)'
<1>1. ExchangeOf(c) /\ RepliesOf(c) /\ Types
  BY DEF Inv, Faithful
<1>2. PICK query \in setting.queries :
        /\ asked' = [asked EXCEPT ![c] = Append(@, query)]
        /\ transit' = [transit EXCEPT ![c] = @ \o <<0, Len(query)>> \o query]
  BY DEF Ask
<1>3. /\ phase[c] = "idle" /\ phase' = [phase EXCEPT ![c] = "waiting"]
      /\ answers' = answers /\ received' = received /\ back' = back
      /\ clients' = clients /\ server' = server /\ word' = word
  BY DEF Ask, serverVars
<1>4. query \in Words
  BY <1>1 DEF Numbers, Types, ServerType
<1>5. /\ asked[c] \in Seq(Words) /\ Len(asked[c]) = Len(answers[c])
      /\ Len(answers[c]) \in Nat /\ phase'[c] = "waiting"
  BY <1>1, <1>3, OfClient DEF Types, Counts, ClientsType
<1>6. /\ asked'[c] = Append(asked[c], query)
      /\ Len(asked'[c]) = Len(asked[c]) + 1
      /\ asked'[c][Len(asked[c]) + 1] = query
      /\ \A k \in 1 .. Len(asked[c]) : asked'[c][k] = asked[c][k]
  <2>1. asked'[c] = Append(asked[c], query)
    BY <1>1, <1>2 DEF Types, ClientsType
  <2>2. QED  BY <1>4, <1>5, <2>1, AppendProperties
<1>7. Question(c)' = query
  BY <1>6 DEF Question, Last
<1>8. back[c] = << >>
  BY <1>1, <1>3 DEF RepliesOf
<1>9. RepliesOf(c)'
  BY <1>1, <1>3, <1>5, <1>6, <1>8 DEF RepliesOf, At
<1>10. ASSUME ~ At("dead")'
       PROVE  Unread(c)'
  <2>1. ~ IsRead(c) /\ received[c] = << >> /\ transit[c] = << >>
    BY <1>1, <1>3, <1>10 DEF ExchangeOf, At
  <2>2. ~ IsRead(c)'
    BY <1>3, <2>1 DEF IsRead, At, Current
  <2>3. received'[c] \o transit'[c] = Written(query)
    <3>1. transit'[c] = transit[c] \o <<0, Len(query)>> \o query
      BY <1>1, <1>2 DEF Types, NetworkType
    <3>2. <<0, Len(query)>> \in Seq(Nat)
      <4>1. Len(query) \in Nat
        BY <1>4, LenProperties DEF Words
      <4>2. QED  BY <4>1
    <3>3. << >> \o <<0, Len(query)>> = <<0, Len(query)>>
      BY <3>2, ConcatEmptySeq
    <3>4. transit'[c] = Written(query)
      BY <2>1, <3>1, <3>3 DEF Written
    <3>5. << >> \o Written(query) = Written(query)
      <4>1. Written(query) \in Seq(Nat)
        BY <1>4, WrittenType DEF Words
      <4>2. QED  BY <4>1, ConcatEmptySeq
    <3>6. QED  BY <1>3, <2>1, <3>4, <3>5
  <2>4. QED  BY <1>3, <1>7, <1>8, <2>2, <2>3 DEF Unread
<1>11. QED  BY <1>5, <1>9, <1>10 DEF ExchangeOf

\* What was written arrives.
LEMMA ArriveStep ==
    ASSUME Inv, NEW c \in Clients \ misread, Arrive(c)
    PROVE  ExchangeOf(c)' /\ RepliesOf(c)'
<1>1. ExchangeOf(c) /\ RepliesOf(c) /\ Types
  BY DEF Inv, Faithful
<1>2. PICK n \in 1 .. Len(transit[c]) :
        /\ received' = [received EXCEPT ![c] = @ \o SubSeq(transit[c], 1, n)]
        /\ transit' = [transit EXCEPT ![c] = SubSeq(@, n + 1, Len(@))]
  BY DEF Arrive
<1>3. /\ phase' = phase /\ asked' = asked
      /\ answers' = answers /\ back' = back
      /\ clients' = clients /\ server' = server /\ word' = word
  BY DEF Arrive, clientVars, serverVars
<1>4. received[c] \in Seq(Nat) /\ transit[c] \in Seq(Nat)
  BY <1>1, OfClient
<1>5. received'[c] \o transit'[c] = received[c] \o transit[c]
  <2>1. /\ received'[c] = received[c] \o SubSeq(transit[c], 1, n)
        /\ transit'[c] = SubSeq(transit[c], n + 1, Len(transit[c]))
    BY <1>1, <1>2 DEF Types, NetworkType
  <2> DEFINE r == received[c]
  <2> DEFINE t == transit[c]
  <2>2. r \in Seq(Nat) /\ t \in Seq(Nat) /\ n \in 1 .. Len(t)
    BY <1>4
  <2> HIDE DEF r, t
  <2>3. (r \o SubSeq(t, 1, n)) \o SubSeq(t, n + 1, Len(t)) = r \o t
    BY <2>2, Moved
  <2>4. QED  BY <2>1, <2>3 DEF r, t
<1>6. transit[c] # << >>
  BY <1>2, EmptySeq
<1>7. IsRead(c)' <=> IsRead(c)
  BY <1>3 DEF IsRead, At, Current
<1>8. RepliesOf(c)'
  BY <1>1, <1>3 DEF RepliesOf, Question, Last, At
<1>9. ASSUME ~ At("dead")'
      PROVE  ExchangeOf(c)'
  <2>1. /\ phase[c] \notin {"away", "idle"}
        /\ phase[c] = "waiting" => Unread(c) \/ HalfRead(c)
    BY <1>1, <1>3, <1>6, <1>9 DEF ExchangeOf, Replied, At
  <2>2. Question(c)' = Question(c)
    BY <1>3 DEF Question, Last
  <2>3. Unread(c) => Unread(c)'
    BY <1>3, <1>5, <1>7, <2>2 DEF Unread
  <2>4. HalfRead(c) => HalfRead(c)'
    BY <1>3, <1>5, <1>7, <2>2 DEF HalfRead, Together
  <2>5. QED  BY <1>3, <2>1, <2>3, <2>4 DEF ExchangeOf
<1>10. QED  BY <1>8, <1>9 DEF ExchangeOf

\* A client reads a list, or believes that it did.
LEMMA ReadStep ==
    ASSUME Inv, NEW c \in Clients \ misread, ReadList(c) \/ ReadNothing(c)
    PROVE  ExchangeOf(c)' /\ RepliesOf(c)'
<1>1. ExchangeOf(c) /\ RepliesOf(c) /\ Types
  BY DEF Inv, Faithful
<1>2. /\ phase[c] = "waiting" /\ asked' = asked
      /\ transit' = transit /\ received' = received
      /\ clients' = clients /\ server' = server /\ word' = word
  BY DEF ReadList, ReadNothing, networkVars, serverVars
<1>3. /\ asked[c] \in Seq(Words) /\ Len(asked[c]) = Len(answers[c]) + 1
      /\ Len(answers[c]) \in Nat /\ answers[c] \in Seq(Lists)
      /\ Question(c) = asked[c][Len(answers[c]) + 1]
      /\ << >> \in Lists /\ Search(Question(c)) \in Lists
  BY <1>1, <1>2, OfClient, QuestionType DEF Lists
<1>4. Question(c)' = Question(c) /\ (IsRead(c)' <=> IsRead(c))
  BY <1>2 DEF Question, Last, IsRead, At, Current
<1>5. CASE ReadList(c)
  <2>1. back[c] # << >> /\ back[c] = <<Search(Question(c))>>
    BY <1>1, <1>5 DEF ReadList, RepliesOf
  <2>2. /\ answers'[c] = Append(answers[c], Head(back[c]))
        /\ back'[c] = Tail(back[c])
        /\ phase'[c] = "idle"
    BY <1>1, <1>5 DEF ReadList, Types, ClientsType, NetworkType
  <2>3. Head(back[c]) = Search(Question(c)) /\ Tail(back[c]) = << >>
    BY <2>1
  <2>4. /\ Len(answers'[c]) = Len(answers[c]) + 1
        /\ answers'[c][Len(answers[c]) + 1] = Search(Question(c))
        /\ \A k \in 1 .. Len(answers[c]) : answers'[c][k] = answers[c][k]
    BY <1>3, <2>2, <2>3, AppendProperties
  <2>5. \A k \in 1 .. Len(answers'[c]) :
          \/ answers'[c][k] = Search(asked'[c][k])
          \/ At("dead")' /\ answers'[c][k] = << >>
    <3> SUFFICES ASSUME NEW k \in 1 .. Len(answers'[c])
                 PROVE  \/ answers'[c][k] = Search(asked'[c][k])
                        \/ At("dead")' /\ answers'[c][k] = << >>
      OBVIOUS
    <3>1. CASE k = Len(answers[c]) + 1
      BY <1>2, <1>3, <2>4, <3>1
    <3>2. CASE k \in 1 .. Len(answers[c])
      BY <1>1, <1>2, <2>4, <3>2 DEF RepliesOf, At
    <3>3. QED  BY <1>3, <2>4, <3>1, <3>2
  <2>6. RepliesOf(c)'
    BY <2>2, <2>3, <2>5 DEF RepliesOf
  <2>7. ExchangeOf(c)'
    <3> SUFFICES ASSUME ~ At("dead")'
                 PROVE  ExchangeOf(c)'
      BY DEF ExchangeOf
    <3>1. Replied(c)
      BY <1>1, <1>2, <2>1 DEF ExchangeOf, Unread, HalfRead, At
    <3>2. QED  BY <1>2, <1>4, <2>2, <3>1 DEF ExchangeOf, Replied
  <2>8. QED  BY <2>6, <2>7
<1>6. CASE ReadNothing(c)
  <2>1. /\ At("dead") /\ At("dead")' /\ back[c] = << >> /\ back' = back
        /\ \/ phase'[c] = "gone" /\ answers'[c] = answers[c]
           \/ phase'[c] = "idle" /\ answers'[c] = Append(answers[c], << >>)
    BY <1>1, <1>2, <1>6
       DEF ReadNothing, networkVars, At, Types, ClientsType
  <2>2. \A k \in 1 .. Len(answers'[c]) :
          \/ answers'[c][k] = Search(asked'[c][k])
          \/ At("dead")' /\ answers'[c][k] = << >>
    <3>1. CASE answers'[c] = answers[c]
      BY <1>1, <1>2, <2>1, <3>1 DEF RepliesOf
    <3>2. CASE answers'[c] = Append(answers[c], << >>)
      <4>1. /\ Len(answers'[c]) = Len(answers[c]) + 1
            /\ answers'[c][Len(answers[c]) + 1] = << >>
            /\ \A k \in 1 .. Len(answers[c]) : answers'[c][k] = answers[c][k]
        BY <1>3, <3>2, AppendProperties
      <4> SUFFICES ASSUME NEW k \in 1 .. Len(answers'[c])
                   PROVE  \/ answers'[c][k] = Search(asked'[c][k])
                          \/ At("dead")' /\ answers'[c][k] = << >>
        OBVIOUS
      <4>2. CASE k = Len(answers[c]) + 1
        BY <2>1, <4>1, <4>2
      <4>3. CASE k \in 1 .. Len(answers[c])
        BY <1>1, <1>2, <2>1, <4>1, <4>3 DEF RepliesOf
      <4>4. QED  BY <1>3, <4>1, <4>2, <4>3
    <3>3. QED  BY <2>1, <3>1, <3>2
  <2>3. RepliesOf(c)'
    BY <2>1, <2>2 DEF RepliesOf
  <2>4. QED  BY <2>1, <2>3 DEF ExchangeOf
<1>7. QED  BY <1>5, <1>6

\* A client comes or goes.
LEMMA ComeAndGoStep ==
    ASSUME Inv, NEW c \in Clients \ misread, Join(c) \/ Leave(c)
    PROVE  ExchangeOf(c)' /\ RepliesOf(c)'
<1>1. ExchangeOf(c) /\ RepliesOf(c) /\ Types
  BY DEF Inv, Faithful
<1>2. /\ asked' = asked /\ answers' = answers
      /\ transit' = transit /\ received' = received
      /\ clients' = clients /\ server' = server /\ word' = word
  BY DEF Join, Leave, serverVars
<1>3. IsRead(c)' <=> IsRead(c)
  BY <1>2 DEF IsRead, At, Current
<1>4. CASE Join(c)
  <2>1. phase[c] = "away" /\ phase'[c] = "idle" /\ back' = back
    BY <1>1, <1>4 DEF Join, Types, ClientsType
  <2>2. RepliesOf(c)'
    BY <1>1, <1>2, <2>1 DEF RepliesOf, Question, Last, At
  <2>3. ExchangeOf(c)'
    BY <1>1, <1>2, <1>3, <2>1 DEF ExchangeOf, At
  <2>4. QED  BY <2>2, <2>3
<1>5. CASE Leave(c)
  <2>1. phase'[c] = "gone" /\ back'[c] = << >>
    BY <1>1, <1>5 DEF Leave, Types, ClientsType, NetworkType
  <2>2. RepliesOf(c)'
    BY <1>1, <1>2, <2>1 DEF RepliesOf, At
  <2>3. ExchangeOf(c)'
    BY <2>1 DEF ExchangeOf
  <2>4. QED  BY <2>2, <2>3
<1>6. QED  BY <1>4, <1>5

\* The steps of a client.
LEMMA ClientFaithful ==
    ASSUME Numbers, Inv, NEW c \in Clients,
           Join(c) \/ Ask(c) \/ Arrive(c) \/ ReadList(c) \/ ReadNothing(c)
           \/ Leave(c)
    PROVE  Faithful'
<1>1. /\ misread' = misread /\ clients' = clients
      /\ server' = server /\ word' = word
  BY DEF Join, Ask, Arrive, ReadList, ReadNothing, Leave, serverVars
<1>2. SUFFICES ASSUME NEW d \in Clients \ misread
               PROVE  ExchangeOf(d)' /\ RepliesOf(d)'
  BY <1>1 DEF Faithful
<1>3. ExchangeOf(d) /\ RepliesOf(d) /\ Types
  BY DEF Inv, Faithful
<1>4. CASE d # c
  <2>1. /\ phase'[d] = phase[d] /\ asked'[d] = asked[d]
        /\ answers'[d] = answers[d]
    BY <1>3, <1>4 DEF Types, ClientsType, clientVars,
                      Join, Ask, Arrive, ReadList, ReadNothing, Leave
  <2>2. /\ transit'[d] = transit[d] /\ received'[d] = received[d]
        /\ back'[d] = back[d]
    BY <1>3, <1>4 DEF Types, NetworkType, networkVars,
                      Join, Ask, Arrive, ReadList, ReadNothing, Leave
  <2>3. (IsRead(d)' <=> IsRead(d)) /\ (At("dead")' <=> At("dead"))
    BY <1>1 DEF IsRead, At, Current
  <2>4. QED  BY <1>1, <1>3, <2>1, <2>2, <2>3, Unaffected
<1>5. CASE d = c
  BY <1>5, AskStep, ArriveStep, ReadStep, ComeAndGoStep
<1>6. QED  BY <1>4, <1>5

\* Connections wait for accept only behind their clients.
LEMMA ArrivedStep ==
    ASSUME Types, Arrived, Next
    PROVE  Arrived'
<1>1. backlog \in Seq(Clients) /\ Len(backlog) \in Nat
  BY LenProperties DEF Types, NetworkType
<1>2. \A i \in 1 .. Len(backlog) : backlog[i] \in Clients
  BY <1>1, ElementOfSeq
<1>3. CASE Accept
  <2>1. phase' = phase /\ backlog # << >> /\ backlog' = Tail(backlog)
    BY <1>3 DEF Accept, clientVars
  <2>2. /\ Len(backlog') = Len(backlog) - 1
        /\ \A i \in 1 .. Len(backlog') : backlog'[i] = backlog[i + 1]
    BY <1>1, <2>1, HeadTailProperties
  <2>3. \A i \in 1 .. Len(backlog') : i + 1 \in 1 .. Len(backlog)
    BY <1>1, <2>2
  <2>4. QED  BY <2>1, <2>2, <2>3 DEF Arrived
<1>4. CASE ServerStep /\ ~ Accept
  <2>1. phase' = phase /\ backlog' = backlog
    BY <1>4 DEF ServerStep, StartTurn, EndTurn, NoData, ReadLength, ReadAtEnd,
                ReadBody, UncompletePackage, Answer, clientVars, networkVars
  <2>2. QED  BY <2>1 DEF Arrived
<1>5. ASSUME NEW c \in Clients, Join(c)
      PROVE  Arrived'
  <2>1. phase' = [phase EXCEPT ![c] = "idle"] /\ backlog' = Append(backlog, c)
    BY <1>5 DEF Join
  <2>2. \A d \in Clients : phase'[d] = IF d = c THEN "idle" ELSE phase[d]
    BY <2>1 DEF Types, ClientsType
  <2>3. /\ Len(backlog') = Len(backlog) + 1
        /\ backlog'[Len(backlog) + 1] = c
        /\ \A i \in 1 .. Len(backlog) : backlog'[i] = backlog[i]
    BY <1>1, <2>1, AppendProperties
  <2>4. ASSUME NEW i \in 1 .. Len(backlog')
        PROVE  phase'[backlog'[i]] # "away"
    <3>1. CASE i = Len(backlog) + 1
      BY <2>2, <2>3, <3>1
    <3>2. CASE i \in 1 .. Len(backlog)
      BY <1>2, <2>2, <2>3, <3>2 DEF Arrived
    <3>3. QED  BY <1>1, <2>3, <3>1, <3>2
  <2>5. QED  BY <2>4 DEF Arrived
<1>6. ASSUME NEW c \in Clients,
             Ask(c) \/ Arrive(c) \/ ReadList(c) \/ ReadNothing(c) \/ Leave(c)
      PROVE  Arrived'
  <2>1. backlog' = backlog
    BY <1>6 DEF Ask, Arrive, ReadList, ReadNothing, Leave, networkVars
  <2>2. \A d \in Clients : phase[d] # "away" => phase'[d] # "away"
    BY <1>6 DEF Ask, Arrive, ReadList, ReadNothing, Leave, clientVars,
                Types, ClientsType
  <2>3. QED  BY <1>2, <2>1, <2>2 DEF Arrived
<1>7. QED  BY <1>3, <1>4, <1>5, <1>6 DEF Next

LEMMA InvInit ==
    ASSUME Numbers, Init
    PROVE  Inv
<1>1. Types
  BY TypesInit
<1>2. Arrived
  BY EmptySeq DEF Init, Arrived
<1>3. Faithful
  <2>1. Len(<< >>) = 0
    OBVIOUS
  <2>2. ~ At("body")
    BY DEF Init, At
  <2>3. QED  BY <2>1, <2>2 DEF Init, Faithful, ExchangeOf, RepliesOf, IsRead
<1>4. QED  BY <1>1, <1>2, <1>3 DEF Inv

LEMMA InvStep ==
    ASSUME Numbers, Inv, [Next]_dictVars
    PROVE  Inv'
<1>1. Types'
  BY TypesStep DEF Inv
<1>2. CASE Next
  <2>1. Faithful'
    BY <1>2, ServerFaithful, ClientFaithful DEF Next
  <2>2. Arrived'
    BY <1>2, ArrivedStep DEF Inv
  <2>3. QED  BY <1>1, <2>1, <2>2 DEF Inv
<1>3. CASE UNCHANGED dictVars
  <2>1. Arrived'
    BY <1>3 DEF Inv, Arrived, dictVars, clientVars, networkVars
  <2>2. Faithful'
    <3>1. misread' = misread
      BY <1>3 DEF dictVars, serverVars
    <3>2. SUFFICES ASSUME NEW d \in Clients \ misread
                   PROVE  ExchangeOf(d)' /\ RepliesOf(d)'
      BY <3>1 DEF Faithful
    <3>3. (IsRead(d)' <=> IsRead(d)) /\ (At("dead")' <=> At("dead"))
      BY <1>3 DEF IsRead, At, Current, dictVars, serverVars
    <3>4. ExchangeOf(d) /\ RepliesOf(d)
      BY DEF Inv, Faithful
    <3>5. QED
      BY <1>3, <3>3, <3>4, Unaffected
         DEF dictVars, clientVars, networkVars, serverVars
  <2>3. QED  BY <1>1, <2>1, <2>2 DEF Inv
<1>4. QED  BY <1>2, <1>3

\* Each list a client reads is the beginning of all words that begin with its
\* own word, if the words of the file are in order: no bytes of a client get
\* lost or mixed with another's, and the search stops neither early nor late.
THEOREM AnswersAreRight ==
    ASSUME Numbers, Sorted
    PROVE  Spec => []AnswersMatch
<1>1. Init => Inv
  BY InvInit
<1>2. Inv /\ [Next]_dictVars => Inv'
  BY InvStep
<1>3. Inv => AnswersMatch
  <2> SUFFICES ASSUME Inv, NEW c \in Clients \ misread,
                      NEW k \in DOMAIN answers[c]
               PROVE  \/ answers[c][k] = Expected(asked[c][k])
                      \/ PastTheEnd(asked[c][k])
                      \/ At("dead") /\ answers[c][k] = << >>
    BY DEF AnswersMatch
  <2>1. /\ asked[c] \in Seq(Words) /\ answers[c] \in Seq(Lists)
        /\ Len(asked[c]) \in Nat /\ Len(answers[c]) \in Nat
        /\ phase[c] \in {"away", "idle", "waiting", "gone"}
    BY OfClient DEF Inv
  <2>2. Len(answers[c]) <= Len(asked[c])
    BY <2>1 DEF Inv, Types, Counts
  <2>3. k \in 1 .. Len(answers[c]) /\ k \in 1 .. Len(asked[c])
    BY <2>1, <2>2, LenProperties
  <2>4. asked[c][k] \in Words
    BY <2>1, <2>3, ElementOfSeq
  <2>5. \/ answers[c][k] = Search(asked[c][k])
        \/ At("dead") /\ answers[c][k] = << >>
    BY <2>3 DEF Inv, Faithful, RepliesOf
  <2>6. QED  BY <2>4, <2>5, SearchIsExpected
<1>4. QED  BY <1>1, <1>2, <1>3, PTL DEF Spec

-----------------------------------------------------------------------------
(***************************************************************************)
(* DiesForACause.                                                          *)
(***************************************************************************)

\* The words that are asked for are the ones there is memory for.
Asking == \A c \in Clients : \A k \in 1 .. Len(asked[c]) : Len(asked[c][k]) # Huge

LEMMA AskingStep ==
    ASSUME Numbers, Affordable, Types, Asking, [Next]_dictVars
    PROVE  Asking'
<1>1. ASSUME NEW c \in Clients, Ask(c)
      PROVE  Asking'
  <2>1. PICK query \in setting.queries :
          asked' = [asked EXCEPT ![c] = Append(@, query)]
    BY <1>1 DEF Ask
  <2>2. query \in Words /\ Len(query) # Huge
    BY DEF Numbers, Affordable, Types, ServerType
  <2>3. \A d \in Clients :
          asked'[d] = IF d = c THEN Append(asked[c], query) ELSE asked[d]
    BY <2>1 DEF Types, ClientsType
  <2>4. asked[c] \in Seq(Words) /\ Len(asked[c]) \in Nat
    BY OfClient
  <2>5. /\ Len(Append(asked[c], query)) = Len(asked[c]) + 1
        /\ Append(asked[c], query)[Len(asked[c]) + 1] = query
        /\ \A k \in 1 .. Len(asked[c]) : Append(asked[c], query)[k] = asked[c][k]
    BY <2>2, <2>4, AppendProperties
  <2>6. ASSUME NEW k \in 1 .. Len(asked'[c])
        PROVE  Len(asked'[c][k]) # Huge
    <3>1. CASE k = Len(asked[c]) + 1
      BY <2>2, <2>3, <2>5, <3>1
    <3>2. CASE k \in 1 .. Len(asked[c])
      BY <2>3, <2>5, <3>2 DEF Asking
    <3>3. k \in 1 .. Len(asked[c]) + 1
      BY <2>3, <2>5
    <3>4. k = Len(asked[c]) + 1 \/ k \in 1 .. Len(asked[c])
      BY <2>4, <3>3
    <3>5. QED  BY <3>1, <3>2, <3>4
  <2>7. QED  BY <2>3, <2>6 DEF Asking
<1>2. ASSUME NEW c \in Clients,
             Join(c) \/ Arrive(c) \/ ReadList(c) \/ ReadNothing(c) \/ Leave(c)
      PROVE  Asking'
  BY <1>2 DEF Asking, Join, Arrive, ReadList, ReadNothing, Leave, clientVars
<1>3. CASE ServerStep
  BY <1>3, ServerTypes DEF Asking, clientVars
<1>4. CASE UNCHANGED dictVars
  BY <1>4 DEF Asking, dictVars, clientVars
<1>5. QED  BY <1>1, <1>2, <1>3, <1>4 DEF Next

\* A length of which both halves have arrived is the one of a word, so its
\* allocation does not fail.
LEMMA LengthIsNotHuge ==
    ASSUME Inv, Asking, ReadLength, Len(received[Current]) # 1,
           Current \notin misread, phase[Current] # "gone"
    PROVE  received[Current][2] # Huge
<1> DEFINE c == Current
<1>1. server.at = "clients" /\ received[c] # << >> /\ server.place <= Len(clients)
  BY DEF ReadLength, At
<1>2. c \in Clients \ misread /\ Types
  BY <1>1, CurrentType DEF Inv, At
<1> HIDE DEF c
<1>3. ExchangeOf(c) /\ ~ IsRead(c) /\ phase[c] # "gone" /\ Len(received[c]) # 1
  BY <1>1, <1>2 DEF Inv, Faithful, IsRead, At, c
<1>4. phase[c] = "waiting" /\ Unread(c)
  BY <1>1, <1>2, <1>3, OfClient DEF ExchangeOf, HalfRead, Replied, At
<1>5. /\ Question(c) \in Seq(Nat) /\ received[c] \in Seq(Nat)
      /\ transit[c] \in Seq(Nat)
  BY <1>2, <1>4, QuestionType, OfClient DEF Words
<1>6. received[c][2] = Len(Question(c))
  <2> DEFINE r == received[c]
  <2> DEFINE t == transit[c]
  <2> DEFINE q == Question(c)
  <2>1. r \in Seq(Nat) /\ t \in Seq(Nat) /\ q \in Seq(Nat)
    BY <1>5
  <2>2. r \o t = Written(q)
    BY <1>4 DEF Unread
  <2>3. Len(r) # 0 /\ Len(r) # 1
    BY <1>1, <1>3, <1>5, EmptySeq
  <2> HIDE DEF r, t, q
  <2>4. r[2] = Len(q)
    BY <2>1, <2>2, <2>3, LengthRead
  <2>5. QED  BY <2>4 DEF r, q
<1>7. Len(Question(c)) # Huge
  <2>1. /\ Question(c) = asked[c][Len(answers[c]) + 1]
        /\ Len(asked[c]) = Len(answers[c]) + 1 /\ Len(answers[c]) \in Nat
    BY <1>2, <1>4, QuestionType, OfClient
  <2>2. Len(answers[c]) + 1 \in 1 .. Len(asked[c])
    BY <2>1
  <2>3. QED  BY <1>2, <2>1, <2>2 DEF Asking
<1>8. QED  BY <1>6, <1>7 DEF c

\* The server dies only for a cause: no order of the calls of clients with
\* names, whole lengths and words in the file brings it there.
THEOREM DeathHasACause ==
    ASSUME Numbers, Affordable
    PROVE  Spec => []DiesForACause
<1> DEFINE Cause ==
        \/ \E c \in Clients :
              phase[c] = "gone" \/ (c \in setting.nameless /\ phase[c] # "away")
        \/ misread # {}
        \/ PastTheEnd(word.letters)
<1>1. Init => Inv /\ Asking /\ DiesForACause
  <2> SUFFICES ASSUME Init
               PROVE  Inv /\ Asking /\ DiesForACause
    OBVIOUS
  <2>1. Asking
    BY EmptySeq DEF Init, Asking
  <2>2. DiesForACause
    BY DEF Init, DiesForACause, At
  <2>3. QED  BY <2>1, <2>2, InvInit
<1>2. Inv /\ Asking /\ DiesForACause /\ [Next]_dictVars
        => Inv' /\ Asking' /\ DiesForACause'
  <2> SUFFICES ASSUME Inv, Asking, DiesForACause, [Next]_dictVars
               PROVE  Inv' /\ Asking' /\ DiesForACause'
    OBVIOUS
  <2>1. Inv' /\ Asking'
    BY InvStep, AskingStep DEF Inv
  <2>2. /\ Types /\ Arrived
        /\ \A c \in Clients :
             phase[c] \in {"away", "idle", "waiting", "gone"}
    BY OfClient DEF Inv
  <2>3. SUFFICES ASSUME At("dead")'
                 PROVE  Cause'
    BY <2>1 DEF DiesForACause
  <2>4. DiesForACause <=> (At("dead") => Cause)
    BY DEF DiesForACause
  <2>5. ASSUME NEW c \in Clients,
               Join(c) \/ Ask(c) \/ Arrive(c) \/ ReadList(c)
               \/ ReadNothing(c) \/ Leave(c)
        PROVE  Cause'
    <3>1. server' = server /\ misread' = misread /\ word' = word
          /\ setting' = setting
      BY <2>5 DEF Join, Ask, Arrive, ReadList, ReadNothing, Leave, serverVars
    <3>2. Cause
      BY <2>3, <2>4, <3>1 DEF At
    <3>3. \A d \in Clients :
            /\ phase[d] = "gone" => phase'[d] = "gone"
            /\ phase[d] # "away" => phase'[d] # "away"
      BY <2>2, <2>5 DEF Types, ClientsType, clientVars,
                        Join, Ask, Arrive, ReadList, ReadNothing, Leave
    <3>4. (\E d \in Clients :
             phase[d] = "gone" \/ (d \in setting.nameless /\ phase[d] # "away"))
          => \E d \in Clients :
               \/ phase'[d] = "gone"
               \/ d \in setting'.nameless /\ phase'[d] # "away"
      <4>1. setting'.nameless = setting.nameless
        BY <3>1
      <4>2. ASSUME NEW d \in Clients,
                   \/ phase[d] = "gone"
                   \/ d \in setting.nameless /\ phase[d] # "away"
            PROVE  \/ phase'[d] = "gone"
                   \/ d \in setting'.nameless /\ phase'[d] # "away"
        BY <3>3, <4>1, <4>2
      <4>3. QED  BY <4>2
    <3>5. PastTheEnd(word.letters) => PastTheEnd(word.letters)'
      BY <3>1
    <3>6. QED  BY <3>1, <3>2, <3>4, <3>5
  <2>6. CASE UNCHANGED dictVars
    BY <2>3, <2>4, <2>6 DEF dictVars, clientVars, serverVars, At
  <2>7. CASE Accept
    <3>1. backlog # << >> /\ Head(backlog) \in setting.nameless
      BY <2>3, <2>7 DEF Accept, GoTo, At
    <3>2. 1 \in 1 .. Len(backlog) /\ Head(backlog) = backlog[1]
          /\ backlog[1] \in Clients
      <4>1. backlog \in Seq(Clients) /\ Len(backlog) \in Nat /\ Len(backlog) # 0
        BY <2>2, <3>1, LenProperties, EmptySeq DEF Types, NetworkType
      <4>2. 1 \in 1 .. Len(backlog)
        BY <4>1
      <4>3. QED  BY <4>1, <4>2, ElementOfSeq
    <3>3. phase[Head(backlog)] # "away"
      BY <2>2, <3>2 DEF Arrived
    <3>4. phase' = phase /\ setting' = setting
      BY <2>7 DEF Accept, clientVars
    <3>5. QED  BY <3>1, <3>2, <3>3, <3>4
  <2>8. CASE ReadLength
    <3>1. Current \in Clients /\ phase' = phase
      BY <2>2, <2>8, CurrentType DEF ReadLength, clientVars
    <3>2. CASE Len(received[Current]) = 1
      <4>1. misread' = misread \union {Current}
        BY <2>8, <3>2 DEF ReadLength
      <4>2. QED  BY <4>1
    <3>3. CASE Len(received[Current]) # 1
      <4>1. misread' = misread /\ Allocate(received[Current][2])
        BY <2>8, <3>3 DEF ReadLength
      <4>2. received[Current][2] = Huge
        BY <2>3, <4>1 DEF Allocate, GoTo, At
      <4>3. Current \in misread \/ phase[Current] = "gone"
        BY <2>8, <3>3, <4>2, LengthIsNotHuge
      <4>4. QED  BY <3>1, <4>1, <4>3
    <3>4. QED  BY <3>2, <3>3
  <2>9. CASE ReadAtEnd
    <3>1. Current \in Clients /\ phase[Current] = "gone" /\ phase' = phase
      BY <2>2, <2>9, CurrentType DEF ReadAtEnd, AtEnd, clientVars
    <3>2. QED  BY <3>1
  <2>10. CASE Answer
    <3>1. Current \in Clients /\ phase' = phase
      <4>1. At("body") /\ server.place <= Len(clients)
        BY <2>2, <2>10 DEF Answer, Types, Places, At
      <4>2. QED  BY <2>2, <2>10, <4>1, CurrentType DEF Answer, clientVars
    <3>2. /\ phase[Current] = "gone" \/ PastTheEnd(word.letters)
          /\ word' = word
      BY <2>3, <2>10 DEF Answer, GoTo, At
    <3>3. QED  BY <3>1, <3>2
  <2>11. CASE StartTurn \/ EndTurn \/ NoData \/ ReadBody \/ UncompletePackage
    BY <2>3, <2>11 DEF StartTurn, EndTurn, NoData, ReadBody, UncompletePackage,
                       Erase, GoTo, At
  <2>12. QED
    BY <2>5, <2>6, <2>7, <2>8, <2>9, <2>10, <2>11 DEF Next, ServerStep
<1>3. QED  BY <1>1, <1>2, PTL DEF Spec

=============================================================================
