----------------------------- MODULE MailProofs -----------------------------
(***************************************************************************)
(* Proofs about SMTPSession, for any number of clients and every way in    *)
(* which their connections fail.                                           *)
(***************************************************************************)
EXTENDS SMTPSession, SequenceTheorems, WellFoundedInduction, TLAPS

ClientEnd(c) == <<c, "client">>
ServerEnd(c) == <<c, "server">>

(***************************************************************************)
(* The dialogue with a client that says HELO.                              *)
(***************************************************************************)
Said(k) ==
    IF k = 1 THEN <<"HELO", LF>>
    ELSE IF k = 2 THEN <<"MAIL FROM:", Author, LF>>
    ELSE IF k = 3 THEN <<"RCPT TO:", Recipient, LF>>
    ELSE IF k = 4 THEN <<"DATA", LF>>
    ELSE IF k = 5 THEN <<"Something", ".", LF, ".", LF>>
    ELSE <<"QUIT", LF>>

Wanted(k) ==
    CASE k = 1 -> "220"
      [] k = 4 -> "354"
      [] k = 6 -> "221"
      [] OTHER -> "250"

Words ==
    {"HELO", LF, "MAIL FROM:", Author, "RCPT TO:", Recipient, "DATA",
     "Something", ".", "QUIT", "220", "221", "250", "354"}

(***************************************************************************)
(* Of a text, its reader has this much in its buffer; more has arrived, and*)
(* the rest is on its way.  The text is whole, or its end was given up.    *)
(***************************************************************************)
Flow(read, ready, coming, text, whole) ==
    \E b, a, r \in 0 .. Len(text) :
        /\ b <= a
        /\ a <= r
        /\ whole => r = Len(text)
        /\ read = SubSeq(text, 1, b)
        /\ ready = SubSeq(text, b + 1, a)
        /\ coming = SubSeq(text, a + 1, r)

\* The text that is on its way from an end to its peer.
Text(e, text, whole) ==
    Flow(buffer[Peer(e)], arrived[Peer(e)], rest[e], text, whole)

\* Whatever is on its way is of these words.
WordsOf(e, W) ==
    {buffer[Peer(e)], arrived[Peer(e)], rest[e]} \subseteq Seq(W)

\* What the thread has not read, when the client has said k of its texts and the
\* thread has read m of them.
Unread(k, m) ==
    IF k = m THEN <<>>
    ELSE IF k = m + 1 THEN Said(k)
    ELSE Said(1) \o Said(2)

\* What the client has not read.  The thread does not answer HELO: its greeting
\* is what the client takes for the answer.
Answered(k, m) ==
    IF k <= 1 THEN <<"220", LF>>
    ELSE IF k = m THEN <<Wanted(k), LF>>
    ELSE <<>>

Places(m) ==
    CASE m = 0 -> {"none", "hello"}
      [] m = 4 -> {"message"}
      [] m = 6 -> {"removing", "finished"}
      [] OTHER -> {"command"}

Collected(m) ==
    [from |-> IF m >= 2 THEN <<Author>> ELSE <<>>,
     to |-> IF m >= 3 THEN <<<<Recipient>>>> ELSE <<>>,
     body |-> IF m >= 5 THEN Body ELSE <<>>]

\* The thread of c has read m of the texts of a client that says HELO.
Stage(c, m) ==
    /\ thread[c] \in Places(m)
    /\ message[c] = Collected(m)
    /\ Delivery!Kept(c) <=> m >= 5
    /\ step[c] \in {m, m + 1} \/ (m = 0 /\ step[c] = 2)
    /\ thread[c] = "none" => step[c] <= 1
    /\ Text(ClientEnd(c), Unread(step[c], m), client[c] # "done")
    /\ Text(ServerEnd(c),
            IF thread[c] = "none" THEN <<>> ELSE Answered(step[c], m), FALSE)

\* A client that says ehlo gets no further than MAIL.
ForeignWords == {"ehlo", LF, "MAIL FROM:", Author}
Refusals == {"220", "221", LF}

Refused(c) ==
    /\ thread[c] \in {"none", "hello", "removing", "finished"}
    /\ step[c] \in 0 .. 2
    /\ ~ Delivery!Kept(c)
    /\ WordsOf(ClientEnd(c), ForeignWords)
    /\ WordsOf(ServerEnd(c), Refusals)

Conversation(c) ==
    IF c \in scenario.foreign THEN Refused(c)
    ELSE \E m \in 0 .. 6 : Stage(c, m)

Session(c) ==
    /\ client[c] # "done" => told[c] = "nothing"
    /\ client[c] \in {"ready", "connecting"} =>
          step[c] = 0 /\ thread[c] = "none"
    /\ client[c] = "removing" => Delivery!Kept(c)
    /\ sending[ClientEnd(c)] => client[c] = "talking" /\ step[c] # 0
    /\ ~ sending[ClientEnd(c)] => rest[ClientEnd(c)] = <<>>
    /\ ~ sending[ServerEnd(c)] => rest[ServerEnd(c)] = <<>>
    /\ sending[ServerEnd(c)] => thread[c] # "none"

Talks(c) == Session(c) /\ Conversation(c)

Entries == { [sender |-> c, letter |-> Letter[c]] : c \in Clients }

Typed ==
    /\ TypeOK
    /\ rest = [e \in Ends |-> rest[e]]
    /\ arrived = [e \in Ends |-> arrived[e]]
    /\ buffer = [e \in Ends |-> buffer[e]]
    /\ message = [c \in Clients |-> message[c]]
    /\ inbox \in Seq(Entries)
    /\ incoming \in Seq(Clients)

Inv == Typed /\ \A c \in Clients : Talks(c)

-----------------------------------------------------------------------------
(***************************************************************************)
(* Texts that arrive in pieces.                                            *)
(***************************************************************************)

LEMMA LeastNumber ==
    ASSUME NEW S, S \subseteq Nat, S # {}
    PROVE  Min(S) \in S /\ \A k \in S : Min(S) <= k
<1>1. PICK n \in S : \A k \in S : <<k, n>> \notin OpToRel(<, Nat)
    BY NatLessThanWellFounded, WFMin
<1>2. \A k \in S : k < n => <<k, n>> \in OpToRel(<, Nat)
    BY DEF OpToRel
<1>3. \A k \in S : ~ (k < n)
    BY <1>1, <1>2
<1>4. \A k \in S : n <= k
    BY <1>3
<1> QED BY <1>4 DEF Min

LEMMA PieceOfPiece ==
    ASSUME NEW S, NEW t \in Seq(S), NEW i \in 1 .. Len(t) + 1,
           NEW j \in i - 1 .. Len(t),
           NEW p \in Nat \ {0}, NEW q \in 0 .. j - i + 1
    PROVE  SubSeq(SubSeq(t, i, j), p, q) = SubSeq(t, i + p - 1, i + q - 1)
<1>1. Len(t) \in Nat /\ i \in Nat /\ j \in Int /\ q \in Nat
    BY LenProperties
<1>2. CASE q < p
    BY <1>1, <1>2, SubSeqEmpty
<1>3. CASE p <= q
    <2>1. p \in 1 .. j - i + 1 /\ q \in 1 .. j - i + 1
        BY <1>1, <1>3
    <2>2. i \in 1 .. Len(t) /\ j \in 1 .. Len(t)
        BY <1>1, <1>3
    <2> QED BY <2>1, <2>2, SubSeqOfSubSeq
<1> QED BY <1>1, <1>2, <1>3

LEMMA LengthOfPiece ==
    ASSUME NEW S, NEW t \in Seq(S), NEW i \in 1 .. Len(t) + 1,
           NEW j \in i - 1 .. Len(t)
    PROVE  /\ SubSeq(t, i, j) \in Seq(S)
           /\ Len(SubSeq(t, i, j)) = j - i + 1
           /\ DOMAIN SubSeq(t, i, j) = 1 .. j - i + 1
           /\ \A n \in 1 .. j - i + 1 : SubSeq(t, i, j)[n] = t[i + n - 1]
<1>1. Len(t) \in Nat /\ i \in Int /\ j \in Int
    BY LenProperties
<1>2. \A n \in i .. j : t[n] \in S
    BY <1>1, ElementOfSeq
<1>3. /\ SubSeq(t, i, j) \in Seq(S)
      /\ Len(SubSeq(t, i, j)) = IF i <= j THEN j - i + 1 ELSE 0
      /\ \A n \in 1 .. j - i + 1 : SubSeq(t, i, j)[n] = t[i + n - 1]
    BY <1>1, <1>2, SubSeqProperties
<1>4. Len(SubSeq(t, i, j)) = j - i + 1
    BY <1>1, <1>3
<1> QED BY <1>3, <1>4, LenProperties

LEMMA FlowArrives ==
    ASSUME NEW S, NEW text \in Seq(S), NEW read, NEW ready, NEW coming,
           NEW whole \in BOOLEAN, Flow(read, ready, coming, text, whole),
           NEW n \in 1 .. Len(coming)
    PROVE  Flow(read, ready \o SubSeq(coming, 1, n),
                SubSeq(coming, n + 1, Len(coming)), text, whole)
<1>1. PICK b, a, r \in 0 .. Len(text) :
          /\ b <= a
          /\ a <= r
          /\ whole => r = Len(text)
          /\ read = SubSeq(text, 1, b)
          /\ ready = SubSeq(text, b + 1, a)
          /\ coming = SubSeq(text, a + 1, r)
    BY DEF Flow
<1>2. Len(text) \in Nat /\ b \in Nat /\ a \in Nat /\ r \in Nat
    BY LenProperties
<1>3. Len(coming) = r - a
    BY <1>1, <1>2, LengthOfPiece
<1>4. n \in Nat /\ a + n \in 0 .. Len(text) /\ a + n <= r /\ b <= a + n
      /\ n >= 1
    BY <1>1, <1>2, <1>3
<1>5. SubSeq(coming, 1, n) = SubSeq(text, a + 1, a + n)
    <2>1. SubSeq(coming, 1, n) = SubSeq(text, (a + 1) + 1 - 1, (a + 1) + n - 1)
        BY <1>1, <1>2, <1>3, <1>4, PieceOfPiece
    <2> QED BY <1>2, <1>4, <2>1
<1>6. SubSeq(coming, n + 1, Len(coming)) = SubSeq(text, (a + n) + 1, r)
    <2>1. SubSeq(coming, n + 1, r - a) =
              SubSeq(text, (a + 1) + (n + 1) - 1, (a + 1) + (r - a) - 1)
        BY <1>1, <1>2, <1>4, PieceOfPiece
    <2> QED BY <1>2, <1>3, <1>4, <2>1
<1>7. SubSeq(text, b + 1, a) \o SubSeq(text, a + 1, a + n) =
          SubSeq(text, b + 1, a + n)
    <2>1. b + 1 \in 1 .. Len(text) + 1 /\ a \in b + 1 - 1 .. Len(text)
          /\ a + n \in a .. Len(text)
        BY <1>1, <1>2, <1>4
    <2> QED BY <2>1, ConcatAdjacentSubSeq
<1> QED BY <1>1, <1>4, <1>5, <1>6, <1>7, ZenonT(60) DEF Flow

LEMMA FlowIsRead ==
    ASSUME NEW S, NEW text \in Seq(S), NEW read, NEW ready, NEW coming,
           NEW whole \in BOOLEAN, Flow(read, ready, coming, text, whole)
    PROVE  Flow(read \o ready, <<>>, coming, text, whole)
<1>1. PICK b, a, r \in 0 .. Len(text) :
          /\ b <= a
          /\ a <= r
          /\ whole => r = Len(text)
          /\ read = SubSeq(text, 1, b)
          /\ ready = SubSeq(text, b + 1, a)
          /\ coming = SubSeq(text, a + 1, r)
    BY DEF Flow
<1>2. Len(text) \in Nat /\ b \in Nat /\ a \in Nat /\ r \in Nat
    BY LenProperties
<1>3. SubSeq(text, 1, b) \o SubSeq(text, b + 1, a) = SubSeq(text, 1, a)
    <2>1. 1 \in 1 .. Len(text) + 1 /\ b \in 1 - 1 .. Len(text)
          /\ a \in b .. Len(text)
        BY <1>1, <1>2
    <2> QED BY <2>1, ConcatAdjacentSubSeq
<1>4. SubSeq(text, a + 1, a) = <<>>
    BY <1>2, SubSeqEmpty
<1>5. a <= a
    BY <1>2
<1> QED BY <1>1, <1>3, <1>4, <1>5 DEF Flow

LEMMA FlowIsCut ==
    ASSUME NEW S, NEW text \in Seq(S), NEW read, NEW ready, NEW coming,
           NEW whole \in BOOLEAN, Flow(read, ready, coming, text, whole)
    PROVE  Flow(read, ready, <<>>, text, FALSE)
<1>1. PICK b, a, r \in 0 .. Len(text) :
          /\ b <= a
          /\ read = SubSeq(text, 1, b)
          /\ ready = SubSeq(text, b + 1, a)
    BY DEF Flow
<1>2. SubSeq(text, a + 1, a) = <<>>
    BY LenProperties, SubSeqEmpty
<1>3. a <= a
    BY LenProperties
<1> QED BY <1>1, <1>2, <1>3 DEF Flow

LEMMA FlowOfNothing ==
    ASSUME NEW read, NEW ready, NEW coming, NEW whole \in BOOLEAN
    PROVE  Flow(read, ready, coming, <<>>, whole) <=>
               read = <<>> /\ ready = <<>> /\ coming = <<>>
<1>1. Len(<<>>) = 0
    OBVIOUS
<1>2. SubSeq(<<>>, 1, 0) = <<>>
    BY SubSeqEmpty
<1>3. 0 \in 0 .. 0 /\ 0 <= 0 /\ 0 + 1 = 1 /\ \A n \in 0 .. 0 : n = 0
    OBVIOUS
<1> QED BY <1>1, <1>2, <1>3 DEF Flow

LEMMA FlowStarts ==
    ASSUME NEW S, NEW text \in Seq(S), NEW whole \in BOOLEAN
    PROVE  Flow(<<>>, <<>>, text, text, whole)
<1>1. SubSeq(text, 1, 0) = <<>> /\ SubSeq(text, 0 + 1, 0) = <<>>
    BY SubSeqEmpty
<1>2. SubSeq(text, 0 + 1, Len(text)) = text
    BY SubSeqFull
<1>3. Len(text) \in 0 .. Len(text) /\ 0 \in 0 .. Len(text)
      /\ 0 <= 0 /\ 0 <= Len(text)
    BY LenProperties
<1> QED BY <1>1, <1>2, <1>3 DEF Flow

LEMMA FlowIsLost ==
    ASSUME NEW S, NEW text \in Seq(S)
    PROVE  Flow(<<>>, <<>>, <<>>, text, FALSE)
BY FlowStarts, FlowIsCut

LEMMA FlowMayBeCut ==
    ASSUME NEW text, NEW read, NEW ready, NEW coming,
           NEW whole \in BOOLEAN, NEW less \in BOOLEAN, less => whole,
           Flow(read, ready, coming, text, whole)
    PROVE  Flow(read, ready, coming, text, less)
BY DEF Flow

-----------------------------------------------------------------------------
(***************************************************************************)
(* Lines.                                                                  *)
(***************************************************************************)

LEMMA PrefixOfPiece ==
    ASSUME NEW S, NEW term \in Seq(S), NEW text \in Seq(S),
           NEW i \in 1 .. Len(text)
    PROVE  IsPrefix(term, SubSeq(text, i, Len(text))) <=>
               /\ i + Len(term) - 1 <= Len(text)
               /\ \A j \in 1 .. Len(term) : text[i + j - 1] = term[j]
<1> DEFINE n == Len(term)
           piece == SubSeq(text, i, Len(text))
<1>1. n \in Nat /\ Len(text) \in Nat /\ i \in Nat /\ 1 <= i /\ i <= Len(text)
    BY LenProperties
<1>2. /\ piece \in Seq(S)
      /\ Len(piece) = Len(text) - i + 1
      /\ \A j \in 1 .. Len(text) - i + 1 : piece[j] = text[i + j - 1]
    BY <1>1, LengthOfPiece
<1>3. SubSeq(term, 1, n) = term
    BY SubSeqFull
<1>4. IsPrefix(term, piece) <=> n <= Len(piece) /\ term = SubSeq(piece, 1, n)
    BY <1>3 DEF IsPrefix
<1> HIDE DEF piece
<1>5. n <= Len(piece) <=> i + n - 1 <= Len(text)
    BY <1>1, <1>2
<1>6. ASSUME n <= Len(piece)
      PROVE  term = SubSeq(piece, 1, n) <=>
                 \A j \in 1 .. n : text[i + j - 1] = term[j]
    <2>1. /\ SubSeq(piece, 1, n) \in Seq(S)
          /\ Len(SubSeq(piece, 1, n)) = n
          /\ \A j \in 1 .. n : SubSeq(piece, 1, n)[j] = piece[j]
        <3>1. 1 \in 1 .. Len(piece) + 1 /\ n \in 1 - 1 .. Len(piece)
            BY <1>1, <1>2, <1>6
        <3>2. /\ SubSeq(piece, 1, n) \in Seq(S)
              /\ Len(SubSeq(piece, 1, n)) = n - 1 + 1
              /\ \A j \in 1 .. n - 1 + 1 :
                     SubSeq(piece, 1, n)[j] = piece[1 + j - 1]
            BY <1>2, <3>1, LengthOfPiece
        <3> QED BY <1>1, <3>2
    <2>2. \A j \in 1 .. n : piece[j] = text[i + j - 1]
        BY <1>1, <1>2, <1>6
    <2>3. ASSUME \A j \in 1 .. n : text[i + j - 1] = term[j]
          PROVE  term = SubSeq(piece, 1, n)
        <3>1. \A j \in 1 .. Len(term) : term[j] = SubSeq(piece, 1, n)[j]
            BY <2>1, <2>2, <2>3
        <3>2. Len(term) = Len(SubSeq(piece, 1, n))
            BY <2>1
        <3> HIDE DEF n
        <3> QED BY <2>1, <3>1, <3>2, SeqEqual
    <2> QED BY <2>1, <2>2, <2>3
<1> QED BY <1>4, <1>5, <1>6 DEF piece

LEMMA IndexIsPlace ==
    ASSUME NEW S, NEW e, buffer[e] \in Seq(S), Terminator(e) \in Seq(S),
           Index(e) # 0
    PROVE  /\ Index(e) \in 1 .. Len(buffer[e])
           /\ Index(e) + Len(Terminator(e)) - 1 <= Len(buffer[e])
           /\ \A j \in 1 .. Len(Terminator(e)) :
                 buffer[e][Index(e) + j - 1] = Terminator(e)[j]
           /\ \A i \in 1 .. Len(buffer[e]) :
                 /\ i + Len(Terminator(e)) - 1 <= Len(buffer[e])
                 /\ \A j \in 1 .. Len(Terminator(e)) :
                       buffer[e][i + j - 1] = Terminator(e)[j]
                 => Index(e) <= i
<1> DEFINE term == Terminator(e)
           text == buffer[e]
           places == { i \in DOMAIN text :
                           IsPrefix(term, SubSeq(text, i, Len(text))) }
<1>1. DOMAIN text = 1 .. Len(text) /\ Len(text) \in Nat
    BY LenProperties
<1>2. Index(e) = IF places = {} THEN 0 ELSE Min(places)
    BY DEF Index
<1> HIDE DEF term, text
<1>3. places # {} /\ places \subseteq Nat
    BY <1>1, <1>2
<1> HIDE DEF places
<1>4. Index(e) \in places /\ \A i \in places : Index(e) <= i
    BY <1>2, <1>3, LeastNumber
<1>5. \A i \in 1 .. Len(text) :
          i \in places <=> /\ i + Len(term) - 1 <= Len(text)
                           /\ \A j \in 1 .. Len(term) : text[i + j - 1] = term[j]
    BY <1>1, PrefixOfPiece DEF places, term, text
<1>6. places \subseteq 1 .. Len(text)
    BY <1>1 DEF places
<1> QED BY <1>4, <1>5, <1>6 DEF term, text

\* A text of one line.
IsLine(text) ==
    /\ text \in Seq(Words)
    /\ text # <<>>
    /\ text[Len(text)] = LF
    /\ \A i \in 1 .. Len(text) : text[i] = LF => i = Len(text)

LEMMA LineEnd ==
    ASSUME NEW S, NEW e, LF \in S, buffer[e] \in Seq(S),
           Terminator(e) = <<LF>>, Index(e) # 0
    PROVE  /\ Index(e) \in 1 .. Len(buffer[e])
           /\ buffer[e][Index(e)] = LF
           /\ \A i \in 1 .. Len(buffer[e]) : buffer[e][i] = LF => Index(e) <= i
<1> DEFINE term == <<LF>>
<1>1. term \in Seq(S) /\ Len(term) = 1 /\ term[1] = LF
    OBVIOUS
<1>2. Terminator(e) = term
    OBVIOUS
<1> HIDE DEF term
<1>3. Terminator(e) \in Seq(S) /\ Len(Terminator(e)) = 1
    BY <1>1, <1>2
<1>4. Len(buffer[e]) \in Nat
    BY LenProperties
<1>5. /\ Index(e) \in 1 .. Len(buffer[e])
      /\ \A j \in 1 .. 1 : buffer[e][Index(e) + j - 1] = term[j]
      /\ \A i \in 1 .. Len(buffer[e]) :
            /\ i + 1 - 1 <= Len(buffer[e])
            /\ \A j \in 1 .. 1 : buffer[e][i + j - 1] = term[j]
            => Index(e) <= i
    BY <1>2, <1>3, IndexIsPlace
<1>6. \A i \in 1 .. Len(buffer[e]) :
          /\ i + 1 - 1 <= Len(buffer[e])
          /\ buffer[e][i] = LF => \A j \in 1 .. 1 : buffer[e][i + j - 1] = term[j]
    BY <1>1, <1>4
<1>7. buffer[e][Index(e) + 1 - 1] = term[1] /\ Index(e) + 1 - 1 = Index(e)
    BY <1>4, <1>5
<1> QED BY <1>1, <1>5, <1>6, <1>7

\* A line that is there is the whole text, when the text ends with the first LF.
LEMMA LineIsText ==
    ASSUME NEW S, NEW e, NEW text \in Seq(S), LF \in S, text # <<>>,
           \A i \in 1 .. Len(text) : text[i] = LF => i = Len(text),
           NEW ready, NEW coming, NEW whole \in BOOLEAN,
           Flow(buffer[e], ready, coming, text, whole),
           Terminator(e) = <<LF>>, TakeLine(e), e \in DOMAIN buffer
    PROVE  /\ Line(e) = SubSeq(text, 1, Len(text) - 1)
           /\ buffer'[e] = <<>> /\ ready = <<>> /\ coming = <<>>
<1>1. PICK b, a, r \in 0 .. Len(text) :
          /\ b <= a
          /\ a <= r
          /\ buffer[e] = SubSeq(text, 1, b)
          /\ ready = SubSeq(text, b + 1, a)
          /\ coming = SubSeq(text, a + 1, r)
    BY DEF Flow
<1>2. Len(text) \in Nat /\ b \in Nat /\ a \in Nat /\ r \in Nat
    BY LenProperties
<1>3. /\ buffer[e] \in Seq(S) /\ Len(buffer[e]) = b
      /\ \A n \in 1 .. b : buffer[e][n] = text[n]
    <2>1. 1 \in 1 .. Len(text) + 1 /\ b \in 1 - 1 .. Len(text)
        BY <1>2
    <2>2. /\ SubSeq(text, 1, b) \in Seq(S)
          /\ Len(SubSeq(text, 1, b)) = b - 1 + 1
          /\ \A n \in 1 .. b - 1 + 1 : SubSeq(text, 1, b)[n] = text[1 + n - 1]
        BY <2>1, LengthOfPiece
    <2> QED BY <1>1, <1>2, <2>2
<1>4. Index(e) # 0
    BY DEF TakeLine
<1>5. Index(e) \in 1 .. b /\ text[Index(e)] = LF
    BY <1>3, <1>4, LineEnd
<1>6. Index(e) = Len(text) /\ b = Len(text)
    BY <1>2, <1>5
<1>7. a = Len(text) /\ r = Len(text)
    BY <1>1, <1>2, <1>6
<1>8. ready = <<>> /\ coming = <<>>
    BY <1>1, <1>2, <1>6, <1>7, SubSeqEmpty
<1>9. buffer[e] = text
    BY <1>1, <1>6, SubSeqFull
<1>10. buffer'[e] = SubSeq(text, Len(text) + 1, Len(text))
    <2>1. buffer'[e] = SubSeq(buffer[e], Index(e) + Len(Terminator(e)),
                              Len(buffer[e]))
        BY DEF TakeLine
    <2>2. Len(<<LF>>) = 1
        OBVIOUS
    <2> QED BY <1>6, <1>9, <2>1, <2>2
<1>11. buffer'[e] = <<>>
    BY <1>2, <1>10, SubSeqEmpty
<1> QED BY <1>6, <1>8, <1>9, <1>11 DEF Line

LEMMA Pair ==
    ASSUME NEW S, NEW a \in S, NEW b \in S
    PROVE  /\ <<a, b>> \in Seq(S) /\ Len(<<a, b>>) = 2
           /\ SubSeq(<<a, b>>, 1, 2 - 1) = <<a>>
<1>1. <<a, b>> \in Seq(S) /\ Len(<<a, b>>) = 2
    OBVIOUS
<1>2. <<a>> \in Seq(S) /\ Len(<<a>>) = 1 /\ <<a>>[1] = a
    OBVIOUS
<1> DEFINE t == <<a, b>>
<1>3. t \in Seq(S) /\ Len(t) = 2 /\ t[1] = a
    OBVIOUS
<1> HIDE DEF t
<1>4. 1 \in 1 .. Len(t) + 1 /\ 1 \in 1 - 1 .. Len(t) /\ 1 - 1 + 1 = 1
    BY <1>3
<1>5. /\ SubSeq(t, 1, 1) \in Seq(S)
      /\ Len(SubSeq(t, 1, 1)) = 1 - 1 + 1
      /\ \A n \in 1 .. 1 - 1 + 1 : SubSeq(t, 1, 1)[n] = t[1 + n - 1]
    BY <1>3, <1>4, LengthOfPiece
<1>6. SubSeq(t, 1, 1)[1] = a
    BY <1>3, <1>5
<1> DEFINE u == SubSeq(t, 1, 1)
           v == <<a>>
<1>7. u \in Seq(S) /\ v \in Seq(S) /\ Len(u) = Len(v)
      /\ \A n \in 1 .. Len(u) : u[n] = v[n]
    BY <1>2, <1>5, <1>6, SMTT(30)
<1> HIDE DEF u, v
<1>8. u = v
    BY <1>7, SeqEqual
<1> QED BY <1>1, <1>8 DEF u, v, t

LEMMA Triple ==
    ASSUME NEW S, NEW a \in S, NEW b \in S, NEW c \in S
    PROVE  /\ <<a, b, c>> \in Seq(S) /\ Len(<<a, b, c>>) = 3
           /\ SubSeq(<<a, b, c>>, 1, 3 - 1) = <<a, b>>
<1>1. <<a, b, c>> \in Seq(S) /\ Len(<<a, b, c>>) = 3
    OBVIOUS
<1> DEFINE t == <<a, b, c>>
           u == SubSeq(t, 1, 2)
           v == <<a, b>>
<1>2. v \in Seq(S) /\ Len(v) = 2 /\ v[1] = a /\ v[2] = b
    OBVIOUS
<1>3. t \in Seq(S) /\ Len(t) = 3 /\ t[1] = a /\ t[2] = b
    OBVIOUS
<1> HIDE DEF t
<1>4. 1 \in 1 .. Len(t) + 1 /\ 2 \in 1 - 1 .. Len(t) /\ 2 - 1 + 1 = 2
    BY <1>3
<1>5. /\ u \in Seq(S)
      /\ Len(u) = 2 - 1 + 1
      /\ \A n \in 1 .. 2 - 1 + 1 : u[n] = t[1 + n - 1]
    BY <1>3, <1>4, LengthOfPiece
<1> HIDE DEF u, v
<1>6. u[1] = t[1] /\ u[2] = t[2]
    BY <1>5
<1>7. u \in Seq(S) /\ v \in Seq(S) /\ Len(u) = Len(v)
      /\ \A n \in 1 .. Len(u) : u[n] = v[n]
    BY <1>2, <1>3, <1>5, <1>6
<1>8. u = v
    BY <1>7, SeqEqual
<1> QED BY <1>1, <1>8 DEF u, v, t

LEMMA DifferentWords ==
    /\ "HELO" # LF /\ "MAIL FROM:" # LF /\ Author # LF /\ "RCPT TO:" # LF
    /\ Recipient # LF /\ "DATA" # LF /\ "QUIT" # LF /\ "Something" # LF
    /\ "." # LF /\ "220" # LF /\ "221" # LF /\ "250" # LF /\ "354" # LF
    /\ "ehlo" # LF /\ "ehlo" # "HELO" /\ Author # "HELO"
BY DEF LF, Author, Recipient

LEMMA CommandLines ==
    /\ \A k \in {1, 2, 3, 4, 6} : IsLine(Said(k))
    /\ SubSeq(Said(1), 1, Len(Said(1)) - 1) = <<"HELO">>
    /\ SubSeq(Said(2), 1, Len(Said(2)) - 1) = <<"MAIL FROM:", Author>>
    /\ SubSeq(Said(3), 1, Len(Said(3)) - 1) = <<"RCPT TO:", Recipient>>
    /\ SubSeq(Said(4), 1, Len(Said(4)) - 1) = <<"DATA">>
    /\ SubSeq(Said(6), 1, Len(Said(6)) - 1) = <<"QUIT">>
<1>1. ASSUME NEW w \in Words, w # LF
      PROVE  /\ IsLine(<<w, LF>>)
             /\ SubSeq(<<w, LF>>, 1, Len(<<w, LF>>) - 1) = <<w>>
    <2>1. LF \in Words
        BY DEF Words
    <2>2. /\ <<w, LF>> \in Seq(Words) /\ Len(<<w, LF>>) = 2
          /\ SubSeq(<<w, LF>>, 1, 2 - 1) = <<w>>
        BY <2>1, Pair
    <2>3. <<w, LF>>[1] = w /\ <<w, LF>>[2] = LF /\ <<w, LF>> # <<>>
        OBVIOUS
    <2> QED BY <1>1, <2>2, <2>3 DEF IsLine
<1>2. ASSUME NEW v \in Words, NEW w \in Words, v # LF, w # LF
      PROVE  /\ IsLine(<<v, w, LF>>)
             /\ SubSeq(<<v, w, LF>>, 1, Len(<<v, w, LF>>) - 1) = <<v, w>>
    <2>1. LF \in Words
        BY DEF Words
    <2>2. /\ <<v, w, LF>> \in Seq(Words) /\ Len(<<v, w, LF>>) = 3
          /\ SubSeq(<<v, w, LF>>, 1, 3 - 1) = <<v, w>>
        BY <2>1, Triple
    <2>3. /\ <<v, w, LF>>[1] = v /\ <<v, w, LF>>[2] = w
          /\ <<v, w, LF>>[3] = LF /\ <<v, w, LF>> # <<>>
        OBVIOUS
    <2> QED BY <1>2, <2>2, <2>3 DEF IsLine
<1>3. {"HELO", "DATA", "QUIT", "MAIL FROM:", Author, "RCPT TO:", Recipient}
          \subseteq Words
    BY DEF Words
<1> HIDE DEF IsLine
<1>4. /\ Said(1) = <<"HELO", LF>>
      /\ Said(2) = <<"MAIL FROM:", Author, LF>>
      /\ Said(3) = <<"RCPT TO:", Recipient, LF>>
      /\ Said(4) = <<"DATA", LF>>
      /\ Said(6) = <<"QUIT", LF>>
    <2>1. Said(1) = <<"HELO", LF>>
        BY DEF Said
    <2>2. Said(2) = <<"MAIL FROM:", Author, LF>>
        BY DEF Said
    <2>3. Said(3) = <<"RCPT TO:", Recipient, LF>>
        BY DEF Said
    <2>4. Said(4) = <<"DATA", LF>>
        BY DEF Said
    <2>5. Said(6) = <<"QUIT", LF>>
        BY DEF Said
    <2> QED BY <2>1, <2>2, <2>3, <2>4, <2>5
<1>5. IsLine(Said(1)) /\ SubSeq(Said(1), 1, Len(Said(1)) - 1) = <<"HELO">>
    BY <1>1, <1>3, <1>4, DifferentWords
<1>6. IsLine(Said(4)) /\ SubSeq(Said(4), 1, Len(Said(4)) - 1) = <<"DATA">>
    BY <1>1, <1>3, <1>4, DifferentWords
<1>7. IsLine(Said(6)) /\ SubSeq(Said(6), 1, Len(Said(6)) - 1) = <<"QUIT">>
    BY <1>1, <1>3, <1>4, DifferentWords
<1>8. /\ IsLine(Said(2))
      /\ SubSeq(Said(2), 1, Len(Said(2)) - 1) = <<"MAIL FROM:", Author>>
    BY <1>2, <1>3, <1>4, DifferentWords
<1>9. /\ IsLine(Said(3))
      /\ SubSeq(Said(3), 1, Len(Said(3)) - 1) = <<"RCPT TO:", Recipient>>
    BY <1>2, <1>3, <1>4, DifferentWords
<1> QED BY <1>5, <1>6, <1>7, <1>8, <1>9

LEMMA ReplyLines ==
    ASSUME NEW w \in {"220", "221", "250", "354"}
    PROVE  /\ IsLine(<<w, LF>>)
           /\ SubSeq(<<w, LF>>, 1, Len(<<w, LF>>) - 1) = <<w>>
<1>1. LF \in Words /\ w \in Words /\ w # LF
    BY DifferentWords DEF Words
<1>2. /\ <<w, LF>> \in Seq(Words) /\ Len(<<w, LF>>) = 2
      /\ SubSeq(<<w, LF>>, 1, 2 - 1) = <<w>>
    BY <1>1, Pair
<1>3. <<w, LF>>[1] = w /\ <<w, LF>>[2] = LF /\ <<w, LF>> # <<>>
    OBVIOUS
<1> QED BY <1>1, <1>2, <1>3 DEF IsLine

LEMMA BodyText ==
    /\ Said(5) \in Seq(Words)
    /\ Len(Said(5)) = 5
    /\ Said(5)[1] = "Something" /\ Said(5)[2] = "." /\ Said(5)[3] = LF
    /\ Said(5)[4] = "." /\ Said(5)[5] = LF
    /\ Said(5) = Body \o <<LF, ".", LF>>
    /\ SubSeq(Said(5), 1, 2) = Body
<1> DEFINE t == <<"Something", ".", LF, ".", LF>>
           u == <<LF, ".", LF>>
           v == <<"Something", ".">>
<1>1. Said(5) = t /\ Body = v
    BY DEF Said, Body
<1>2. {"Something", ".", LF} \subseteq Words
    BY DEF Words
<1>3. /\ t \in Seq(Words) /\ Len(t) = 5
      /\ t[1] = "Something" /\ t[2] = "." /\ t[3] = LF /\ t[4] = "." /\ t[5] = LF
    BY <1>2
<1>4. u \in Seq(Words) /\ Len(u) = 3 /\ u[1] = LF /\ u[2] = "." /\ u[3] = LF
    BY <1>2
<1>5. v \in Seq(Words) /\ Len(v) = 2 /\ v[1] = "Something" /\ v[2] = "."
    BY <1>2
<1> HIDE DEF t, u, v
<1>6. t = v \o u
    <2> DEFINE w == v \o u
    <2>0. /\ w \in Seq(Words) /\ Len(w) = Len(v) + Len(u)
          /\ \A n \in 1 .. Len(v) + Len(u) :
                 w[n] = IF n <= Len(v) THEN v[n] ELSE u[n - Len(v)]
        BY <1>4, <1>5, ConcatProperties
    <2> HIDE DEF w
    <2>1. /\ w \in Seq(Words) /\ Len(w) = 5
          /\ \A n \in 1 .. 5 : w[n] = IF n <= 2 THEN v[n] ELSE u[n - 2]
        BY <1>4, <1>5, <2>0
    <2>2. w[1] = v[1] /\ w[2] = v[2] /\ w[3] = u[1] /\ w[4] = u[2] /\ w[5] = u[3]
        BY <2>1
    <2>3. w \in Seq(Words) /\ Len(w) = Len(t)
        BY <1>3, <2>1
    <2>4. \A n \in 1 .. Len(t) : t[n] = w[n]
        BY <1>3, <1>4, <1>5, <2>2
    <2>5. t = w
        BY <1>3, <2>3, <2>4, SeqEqual
    <2> QED BY <2>5 DEF w
<1>7. SubSeq(t, 1, 2) = v
    <2> DEFINE w == SubSeq(t, 1, 2)
    <2>1. t \in Seq(Words) /\ 1 \in 1 .. Len(t) + 1 /\ 2 \in 1 - 1 .. Len(t)
        BY <1>3
    <2>0. /\ SubSeq(t, 1, 2) \in Seq(Words)
          /\ Len(SubSeq(t, 1, 2)) = 2 - 1 + 1
          /\ \A n \in 1 .. 2 - 1 + 1 : SubSeq(t, 1, 2)[n] = t[1 + n - 1]
        BY <2>1, LengthOfPiece
    <2>2. /\ w \in Seq(Words) /\ Len(w) = 2
          /\ \A n \in 1 .. 2 : w[n] = t[1 + n - 1]
        BY <2>0
    <2> HIDE DEF w
    <2>3. w[1] = t[1] /\ w[2] = t[2]
        BY <2>2
    <2>4. Len(w) = Len(v) /\ \A n \in 1 .. Len(w) : w[n] = v[n]
        BY <1>3, <1>5, <2>2, <2>3
    <2>5. w = v
        BY <1>5, <2>2, <2>4, SeqEqual
    <2> QED BY <2>5 DEF w
<1> QED BY <1>1, <1>3, <1>6, <1>7 DEF u

LEMMA SaidType == \A k \in 1 .. 6 : Said(k) \in Seq(Words)
<1>1. \A k \in 1 .. 6 : k \in {1, 2, 3, 4, 6} \/ k = 5
    OBVIOUS
<1> QED BY <1>1, CommandLines, BodyText DEF IsLine

LEMMA DialogueSays ==
    ASSUME NEW c \in Clients, c \notin scenario.foreign
    PROVE  /\ Len(Dialogue(c)) = 6
           /\ \A k \in 1 .. 6 :
                 Dialogue(c)[k].say = Said(k) /\ Dialogue(c)[k].code = Wanted(k)
<1>1. /\ Said(1) = <<"HELO", LF>>
      /\ Said(2) = <<"MAIL FROM:", Author, LF>>
      /\ Said(3) = <<"RCPT TO:", Recipient, LF>>
      /\ Said(4) = <<"DATA", LF>>
      /\ Said(5) = Body \o <<LF, ".", LF>>
      /\ Said(6) = <<"QUIT", LF>>
    <2>1. Said(5) = Body \o <<LF, ".", LF>>
        BY BodyText
    <2> QED BY <2>1 DEF Said
<1>2. /\ Wanted(1) = "220" /\ Wanted(2) = "250" /\ Wanted(3) = "250"
      /\ Wanted(4) = "354" /\ Wanted(5) = "250" /\ Wanted(6) = "221"
    BY DEF Wanted
<1>3. Dialogue(c) =
          <<[say |-> Said(1), code |-> Wanted(1)],
            [say |-> Said(2), code |-> Wanted(2)],
            [say |-> Said(3), code |-> Wanted(3)],
            [say |-> Said(4), code |-> Wanted(4)],
            [say |-> Said(5), code |-> Wanted(5)],
            [say |-> Said(6), code |-> Wanted(6)]>>
    BY <1>1, <1>2 DEF Dialogue
<1>4. \A k \in 1 .. 6 : k \in {1, 2, 3, 4, 5, 6}
    OBVIOUS
<1> QED BY <1>3, <1>4

LEMMA FirstPart ==
    ASSUME NEW S, NEW text \in Seq(S), NEW b \in 0 .. Len(text)
    PROVE  /\ SubSeq(text, 1, b) \in Seq(S)
           /\ Len(SubSeq(text, 1, b)) = b
           /\ \A n \in 1 .. b : SubSeq(text, 1, b)[n] = text[n]
<1>1. 1 \in 1 .. Len(text) + 1 /\ b \in 1 - 1 .. Len(text)
    BY LenProperties
<1>2. /\ SubSeq(text, 1, b) \in Seq(S)
      /\ Len(SubSeq(text, 1, b)) = b - 1 + 1
      /\ \A n \in 1 .. b - 1 + 1 : SubSeq(text, 1, b)[n] = text[1 + n - 1]
    BY <1>1, LengthOfPiece
<1> QED BY <1>1, <1>2

LEMMA LineIsRead ==
    ASSUME NEW e, e \in DOMAIN buffer, NEW text, IsLine(text),
           NEW ready, NEW coming, NEW whole \in BOOLEAN,
           Flow(buffer[e], ready, coming, text, whole),
           Terminator(e) = <<LF>>, TakeLine(e)
    PROVE  /\ Line(e) = SubSeq(text, 1, Len(text) - 1)
           /\ buffer'[e] = <<>> /\ ready = <<>> /\ coming = <<>>
<1>1. /\ text \in Seq(Words) /\ LF \in Words /\ text # <<>>
      /\ \A i \in 1 .. Len(text) : text[i] = LF => i = Len(text)
    BY DEF IsLine, Words
<1> QED BY <1>1, LineIsText

LEMMA SecondPart ==
    ASSUME NEW S, NEW t \in Seq(S), NEW u \in Seq(S),
           NEW m \in Len(t) + 1 .. Len(t) + Len(u) + 1,
           NEW n \in m - 1 .. Len(t) + Len(u)
    PROVE  SubSeq(t \o u, m, n) = SubSeq(u, m - Len(t), n - Len(t))
<1>1. Len(t) \in Nat /\ Len(u) \in Nat
    BY LenProperties
<1>2. CASE n = m - 1
    <2>1. /\ m \in Int /\ n \in Int /\ n < m
          /\ m - Len(t) \in Int /\ n - Len(t) \in Int
          /\ n - Len(t) < m - Len(t)
        BY <1>1, <1>2
    <2> QED BY <2>1, SubSeqEmpty
<1>3. CASE m <= n
    <2>1. /\ m \in Len(t) + 1 .. Len(t) + Len(u)
          /\ n \in Len(t) + 1 .. Len(t) + Len(u)
        BY <1>1, <1>3
    <2> QED BY <2>1, SubSeqOfConcat2
<1> QED BY <1>1, <1>2, <1>3

\* The first of two texts is read, even if the second has arrived as well.
LEMMA FirstLineIsRead ==
    ASSUME NEW e, e \in DOMAIN buffer, NEW t, IsLine(t), NEW u \in Seq(Words),
           NEW ready, NEW coming, NEW whole \in BOOLEAN,
           Flow(buffer[e], ready, coming, t \o u, whole),
           Terminator(e) = <<LF>>, TakeLine(e)
    PROVE  /\ Line(e) = SubSeq(t, 1, Len(t) - 1)
           /\ Flow(buffer'[e], ready, coming, u, whole)
<1> DEFINE text == t \o u
           p == Len(t)
<1>1. /\ t \in Seq(Words) /\ p \in Nat /\ 1 <= p /\ t[p] = LF
      /\ \A i \in 1 .. p : t[i] = LF => i = p
      /\ Len(u) \in Nat
    BY LenProperties, EmptySeq DEF IsLine
<1>2. /\ text \in Seq(Words) /\ Len(text) = p + Len(u)
      /\ \A i \in 1 .. p : text[i] = t[i]
    <2>1. /\ text \in Seq(Words)
          /\ Len(text) = Len(t) + Len(u)
          /\ \A n \in 1 .. Len(t) + Len(u) :
                text[n] = IF n <= Len(t) THEN t[n] ELSE u[n - Len(t)]
        BY <1>1, ConcatProperties
    <2> HIDE DEF text
    <2> QED BY <1>1, <2>1
<1>3. \A m \in p + 1 .. p + Len(u) + 1 : \A n \in m - 1 .. p + Len(u) :
          SubSeq(text, m, n) = SubSeq(u, m - p, n - p)
    BY <1>1, SecondPart
<1>4. Flow(buffer[e], ready, coming, text, whole)
    OBVIOUS
<1> HIDE DEF text
<1>5. PICK b, a, r \in 0 .. Len(text) :
          /\ b <= a
          /\ a <= r
          /\ whole => r = Len(text)
          /\ buffer[e] = SubSeq(text, 1, b)
          /\ ready = SubSeq(text, b + 1, a)
          /\ coming = SubSeq(text, a + 1, r)
    BY <1>4 DEF Flow
<1>15. /\ buffer[e] \in Seq(Words)
       /\ Len(buffer[e]) = b
       /\ \A n \in 1 .. b : buffer[e][n] = text[n]
    BY <1>2, <1>5, FirstPart
<1>6. Index(e) # 0 /\ LF \in Words
    BY DEF TakeLine, Words
<1>7. /\ Index(e) \in 1 .. b
      /\ text[Index(e)] = LF
      /\ \A i \in 1 .. b : text[i] = LF => Index(e) <= i
    BY <1>6, <1>15, LineEnd
<1> HIDE DEF p
<1>9. b \in Nat /\ a \in Nat /\ r \in Nat
    BY <1>1, <1>2
<1>8. Index(e) = p /\ p <= b
    <2>1. ~ (Index(e) < p)
        <3> SUFFICES ASSUME Index(e) < p PROVE FALSE
            OBVIOUS
        <3>1. Index(e) \in 1 .. p
            BY <1>1, <1>7, <1>9
        <3>2. t[Index(e)] = LF
            BY <1>2, <1>7, <3>1
        <3>3. Index(e) = p
            BY <1>1, <3>1, <3>2
        <3> QED BY <1>1, <3>3
    <2>2. p \in 1 .. b
        BY <1>1, <1>7, <1>9, <2>1
    <2>3. p \in 1 .. p
        BY <1>1
    <2>4. text[p] = LF
        BY <1>1, <1>2, <2>3
    <2>5. Index(e) <= p
        BY <1>7, <2>2, <2>4
    <2> QED BY <1>1, <1>7, <1>9, <2>1, <2>2, <2>5
<1>10. Line(e) = SubSeq(t, 1, p - 1)
    <2>1. Line(e) = SubSeq(SubSeq(text, 1, b), 1, p - 1)
        BY <1>5, <1>8 DEF Line
    <2>2. /\ 1 \in 1 .. Len(text) + 1 /\ b \in 1 - 1 .. Len(text)
          /\ 1 \in Nat \ {0} /\ p - 1 \in 0 .. b - 1 + 1
        BY <1>1, <1>2, <1>8, <1>9
    <2>3. SubSeq(SubSeq(text, 1, b), 1, p - 1) =
              SubSeq(text, 1 + 1 - 1, 1 + (p - 1) - 1)
        BY <1>2, <2>2, PieceOfPiece
    <2>4. SubSeq(text, 1 + 1 - 1, 1 + (p - 1) - 1) = SubSeq(text, 1, p - 1)
        BY <1>1
    <2>5. SubSeq(text, 1, p - 1) = SubSeq(t, 1, p - 1)
        <3>1. CASE p = 1
            BY <3>1, SubSeqEmpty
        <3>2. CASE p # 1
            <4>1. 1 \in 1 .. p /\ p - 1 \in 1 .. p
                BY <1>1, <3>2
            <4> QED BY <1>1, <4>1, SubSeqOfConcat1 DEF text, p
        <3> QED BY <3>1, <3>2
    <2> QED BY <2>1, <2>3, <2>4, <2>5
<1>11. buffer'[e] = SubSeq(text, p + 1, b)
    <2>1. buffer'[e] = SubSeq(buffer[e], Index(e) + Len(Terminator(e)),
                              Len(buffer[e]))
        BY DEF TakeLine
    <2>2. Len(<<LF>>) = 1
        OBVIOUS
    <2>3. buffer'[e] = SubSeq(SubSeq(text, 1, b), p + 1, b)
        BY <1>5, <1>8, <1>15, <2>1, <2>2
    <2>4. /\ 1 \in 1 .. Len(text) + 1 /\ b \in 1 - 1 .. Len(text)
          /\ p + 1 \in Nat \ {0} /\ b \in 0 .. b - 1 + 1
        BY <1>1, <1>2, <1>9
    <2>5. SubSeq(SubSeq(text, 1, b), p + 1, b) =
              SubSeq(text, 1 + (p + 1) - 1, 1 + b - 1)
        <3>1. text \in Seq(Words)
            BY <1>2
        <3> QED BY <2>4, <3>1, PieceOfPiece, SMTT(30)
    <2>6. 1 + (p + 1) - 1 = p + 1 /\ 1 + b - 1 = b
        BY <1>1, <1>9
    <2> QED BY <2>3, <2>5, <2>6
<1>12. /\ SubSeq(text, p + 1, b) = SubSeq(u, 1, b - p)
       /\ SubSeq(text, b + 1, a) = SubSeq(u, (b - p) + 1, a - p)
       /\ SubSeq(text, a + 1, r) = SubSeq(u, (a - p) + 1, r - p)
    <2>1. SubSeq(text, p + 1, b) = SubSeq(u, p + 1 - p, b - p)
        <3>1. /\ p + 1 \in p + 1 .. p + Len(u) + 1
              /\ b \in p + 1 - 1 .. p + Len(u)
            BY <1>1, <1>2, <1>5, <1>8, <1>9
        <3> QED BY <1>1, <1>3, <1>9, <3>1
    <2>2. SubSeq(text, b + 1, a) = SubSeq(u, b + 1 - p, a - p)
        <3>1. /\ b + 1 \in p + 1 .. p + Len(u) + 1
              /\ a \in b + 1 - 1 .. p + Len(u)
            BY <1>1, <1>2, <1>5, <1>8, <1>9
        <3> QED BY <1>1, <1>3, <1>9, <3>1
    <2>3. SubSeq(text, a + 1, r) = SubSeq(u, a + 1 - p, r - p)
        <3>1. /\ a + 1 \in p + 1 .. p + Len(u) + 1
              /\ r \in a + 1 - 1 .. p + Len(u)
            BY <1>1, <1>2, <1>5, <1>8, <1>9
        <3> QED BY <1>1, <1>3, <1>9, <3>1
    <2>4. p + 1 - p = 1 /\ b + 1 - p = (b - p) + 1 /\ a + 1 - p = (a - p) + 1
        BY <1>1, <1>9
    <2> QED BY <2>1, <2>2, <2>3, <2>4
<1>13. /\ b - p \in 0 .. Len(u) /\ a - p \in 0 .. Len(u)
       /\ r - p \in 0 .. Len(u)
       /\ b - p <= a - p /\ a - p <= r - p
       /\ whole => r - p = Len(u)
    BY <1>1, <1>2, <1>5, <1>8, <1>9
<1>14. Flow(SubSeq(u, 1, b - p), SubSeq(u, (b - p) + 1, a - p),
            SubSeq(u, (a - p) + 1, r - p), u, whole)
    BY <1>13 DEF Flow
<1> QED BY <1>5, <1>10, <1>11, <1>12, <1>14 DEF p

\* A second text follows one that has arrived.
LEMMA TextFollows ==
    ASSUME NEW S, NEW t \in Seq(S), NEW u \in Seq(S), NEW read, NEW ready,
           Flow(read, ready, <<>>, t, TRUE)
    PROVE  Flow(read, ready, u, t \o u, TRUE)
<1> DEFINE v == t \o u
<1>1. Len(t) \in Nat /\ Len(u) \in Nat
    BY LenProperties
<1>2. v \in Seq(S) /\ Len(v) = Len(t) + Len(u)
    BY ConcatProperties
<1>3. PICK b \in 0 .. Len(t), a \in 0 .. Len(t), r \in 0 .. Len(t) :
          /\ b <= a
          /\ a <= r
          /\ r = Len(t)
          /\ read = SubSeq(t, 1, b)
          /\ ready = SubSeq(t, b + 1, a)
          /\ <<>> = SubSeq(t, a + 1, r)
    BY DEF Flow
<1>4. a = Len(t)
    <2>1. a + 1 \in 1 .. Len(t) + 1 /\ r \in a + 1 - 1 .. Len(t)
        BY <1>1, <1>3
    <2>2. Len(SubSeq(t, a + 1, r)) = r - (a + 1) + 1
        BY <2>1, LengthOfPiece
    <2>3. Len(<<>>) = 0
        OBVIOUS
    <2>4. r - (a + 1) + 1 = 0
        BY <1>3, <2>2, <2>3
    <2> QED BY <1>1, <1>3, <2>4
<1>5. \A m \in 1 .. Len(t) + 1 : \A n \in m - 1 .. Len(t) :
          SubSeq(v, m, n) = SubSeq(t, m, n)
    <2> SUFFICES ASSUME NEW m \in 1 .. Len(t) + 1, NEW n \in m - 1 .. Len(t)
                 PROVE  SubSeq(v, m, n) = SubSeq(t, m, n)
        OBVIOUS
    <2>1. CASE n = m - 1
        BY <1>1, <2>1, SubSeqEmpty
    <2>2. CASE m <= n
        <3>1. m \in 1 .. Len(t) /\ n \in 1 .. Len(t)
            BY <1>1, <2>2
        <3> QED BY <3>1, SubSeqOfConcat1
    <2> QED BY <1>1, <2>1, <2>2
<1>6. SubSeq(v, Len(t) + 1, Len(t) + Len(u)) = u
    <2>1. CASE Len(u) = 0
        <3>1. u = <<>>
            BY <2>1, EmptySeq
        <3>2. SubSeq(v, Len(t) + 1, Len(t) + 0) = <<>>
            BY <1>1, SubSeqEmpty
        <3> QED BY <2>1, <3>1, <3>2
    <2>2. CASE Len(u) # 0
        <3>1. /\ Len(t) + 1 \in Len(t) + 1 .. Len(t) + Len(u)
              /\ Len(t) + Len(u) \in Len(t) + 1 .. Len(t) + Len(u)
            BY <1>1, <2>2
        <3>2. SubSeq(v, Len(t) + 1, Len(t) + Len(u)) =
                  SubSeq(u, Len(t) + 1 - Len(t), Len(t) + Len(u) - Len(t))
            BY <3>1, SubSeqOfConcat2
        <3>3. Len(t) + 1 - Len(t) = 1 /\ Len(t) + Len(u) - Len(t) = Len(u)
            BY <1>1
        <3> QED BY <3>2, <3>3, SubSeqFull
    <2> QED BY <2>1, <2>2
<1> HIDE DEF v
<1>7. read = SubSeq(v, 1, b) /\ ready = SubSeq(v, b + 1, a)
    <2>1. 1 \in 1 .. Len(t) + 1 /\ b \in 1 - 1 .. Len(t)
          /\ b + 1 \in 1 .. Len(t) + 1 /\ a \in b + 1 - 1 .. Len(t)
        BY <1>1, <1>3
    <2> QED BY <1>3, <1>5, <2>1
<1>8. u = SubSeq(v, a + 1, Len(v))
    BY <1>2, <1>4, <1>6
<1>9. b \in 0 .. Len(v) /\ a \in 0 .. Len(v) /\ Len(v) \in 0 .. Len(v)
      /\ a <= Len(v) /\ b <= a
    BY <1>1, <1>2, <1>3
<1>10. Flow(read, ready, u, v, TRUE)
    BY <1>7, <1>8, <1>9 DEF Flow
<1> QED BY <1>10 DEF v

\* What has been read is a beginning of the text, and if it is all of it there is
\* no more.
LEMMA BeginningIsRead ==
    ASSUME NEW S, NEW text \in Seq(S), NEW read, NEW ready, NEW coming,
           NEW whole \in BOOLEAN, Flow(read, ready, coming, text, whole)
    PROVE  /\ read \in Seq(S)
           /\ Len(read) <= Len(text)
           /\ \A n \in 1 .. Len(read) : read[n] = text[n]
           /\ Len(read) = Len(text) =>
                 read = text /\ ready = <<>> /\ coming = <<>>
<1>1. PICK b, a, r \in 0 .. Len(text) :
          /\ b <= a
          /\ a <= r
          /\ read = SubSeq(text, 1, b)
          /\ ready = SubSeq(text, b + 1, a)
          /\ coming = SubSeq(text, a + 1, r)
    BY DEF Flow
<1>2. Len(text) \in Nat /\ b \in Nat /\ a \in Nat /\ r \in Nat
    BY LenProperties
<1>3. /\ read \in Seq(S)
      /\ Len(read) = b
      /\ \A n \in 1 .. b : read[n] = text[n]
    BY <1>1, FirstPart
<1>4. ASSUME b = Len(text)
      PROVE  read = text /\ ready = <<>> /\ coming = <<>>
    <2>1. a = Len(text) /\ r = Len(text)
        BY <1>1, <1>2, <1>4
    <2>2. read = text
        BY <1>1, <1>4, SubSeqFull
    <2>3. ready = <<>>
        BY <1>1, <1>2, <1>4, <2>1, SubSeqEmpty
    <2>4. coming = <<>>
        BY <1>1, <1>2, <2>1, SubSeqEmpty
    <2> QED BY <2>2, <2>3, <2>4
<1> QED BY <1>2, <1>3, <1>4

\* readMessage finds the end of the text that the client ends with, and not the
\* dot in the middle of it.
LEMMA BodyIsRead ==
    ASSUME NEW e, e \in DOMAIN buffer, NEW ready, NEW coming,
           NEW whole \in BOOLEAN,
           Flow(buffer[e], ready, coming, Said(5), whole),
           Terminator(e) = <<LF, ".", LF>>, TakeLine(e)
    PROVE  /\ Line(e) = Body
           /\ buffer'[e] = <<>> /\ ready = <<>> /\ coming = <<>>
<1> DEFINE text == Said(5)
           term == <<LF, ".", LF>>
           b == Len(buffer[e])
<1>1. /\ text \in Seq(Words) /\ Len(text) = 5
      /\ text[1] = "Something" /\ text[2] = "." /\ text[3] = LF
      /\ text[4] = "." /\ text[5] = LF
      /\ SubSeq(text, 1, 2) = Body
    BY BodyText
<1>2. /\ term \in Seq(Words) /\ Len(term) = 3
      /\ term[1] = LF /\ term[2] = "." /\ term[3] = LF
    <2>1. LF \in Words /\ "." \in Words
        BY DEF Words
    <2> QED BY <2>1
<1>3. Terminator(e) = term
    OBVIOUS
<1>4. /\ buffer[e] \in Seq(Words)
      /\ b <= 5
      /\ \A n \in 1 .. b : buffer[e][n] = text[n]
      /\ b = 5 => buffer[e] = text /\ ready = <<>> /\ coming = <<>>
    BY <1>1, BeginningIsRead, SMTT(30)
<1> HIDE DEF text, term
<1>5. b \in Nat
    BY <1>4, LenProperties
<1> HIDE DEF b
<1>6. Index(e) # 0
    BY DEF TakeLine
<1>7. /\ Index(e) \in 1 .. b
      /\ Index(e) + 2 <= b
      /\ \A j \in 1 .. 3 : text[Index(e) + j - 1] = term[j]
    <2>1. Terminator(e) \in Seq(Words) /\ Len(Terminator(e)) = 3
        BY <1>2, <1>3
    <2>2. /\ Index(e) \in 1 .. Len(buffer[e])
          /\ Index(e) + Len(Terminator(e)) - 1 <= Len(buffer[e])
          /\ \A j \in 1 .. Len(Terminator(e)) :
                buffer[e][Index(e) + j - 1] = Terminator(e)[j]
        <3>1. buffer[e] \in Seq(Words)
            BY <1>4
        <3> QED BY <1>6, <2>1, <3>1, IndexIsPlace, ZenonT(60)
    <2>3. /\ Index(e) \in 1 .. b
          /\ Index(e) + 3 - 1 <= b
          /\ \A j \in 1 .. 3 : buffer[e][Index(e) + j - 1] = term[j]
        BY <1>3, <2>1, <2>2 DEF b
    <2>4. \A j \in 1 .. 3 : Index(e) + j - 1 \in 1 .. b
        BY <1>5, <2>3
    <2>5. Index(e) + 2 <= b
        BY <1>5, <2>3
    <2> QED BY <1>4, <2>3, <2>4, <2>5
<1>8. Index(e) = 3 /\ b = 5
    <2>1. text[Index(e)] = LF
        BY <1>2, <1>7
    <2>2. Index(e) # 1 /\ Index(e) # 2
        BY <1>1, <2>1, DifferentWords
    <2> QED BY <1>4, <1>5, <1>7, <2>2
<1>9. buffer[e] = text /\ ready = <<>> /\ coming = <<>>
    BY <1>4, <1>8
<1>10. buffer'[e] = <<>>
    <2>1. buffer'[e] = SubSeq(buffer[e], Index(e) + Len(Terminator(e)),
                              Len(buffer[e]))
        BY DEF TakeLine
    <2>2. buffer'[e] = SubSeq(text, 6, 5)
        BY <1>1, <1>2, <1>3, <1>8, <1>9, <2>1
    <2> QED BY <2>2, SubSeqEmpty
<1>11. Line(e) = Body
    BY <1>1, <1>8, <1>9 DEF Line
<1> QED BY <1>9, <1>10, <1>11

-----------------------------------------------------------------------------
(***************************************************************************)
(* The ends, and what keeps a conversation as it is.                       *)
(***************************************************************************)
ThreadParts(c) == <<thread[c], message[c], Delivery!Kept(c)>>

LEMMA TheEnds ==
    ASSUME NEW c \in Clients
    PROVE  /\ ClientEnd(c) \in Ends /\ ServerEnd(c) \in Ends
           /\ Peer(ClientEnd(c)) = ServerEnd(c)
           /\ Peer(ServerEnd(c)) = ClientEnd(c)
           /\ ClientEnd(c)[1] = c /\ ClientEnd(c)[2] = "client"
           /\ ServerEnd(c)[1] = c /\ ServerEnd(c)[2] = "server"
           /\ \A d \in Clients :
                 /\ ClientEnd(c) # ServerEnd(d)
                 /\ d # c => /\ ClientEnd(c) # ClientEnd(d)
                             /\ ServerEnd(c) # ServerEnd(d)
BY DEF ClientEnd, ServerEnd, Ends, Peer

LEMMA OneOfTheEnds ==
    ASSUME NEW e \in Ends
    PROVE  \E c \in Clients : e = ClientEnd(c) \/ e = ServerEnd(c)
BY DEF ClientEnd, ServerEnd, Ends

\* The arrays are functions on the ends and on the clients.
LEMMA Arrays ==
    ASSUME Typed
    PROVE  /\ DOMAIN connected = Ends /\ DOMAIN sending = Ends
           /\ DOMAIN rest = Ends /\ DOMAIN arrived = Ends
           /\ DOMAIN buffer = Ends
           /\ DOMAIN client = Clients /\ DOMAIN step = Clients
           /\ DOMAIN told = Clients /\ DOMAIN thread = Clients
           /\ DOMAIN message = Clients
<1>1. DOMAIN rest = Ends
    BY DEF Typed
<1>2. DOMAIN arrived = Ends
    BY DEF Typed
<1>3. DOMAIN buffer = Ends
    BY DEF Typed
<1>4. DOMAIN message = Clients
    BY DEF Typed
<1> QED BY <1>1, <1>2, <1>3, <1>4 DEF Typed, TypeOK

LEMMA SameInbox ==
    ASSUME UNCHANGED inbox
    PROVE  \A c : Delivery!Kept(c)' = Delivery!Kept(c)
BY DEF Delivery!Kept

-----------------------------------------------------------------------------
(***************************************************************************)
(* What the sockets do to the texts.                                       *)
(***************************************************************************)
LEMMA Peers ==
    ASSUME NEW e \in Ends
    PROVE  /\ Peer(e) \in Ends /\ Peer(e) # e
           /\ \A f \in Ends : Peer(f) = Peer(e) => f = e
           /\ \A f \in Ends : Peer(f) = e => f = Peer(e)
BY DEF Ends, Peer

LEMMA TextArrives ==
    ASSUME Typed, NEW e \in Ends, Arrive(e), NEW f \in Ends,
           NEW text \in Seq(Words), NEW whole \in BOOLEAN, Text(f, text, whole)
    PROVE  Text(f, text, whole)'
<1>1. Flow(buffer[Peer(f)], arrived[Peer(f)], rest[f], text, whole)
    BY DEF Text
<1>2. PICK n \in 1 .. Len(rest[e]) :
          /\ arrived' = [arrived EXCEPT ![Peer(e)] = @ \o SubSeq(rest[e], 1, n)]
          /\ rest' = [rest EXCEPT ![e] = SubSeq(@, n + 1, Len(@))]
    BY DEF Arrive
<1>3. buffer' = buffer
    BY DEF Arrive
<1>4. CASE f = e
    <2>1. /\ arrived'[Peer(f)] = arrived[Peer(f)] \o SubSeq(rest[f], 1, n)
          /\ rest'[f] = SubSeq(rest[f], n + 1, Len(rest[f]))
        BY <1>2, <1>4, Arrays, Peers
    <2>2. Flow(buffer[Peer(f)], arrived[Peer(f)] \o SubSeq(rest[f], 1, n),
               SubSeq(rest[f], n + 1, Len(rest[f])), text, whole)
        BY <1>1, <1>2, <1>4, FlowArrives
    <2>3. Flow(buffer'[Peer(f)], arrived'[Peer(f)], rest'[f], text, whole)
        BY <1>3, <2>1, <2>2
    <2> QED BY <2>3 DEF Text, Peer
<1>5. CASE f # e
    <2>1. arrived'[Peer(f)] = arrived[Peer(f)] /\ rest'[f] = rest[f]
        BY <1>2, <1>5, Arrays, Peers
    <2>2. Flow(buffer'[Peer(f)], arrived'[Peer(f)], rest'[f], text, whole)
        BY <1>1, <1>3, <2>1
    <2> QED BY <2>2 DEF Text, Peer
<1> QED BY <1>4, <1>5

LEMMA TextIsGivenUp ==
    ASSUME Typed, NEW e \in Ends, GiveUp(e), NEW f \in Ends,
           NEW text \in Seq(Words), NEW whole \in BOOLEAN, Text(f, text, whole)
    PROVE  /\ Text(f, text, FALSE)'
           /\ f # e => Text(f, text, whole)'
<1>1. Flow(buffer[Peer(f)], arrived[Peer(f)], rest[f], text, whole)
    BY DEF Text
<1>2. buffer' = buffer /\ arrived' = arrived
      /\ rest' = [rest EXCEPT ![e] = <<>>]
    BY DEF GiveUp
<1>3. Flow(buffer[Peer(f)], arrived[Peer(f)], <<>>, text, FALSE)
    BY <1>1, FlowIsCut
<1>4. Flow(buffer[Peer(f)], arrived[Peer(f)], rest[f], text, FALSE)
    BY <1>1, FlowMayBeCut
<1>5. rest'[f] = IF f = e THEN <<>> ELSE rest[f]
    BY <1>2, Arrays
<1>6. /\ Flow(buffer'[Peer(f)], arrived'[Peer(f)], rest'[f], text, FALSE)
      /\ f # e => Flow(buffer'[Peer(f)], arrived'[Peer(f)], rest'[f], text,
                       whole)
    BY <1>1, <1>2, <1>3, <1>4, <1>5
<1> QED BY <1>6 DEF Text, Peer

LEMMA TextIsReceived ==
    ASSUME Typed, NEW e \in Ends, Receive(e), NEW f \in Ends,
           NEW text \in Seq(Words), NEW whole \in BOOLEAN, Text(f, text, whole)
    PROVE  Text(f, text, whole)'
<1>1. Flow(buffer[Peer(f)], arrived[Peer(f)], rest[f], text, whole)
    BY DEF Text
<1>2. /\ buffer' = [buffer EXCEPT ![e] = @ \o arrived[e]]
      /\ arrived' = [arrived EXCEPT ![e] = <<>>]
      /\ rest' = rest
    BY DEF Receive
<1>3. CASE Peer(f) = e
    <2>1. /\ buffer'[Peer(f)] = buffer[Peer(f)] \o arrived[Peer(f)]
          /\ arrived'[Peer(f)] = <<>>
        BY <1>2, <1>3, Arrays
    <2>2. Flow(buffer[Peer(f)] \o arrived[Peer(f)], <<>>, rest[f], text, whole)
        BY <1>1, FlowIsRead
    <2>3. Flow(buffer'[Peer(f)], arrived'[Peer(f)], rest'[f], text, whole)
        BY <1>2, <2>1, <2>2
    <2> QED BY <2>3 DEF Text, Peer
<1>4. CASE Peer(f) # e
    <2>1. arrived'[Peer(f)] = arrived[Peer(f)] /\ buffer'[Peer(f)] = buffer[Peer(f)]
        BY <1>2, <1>4, Arrays, Peers
    <2>2. Flow(buffer'[Peer(f)], arrived'[Peer(f)], rest'[f], text, whole)
        BY <1>1, <1>2, <2>1
    <2> QED BY <2>2 DEF Text, Peer
<1> QED BY <1>3, <1>4

LEMMA WordsTravel ==
    ASSUME Typed, NEW e \in Ends, Arrive(e) \/ GiveUp(e) \/ Receive(e),
           NEW f \in Ends, NEW W, WordsOf(f, W)
    PROVE  WordsOf(f, W)'
<1>1. /\ buffer[Peer(f)] \in Seq(W) /\ arrived[Peer(f)] \in Seq(W)
      /\ rest[f] \in Seq(W)
    BY DEF WordsOf
<1>2. CASE Arrive(e)
    <2>1. PICK n \in 1 .. Len(rest[e]) :
              /\ arrived' = [arrived EXCEPT ![Peer(e)] =
                                @ \o SubSeq(rest[e], 1, n)]
              /\ rest' = [rest EXCEPT ![e] = SubSeq(@, n + 1, Len(@))]
        BY <1>2 DEF Arrive
    <2>2. buffer' = buffer
        BY <1>2 DEF Arrive
    <2>3. CASE f = e
        <3>1. /\ arrived'[Peer(f)] = arrived[Peer(f)] \o SubSeq(rest[f], 1, n)
              /\ rest'[f] = SubSeq(rest[f], n + 1, Len(rest[f]))
            BY <2>1, <2>3, Arrays, Peers
        <3>2. /\ 1 \in 1 .. Len(rest[f]) + 1 /\ n \in 1 - 1 .. Len(rest[f])
              /\ n + 1 \in 1 .. Len(rest[f]) + 1
              /\ Len(rest[f]) \in n + 1 - 1 .. Len(rest[f])
            BY <1>1, <2>1, <2>3, LenProperties
        <3>3. /\ SubSeq(rest[f], 1, n) \in Seq(W)
              /\ SubSeq(rest[f], n + 1, Len(rest[f])) \in Seq(W)
            BY <1>1, <3>2, LengthOfPiece
        <3>4. arrived[Peer(f)] \o SubSeq(rest[f], 1, n) \in Seq(W)
            BY <1>1, <3>3, ConcatProperties
        <3> QED BY <1>1, <2>2, <3>1, <3>3, <3>4 DEF WordsOf, Peer
    <2>4. CASE f # e
        <3>1. arrived'[Peer(f)] = arrived[Peer(f)] /\ rest'[f] = rest[f]
            BY <2>1, <2>4, Arrays, Peers
        <3> QED BY <1>1, <2>2, <3>1 DEF WordsOf, Peer
    <2> QED BY <2>3, <2>4
<1>3. CASE GiveUp(e)
    <2>1. buffer' = buffer /\ arrived' = arrived
          /\ rest' = [rest EXCEPT ![e] = <<>>]
        BY <1>3 DEF GiveUp
    <2>2. rest'[f] = IF f = e THEN <<>> ELSE rest[f]
        BY <2>1, Arrays
    <2>3. <<>> \in Seq(W)
        OBVIOUS
    <2> QED BY <1>1, <2>1, <2>2, <2>3 DEF WordsOf, Peer
<1>4. CASE Receive(e)
    <2>1. /\ buffer' = [buffer EXCEPT ![e] = @ \o arrived[e]]
          /\ arrived' = [arrived EXCEPT ![e] = <<>>]
          /\ rest' = rest
        BY <1>4 DEF Receive
    <2>2. CASE Peer(f) = e
        <3>1. /\ buffer'[Peer(f)] = buffer[Peer(f)] \o arrived[Peer(f)]
              /\ arrived'[Peer(f)] = <<>>
            BY <2>1, <2>2, Arrays
        <3>2. <<>> \in Seq(W)
            OBVIOUS
        <3>3. buffer[Peer(f)] \o arrived[Peer(f)] \in Seq(W)
            BY <1>1, ConcatProperties
        <3> QED BY <1>1, <2>1, <3>1, <3>2, <3>3 DEF WordsOf, Peer
    <2>3. CASE Peer(f) # e
        <3>1. /\ arrived'[Peer(f)] = arrived[Peer(f)]
              /\ buffer'[Peer(f)] = buffer[Peer(f)]
            BY <2>1, <2>3, Arrays, Peers
        <3> QED BY <1>1, <2>1, <3>1 DEF WordsOf, Peer
    <2> QED BY <2>2, <2>3
<1> QED BY <1>2, <1>3, <1>4

-----------------------------------------------------------------------------
(***************************************************************************)
(* Conversations that go on as they were.                                  *)
(***************************************************************************)
LEMMA UnreadType ==
    ASSUME NEW m \in 0 .. 6, NEW k \in 0 .. 6,
           k \in {m, m + 1} \/ (m = 0 /\ k = 2)
    PROVE  Unread(k, m) \in Seq(Words)
<1>1. CASE k = m
    <2>1. <<>> \in Seq(Words)
        OBVIOUS
    <2> QED BY <1>1, <2>1 DEF Unread
<1>2. CASE k = m + 1
    BY <1>2, SaidType DEF Unread
<1>3. CASE k # m /\ k # m + 1
    <2>1. Said(1) \o Said(2) \in Seq(Words)
        <3>1. Said(1) \in Seq(Words) /\ Said(2) \in Seq(Words)
            BY SaidType
        <3> QED BY <3>1, ConcatProperties
    <2> QED BY <1>3, <2>1 DEF Unread
<1> QED BY <1>1, <1>2, <1>3

LEMMA WantedType == \A k : Wanted(k) \in {"220", "221", "250", "354"}
BY DEF Wanted

LEMMA AnsweredType == \A k, m : Answered(k, m) \in Seq(Words)
<1> SUFFICES ASSUME NEW k, NEW m PROVE Answered(k, m) \in Seq(Words)
    OBVIOUS
<1>1. <<"220", LF>> \in Seq(Words) /\ <<Wanted(k), LF>> \in Seq(Words)
    BY WantedType, ReplyLines DEF IsLine
<1>2. <<>> \in Seq(Words)
    OBVIOUS
<1> QED BY <1>1, <1>2 DEF Answered

LEMMA StageGoesOn ==
    ASSUME NEW c \in Clients, NEW m \in 0 .. 6, Stage(c, m),
           step[c] \in 0 .. 6, UNCHANGED <<step[c], ThreadParts(c)>>,
           NEW w \in BOOLEAN, client'[c] # "done" => w,
           \A text \in Seq(Words) :
               Text(ClientEnd(c), text, client[c] # "done") =>
                   Text(ClientEnd(c), text, w)',
           \A text \in Seq(Words) :
               Text(ServerEnd(c), text, FALSE) =>
                   Text(ServerEnd(c), text, FALSE)'
    PROVE  Stage(c, m)'
<1>1. step'[c] = step[c] /\ thread'[c] = thread[c] /\ message'[c] = message[c]
      /\ Delivery!Kept(c)' = Delivery!Kept(c)
    BY DEF ThreadParts
<1>2. Text(ClientEnd(c), Unread(step[c], m), w)'
    <2>1. Unread(step[c], m) \in Seq(Words)
        BY UnreadType DEF Stage
    <2> QED BY <2>1 DEF Stage
<1>3. Text(ClientEnd(c), Unread(step[c], m), client[c] # "done")'
    <2>1. Flow(buffer'[Peer(ClientEnd(c))], arrived'[Peer(ClientEnd(c))],
               rest'[ClientEnd(c)], Unread(step[c], m), w)
        BY <1>2 DEF Text
    <2>2. Flow(buffer'[Peer(ClientEnd(c))], arrived'[Peer(ClientEnd(c))],
               rest'[ClientEnd(c)], Unread(step'[c], m), client'[c] # "done")
        BY <1>1, <2>1, FlowMayBeCut
    <2> QED BY <2>2 DEF Text
<1>4. Text(ServerEnd(c), IF thread[c] = "none" THEN <<>>
                         ELSE Answered(step[c], m), FALSE)'
    <2> DEFINE text == IF thread[c] = "none" THEN <<>>
                       ELSE Answered(step[c], m)
    <2>1. text \in Seq(Words)
        <3>1. <<>> \in Seq(Words)
            OBVIOUS
        <3> QED BY <3>1, AnsweredType
    <2>2. Text(ServerEnd(c), text, FALSE)
        BY DEF Stage
    <2>3. text = IF thread'[c] = "none" THEN <<>> ELSE Answered(step'[c], m)
        BY <1>1
    <2> HIDE DEF text
    <2>4. Flow(buffer'[Peer(ServerEnd(c))], arrived'[Peer(ServerEnd(c))],
               rest'[ServerEnd(c)], text, FALSE)
        <3>1. \A t \in Seq(Words) :
                  Text(ServerEnd(c), t, FALSE) =>
                      Flow(buffer'[Peer(ServerEnd(c))],
                           arrived'[Peer(ServerEnd(c))], rest'[ServerEnd(c)],
                           t, FALSE)
            BY DEF Text
        <3> QED BY <2>1, <2>2, <3>1
    <2> QED BY <2>3, <2>4 DEF Text
<1> QED BY <1>1, <1>3, <1>4 DEF Stage

LEMMA StageIsReached ==
    ASSUME NEW c \in Clients, NEW m \in 0 .. 6,
           thread'[c] \in Places(m), message'[c] = Collected(m),
           Delivery!Kept(c)' <=> m >= 5,
           step'[c] \in {m, m + 1} \/ (m = 0 /\ step'[c] = 2),
           thread'[c] = "none" => step'[c] <= 1,
           Flow(buffer'[Peer(ClientEnd(c))], arrived'[Peer(ClientEnd(c))],
                rest'[ClientEnd(c)], Unread(step'[c], m), client'[c] # "done"),
           Flow(buffer'[Peer(ServerEnd(c))], arrived'[Peer(ServerEnd(c))],
                rest'[ServerEnd(c)],
                IF thread'[c] = "none" THEN <<>> ELSE Answered(step'[c], m),
                FALSE)
    PROVE  Stage(c, m)'
<1>1. Text(ClientEnd(c), Unread(step[c], m), client[c] # "done")'
    BY DEF Text
<1>2. Text(ServerEnd(c), IF thread[c] = "none" THEN <<>>
                         ELSE Answered(step[c], m), FALSE)'
    BY DEF Text
<1> QED BY <1>1, <1>2 DEF Stage

LEMMA TextStays ==
    ASSUME NEW f, UNCHANGED <<buffer[Peer(f)], arrived[Peer(f)], rest[f]>>
    PROVE  /\ \A text, whole : Text(f, text, whole) => Text(f, text, whole)'
           /\ \A W : WordsOf(f, W) => WordsOf(f, W)'
<1>1. /\ buffer'[Peer(f)] = buffer[Peer(f)]
      /\ arrived'[Peer(f)] = arrived[Peer(f)]
      /\ rest'[f] = rest[f]
    BY DEF Peer
<1>2. ASSUME NEW text, NEW whole, Text(f, text, whole)
      PROVE  Text(f, text, whole)'
    <2>1. Flow(buffer'[Peer(f)], arrived'[Peer(f)], rest'[f], text, whole)
        BY <1>1, <1>2 DEF Text
    <2> QED BY <2>1 DEF Text
<1>3. ASSUME NEW W, WordsOf(f, W)
      PROVE  WordsOf(f, W)'
    <2>1. {buffer'[Peer(f)], arrived'[Peer(f)], rest'[f]} \subseteq Seq(W)
        BY <1>1, <1>3 DEF WordsOf
    <2> QED BY <2>1 DEF WordsOf
<1> QED BY <1>2, <1>3

LEMMA RefusedGoesOn ==
    ASSUME NEW c \in Clients, Refused(c),
           UNCHANGED <<step[c], ThreadParts(c)>>,
           WordsOf(ClientEnd(c), ForeignWords) =>
               WordsOf(ClientEnd(c), ForeignWords)',
           WordsOf(ServerEnd(c), Refusals) =>
               WordsOf(ServerEnd(c), Refusals)'
    PROVE  Refused(c)'
<1>1. step'[c] = step[c] /\ thread'[c] = thread[c]
      /\ Delivery!Kept(c)' = Delivery!Kept(c)
    BY DEF ThreadParts
<1>2. /\ WordsOf(ClientEnd(c), ForeignWords)'
      /\ WordsOf(ServerEnd(c), Refusals)'
    BY DEF Refused
<1> QED BY <1>1, <1>2 DEF Refused

EndParts(e) == <<sending[e], rest[e], arrived[e], buffer[e]>>

\* The parts of a conversation that are read in Conversation.
LEMMA ConversationStays ==
    ASSUME Typed, NEW c \in Clients, Conversation(c),
           UNCHANGED <<scenario, step[c], ThreadParts(c)>>,
           client'[c] # "done" => client[c] # "done",
           UNCHANGED <<rest[ClientEnd(c)], arrived[ClientEnd(c)],
                       buffer[ClientEnd(c)]>>,
           UNCHANGED <<rest[ServerEnd(c)], arrived[ServerEnd(c)],
                       buffer[ServerEnd(c)]>>
    PROVE  Conversation(c)'
<1>1. /\ UNCHANGED <<buffer[Peer(ClientEnd(c))], arrived[Peer(ClientEnd(c))],
                     rest[ClientEnd(c)]>>
      /\ UNCHANGED <<buffer[Peer(ServerEnd(c))], arrived[Peer(ServerEnd(c))],
                     rest[ServerEnd(c)]>>
    BY TheEnds DEF ClientEnd, ServerEnd, Peer
<1>2. step[c] \in 0 .. 6
    BY DEF Typed, TypeOK
<1>3. CASE c \in scenario.foreign
    <2>1. Refused(c)
        BY <1>3 DEF Conversation
    <2>2. Refused(c)'
        BY <1>1, <2>1, TextStays, RefusedGoesOn
    <2> QED BY <1>3, <2>2 DEF Conversation
<1>4. CASE c \notin scenario.foreign
    <2>1. PICK m \in 0 .. 6 : Stage(c, m)
        BY <1>4 DEF Conversation
    <2>4. PICK w \in BOOLEAN : w = (client[c] # "done")
        OBVIOUS
    <2>2. /\ \A text \in Seq(Words) :
                 Text(ClientEnd(c), text, client[c] # "done") =>
                     Text(ClientEnd(c), text, w)'
          /\ \A text \in Seq(Words) :
                 Text(ServerEnd(c), text, FALSE) =>
                     Text(ServerEnd(c), text, FALSE)'
        BY <1>1, <2>4, TextStays
    <2>3. Stage(c, m)'
        BY <1>2, <2>1, <2>2, <2>4, StageGoesOn
    <2> QED BY <1>4, <2>3 DEF Conversation
<1> QED BY <1>3, <1>4

LEMMA SessionStays ==
    ASSUME NEW c \in Clients, Session(c),
           UNCHANGED <<client[c], step[c], told[c], ThreadParts(c)>>,
           UNCHANGED <<EndParts(ClientEnd(c)), EndParts(ServerEnd(c))>>
    PROVE  Session(c)'
BY DEF Session, ThreadParts, EndParts, ClientEnd, ServerEnd

LEMMA TalksOn ==
    ASSUME Typed, NEW c \in Clients, Talks(c),
           UNCHANGED <<scenario, client[c], step[c], told[c], ThreadParts(c)>>,
           UNCHANGED <<EndParts(ClientEnd(c)), EndParts(ServerEnd(c))>>
    PROVE  Talks(c)'
<1>1. Session(c)'
    BY SessionStays DEF Talks
<1>2. /\ UNCHANGED <<rest[ClientEnd(c)], arrived[ClientEnd(c)],
                     buffer[ClientEnd(c)]>>
      /\ UNCHANGED <<rest[ServerEnd(c)], arrived[ServerEnd(c)],
                     buffer[ServerEnd(c)]>>
    BY DEF EndParts, ClientEnd, ServerEnd
<1>3. Conversation(c)'
    BY <1>2, ConversationStays DEF Talks
<1> QED BY <1>1, <1>3 DEF Talks

-----------------------------------------------------------------------------
(***************************************************************************)
(* The sockets keep every conversation.                                    *)
(***************************************************************************)
LEMMA ArriveTalks ==
    ASSUME Typed, NEW e \in Ends, Arrive(e) \/ Receive(e),
           NEW c \in Clients, Talks(c)
    PROVE  Talks(c)'
<1>1. /\ UNCHANGED <<client, step, told, thread, message, inbox, sending,
                     scenario>>
    BY DEF Arrive, Receive, clientVars, threadVars
<1>2. UNCHANGED <<step[c], ThreadParts(c)>>
    BY <1>1, SameInbox DEF ThreadParts
<1>3. ClientEnd(c) \in Ends /\ ServerEnd(c) \in Ends
    BY TheEnds
<1>4. Session(c)'
    <2>1. Session(c) /\ Delivery!Kept(c)' = Delivery!Kept(c)
        BY <1>1, SameInbox DEF Talks
    <2>2. ASSUME NEW f \in Ends, ~ sending[f], rest[f] = <<>>
          PROVE  rest'[f] = <<>>
        <3>1. CASE Receive(e)
            BY <2>2, <3>1 DEF Receive
        <3>2. CASE Arrive(e)
            <4>1. PICK n \in 1 .. Len(rest[e]) :
                      rest' = [rest EXCEPT ![e] = SubSeq(@, n + 1, Len(@))]
                BY <3>2 DEF Arrive
            <4>2. CASE f = e
                <5>1. Len(<<>>) = 0
                    OBVIOUS
                <5>2. n \in 1 .. 0
                    BY <2>2, <4>1, <4>2, <5>1
                <5> QED BY <5>2
            <4>3. CASE f # e
                BY <2>2, <4>1, <4>3, Arrays
            <4> QED BY <4>2, <4>3
        <3> QED BY <3>1, <3>2
    <2>3. /\ ~ sending[ClientEnd(c)] => rest'[ClientEnd(c)] = <<>>
          /\ ~ sending[ServerEnd(c)] => rest'[ServerEnd(c)] = <<>>
        BY <1>3, <2>1, <2>2 DEF Session
    <2> QED BY <1>1, <2>1, <2>3 DEF Session, ClientEnd, ServerEnd
<1>5. CASE c \in scenario.foreign
    <2>1. Refused(c)
        BY <1>5 DEF Talks, Conversation
    <2>2. \A f \in Ends : \A W : WordsOf(f, W) => WordsOf(f, W)'
        BY WordsTravel
    <2>3. Refused(c)'
        BY <1>2, <1>3, <2>1, <2>2, RefusedGoesOn
    <2> QED BY <1>1, <1>4, <1>5, <2>3 DEF Talks, Conversation
<1>6. CASE c \notin scenario.foreign
    <2>1. PICK m \in 0 .. 6 : Stage(c, m)
        BY <1>6 DEF Talks, Conversation
    <2>2. \A f \in Ends, text \in Seq(Words), whole \in BOOLEAN :
              Text(f, text, whole) => Text(f, text, whole)'
        BY TextArrives, TextIsReceived
    <2>3. PICK w \in BOOLEAN : w = (client[c] # "done")
        OBVIOUS
    <2>4. client'[c] # "done" => w
        BY <1>1, <2>3
    <2>5. step[c] \in 0 .. 6
        BY DEF Typed, TypeOK
    <2>6. /\ \A text \in Seq(Words) :
                 Text(ClientEnd(c), text, client[c] # "done") =>
                     Text(ClientEnd(c), text, w)'
          /\ \A text \in Seq(Words) :
                 Text(ServerEnd(c), text, FALSE) =>
                     Text(ServerEnd(c), text, FALSE)'
        BY <1>3, <2>2, <2>3
    <2>7. Stage(c, m)'
        BY <1>2, <2>1, <2>4, <2>5, <2>6, StageGoesOn
    <2> QED BY <1>1, <1>4, <1>6, <2>7 DEF Talks, Conversation
<1> QED BY <1>5, <1>6

LEMMA SendReturnsTalks ==
    ASSUME Typed, NEW e \in Ends, SendReturns(e), NEW c \in Clients, Talks(c)
    PROVE  Talks(c)'
<1>1. /\ UNCHANGED <<client, step, told, thread, message, inbox, rest,
                     arrived, buffer, scenario>>
      /\ sending' = [sending EXCEPT ![e] = FALSE]
      /\ rest[e] = <<>>
    BY DEF SendReturns, clientVars, threadVars
<1>2. UNCHANGED <<step[c], ThreadParts(c)>>
    BY <1>1, SameInbox DEF ThreadParts
<1>3. ClientEnd(c) \in Ends /\ ServerEnd(c) \in Ends
    BY TheEnds
<1>4. \A f \in Ends : sending'[f] = IF f = e THEN FALSE ELSE sending[f]
    BY <1>1, Arrays
<1>5. Session(c)'
    <2>1. Session(c) /\ Delivery!Kept(c)' = Delivery!Kept(c)
        BY <1>1, SameInbox DEF Talks
    <2> QED BY <1>1, <1>3, <1>4, <2>1 DEF Session, ClientEnd, ServerEnd
<1>6. Conversation(c)'
    <2>1. Conversation(c)
        BY DEF Talks
    <2>2. /\ UNCHANGED <<rest[ClientEnd(c)], arrived[ClientEnd(c)],
                         buffer[ClientEnd(c)]>>
          /\ UNCHANGED <<rest[ServerEnd(c)], arrived[ServerEnd(c)],
                         buffer[ServerEnd(c)]>>
        BY <1>1 DEF ClientEnd, ServerEnd
    <2> QED BY <1>1, <1>2, <2>1, <2>2, ConversationStays
<1> QED BY <1>5, <1>6 DEF Talks

LEMMA GiveUpTalks ==
    ASSUME Typed, NEW e \in Ends, GiveUp(e), NEW c \in Clients, Talks(c)
    PROVE  Talks(c)'
<1>1. /\ UNCHANGED <<step, thread, message, inbox, scenario>>
      /\ sending' = [sending EXCEPT ![e] = FALSE]
      /\ rest' = [rest EXCEPT ![e] = <<>>]
      /\ sending[e]
    BY DEF GiveUp, threadVars
<1>2. UNCHANGED <<step[c], ThreadParts(c)>>
    BY <1>1, SameInbox DEF ThreadParts
<1>3. ClientEnd(c) \in Ends /\ ServerEnd(c) \in Ends
      /\ ClientEnd(c) # ServerEnd(c)
    BY TheEnds
<1>4. \A f \in Ends : /\ sending'[f] = IF f = e THEN FALSE ELSE sending[f]
                      /\ rest'[f] = IF f = e THEN <<>> ELSE rest[f]
    BY <1>1, Arrays
<1>5. /\ e = ClientEnd(c) => client'[c] = "done"
      /\ e # ClientEnd(c) => client'[c] = client[c] /\ told'[c] = told[c]
    <2>1. e = ClientEnd(c) <=> e[1] = c /\ e[2] = "client"
        BY DEF ClientEnd, Ends
    <2>2. CASE e[2] = "client"
        BY <2>1, <2>2, Arrays DEF GiveUp
    <2>3. CASE e[2] # "client"
        BY <2>1, <2>3 DEF GiveUp
    <2> QED BY <2>2, <2>3
<1>6. Session(c)'
    <2>1. Session(c) /\ Delivery!Kept(c)' = Delivery!Kept(c)
        BY <1>1, SameInbox DEF Talks
    <2>2. /\ \/ /\ e = ClientEnd(c)
                /\ ~ sending'[ClientEnd(c)] /\ rest'[ClientEnd(c)] = <<>>
             \/ /\ e # ClientEnd(c)
                /\ sending'[ClientEnd(c)] = sending[ClientEnd(c)]
                /\ rest'[ClientEnd(c)] = rest[ClientEnd(c)]
          /\ \/ ~ sending'[ServerEnd(c)] /\ rest'[ServerEnd(c)] = <<>>
             \/ /\ sending'[ServerEnd(c)] = sending[ServerEnd(c)]
                /\ rest'[ServerEnd(c)] = rest[ServerEnd(c)]
        BY <1>3, <1>4
    <2>3. step'[c] = step[c] /\ thread'[c] = thread[c]
        BY <1>1
    <2>4. CASE e = ClientEnd(c)
        <3>1. /\ client'[c] = "done"
              /\ ~ sending'[ClientEnd(c)] /\ rest'[ClientEnd(c)] = <<>>
            BY <1>5, <2>2, <2>4
        <3> QED BY <2>1, <2>2, <2>3, <3>1 DEF Session
    <2>5. CASE e # ClientEnd(c)
        <3>1. /\ client'[c] = client[c] /\ told'[c] = told[c]
              /\ sending'[ClientEnd(c)] = sending[ClientEnd(c)]
              /\ rest'[ClientEnd(c)] = rest[ClientEnd(c)]
            BY <1>5, <2>2, <2>5
        <3> QED BY <2>1, <2>2, <2>3, <3>1 DEF Session
    <2> QED BY <2>4, <2>5
<1>7. CASE c \in scenario.foreign
    <2>1. Refused(c)
        BY <1>7 DEF Talks, Conversation
    <2>2. \A f \in Ends : \A W : WordsOf(f, W) => WordsOf(f, W)'
        BY WordsTravel
    <2>3. Refused(c)'
        BY <1>2, <1>3, <2>1, <2>2, RefusedGoesOn
    <2> QED BY <1>1, <1>6, <1>7, <2>3 DEF Talks, Conversation
<1>8. CASE c \notin scenario.foreign
    <2>1. PICK m \in 0 .. 6 : Stage(c, m)
        BY <1>8 DEF Talks, Conversation
    <2>2. \A f \in Ends, text \in Seq(Words), whole \in BOOLEAN :
              Text(f, text, whole) => /\ Text(f, text, FALSE)'
                                      /\ f # e => Text(f, text, whole)'
        BY TextIsGivenUp
    <2>3. PICK w \in BOOLEAN : w = (e # ClientEnd(c) /\ client[c] # "done")
        OBVIOUS
    <2>4. client'[c] # "done" => w
        BY <1>5, <2>3
    <2>5. step[c] \in 0 .. 6
        BY DEF Typed, TypeOK
    <2>6. /\ \A text \in Seq(Words) :
                 Text(ClientEnd(c), text, client[c] # "done") =>
                     Text(ClientEnd(c), text, w)'
          /\ \A text \in Seq(Words) :
                 Text(ServerEnd(c), text, FALSE) =>
                     Text(ServerEnd(c), text, FALSE)'
        <3>1. PICK v \in BOOLEAN : v = (client[c] # "done")
            OBVIOUS
        <3>2. \A text \in Seq(Words) :
                  Text(ClientEnd(c), text, v) =>
                      /\ Text(ClientEnd(c), text, FALSE)'
                      /\ ClientEnd(c) # e => Text(ClientEnd(c), text, v)'
            BY <1>3, <2>2
        <3>3. w = FALSE \/ (w = v /\ ClientEnd(c) # e)
            BY <2>3, <3>1
        <3> QED BY <1>3, <2>2, <3>1, <3>2, <3>3
    <2>7. Stage(c, m)'
        BY <1>2, <2>1, <2>4, <2>5, <2>6, StageGoesOn
    <2> QED BY <1>1, <1>6, <1>8, <2>7 DEF Talks, Conversation
<1> QED BY <1>7, <1>8

-----------------------------------------------------------------------------
(***************************************************************************)
(* SMTPClient::send.                                                       *)
(***************************************************************************)
LEMMA ConnectTalks ==
    ASSUME Typed, NEW c \in Clients,
           Connect(c) \/ ConnectTimesOut(c) \/ Succeed(c),
           NEW d \in Clients, Talks(d)
    PROVE  Talks(d)'
<1>1. UNCHANGED <<step, thread, message, inbox, sending, rest, arrived, buffer,
                  scenario>>
    BY DEF Connect, ConnectTimesOut, Succeed, streamVars, threadVars
<1>2. UNCHANGED <<step[d], ThreadParts(d)>>
    BY <1>1, SameInbox DEF ThreadParts
<1>3. \/ client'[d] = client[d] /\ told'[d] = told[d]
      \/ client'[d] = "done" /\ client[d] \in {"connecting", "removing"}
      \/ client[d] = "ready" /\ client'[d] = "connecting" /\ told'[d] = told[d]
    <2>1. CASE Connect(c)
        BY <2>1, Arrays DEF Connect
    <2>2. CASE ConnectTimesOut(c)
        BY <2>2, Arrays DEF ConnectTimesOut
    <2>3. CASE Succeed(c)
        BY <2>3, Arrays DEF Succeed
    <2> QED BY <2>1, <2>2, <2>3
<1>4. Session(d)'
    <2>1. Session(d) /\ Delivery!Kept(d)' = Delivery!Kept(d)
        BY <1>1, SameInbox DEF Talks
    <2>2. /\ step'[d] = step[d] /\ thread'[d] = thread[d]
          /\ sending'[ClientEnd(d)] = sending[ClientEnd(d)]
          /\ rest'[ClientEnd(d)] = rest[ClientEnd(d)]
          /\ sending'[ServerEnd(d)] = sending[ServerEnd(d)]
          /\ rest'[ServerEnd(d)] = rest[ServerEnd(d)]
        BY <1>1
    <2> QED BY <1>3, <2>1, <2>2 DEF Session
<1>5. Conversation(d)'
    <2>1. Conversation(d)
        BY DEF Talks
    <2>2. /\ UNCHANGED <<rest[ClientEnd(d)], arrived[ClientEnd(d)],
                         buffer[ClientEnd(d)]>>
          /\ UNCHANGED <<rest[ServerEnd(d)], arrived[ServerEnd(d)],
                         buffer[ServerEnd(d)]>>
        BY <1>1 DEF ClientEnd, ServerEnd
    <2>3. client'[d] # "done" => client[d] # "done"
        BY <1>3
    <2> QED BY <1>1, <1>2, <2>1, <2>2, <2>3, ConversationStays
<1> QED BY <1>4, <1>5 DEF Talks

\* What a call of send leaves in the socket: the text, or nothing if the socket
\* is closed.
LEMMA SayEffect ==
    ASSUME Typed, NEW c \in Clients, NEW k, Say(c, k)
    PROVE  /\ \/ /\ sending'[ClientEnd(c)] = TRUE
                 /\ rest'[ClientEnd(c)] = Dialogue(c)[k].say
                 /\ step'[c] = k
                 /\ client'[c] = client[c] /\ told'[c] = told[c]
              \/ /\ client'[c] = "done"
                 /\ step'[c] = step[c]
                 /\ sending'[ClientEnd(c)] = sending[ClientEnd(c)]
                 /\ rest'[ClientEnd(c)] = rest[ClientEnd(c)]
           /\ \A f \in Ends : f # ClientEnd(c) =>
                 sending'[f] = sending[f] /\ rest'[f] = rest[f]
           /\ \A d \in Clients : d # c =>
                 /\ client'[d] = client[d] /\ told'[d] = told[d]
                 /\ step'[d] = step[d]
<1>1. ClientEnd(c) = <<c, "client">> /\ ClientEnd(c) \in Ends
    BY TheEnds DEF ClientEnd
<1>2. CASE connected[ClientEnd(c)]
    <2>1. /\ sending' = [sending EXCEPT ![ClientEnd(c)] = connected[ClientEnd(c)]]
          /\ rest' = [rest EXCEPT ![ClientEnd(c)] =
                         IF connected[ClientEnd(c)] THEN Dialogue(c)[k].say
                         ELSE <<>>]
          /\ step' = [step EXCEPT ![c] = k]
          /\ UNCHANGED <<client, told>>
        BY <1>1, <1>2 DEF Say, StartSend
    <2>2. connected[ClientEnd(c)] = TRUE
        BY <1>1, <1>2 DEF Typed, TypeOK
    <2> QED BY <1>1, <1>2, <2>1, <2>2, Arrays
<1>3. CASE ~ connected[ClientEnd(c)]
    <2>1. /\ client' = [client EXCEPT ![c] = "done"]
          /\ told' = [told EXCEPT ![c] = "failure"]
          /\ UNCHANGED <<step, sending, rest>>
        BY <1>1, <1>3 DEF Say
    <2> QED BY <1>1, <2>1, Arrays
<1> QED BY <1>2, <1>3

LEMMA StartTalks ==
    ASSUME Typed, NEW c \in Clients, Start(c), NEW d \in Clients, Talks(d)
    PROVE  Talks(d)'
<1>1. /\ client[c] = "talking" /\ step[c] = 0 /\ Say(c, 1)
      /\ UNCHANGED <<thread, message, inbox, arrived, buffer, scenario>>
    BY DEF Start, threadVars
<1>2. UNCHANGED ThreadParts(d) /\ Delivery!Kept(d)' = Delivery!Kept(d)
    BY <1>1, SameInbox DEF ThreadParts
<1>3. /\ \/ /\ sending'[ClientEnd(c)] = TRUE
            /\ rest'[ClientEnd(c)] = Dialogue(c)[1].say
            /\ step'[c] = 1
            /\ client'[c] = client[c] /\ told'[c] = told[c]
         \/ /\ client'[c] = "done"
            /\ step'[c] = step[c]
            /\ sending'[ClientEnd(c)] = sending[ClientEnd(c)]
            /\ rest'[ClientEnd(c)] = rest[ClientEnd(c)]
      /\ \A f \in Ends : f # ClientEnd(c) =>
            sending'[f] = sending[f] /\ rest'[f] = rest[f]
      /\ \A b \in Clients : b # c =>
            /\ client'[b] = client[b] /\ told'[b] = told[b]
            /\ step'[b] = step[b]
    BY <1>1, SayEffect
<1>4. CASE d # c
    <2>1. UNCHANGED <<EndParts(ClientEnd(d)), EndParts(ServerEnd(d))>>
        BY <1>1, <1>3, <1>4, TheEnds DEF EndParts, ClientEnd, ServerEnd
    <2> QED BY <1>1, <1>2, <1>3, <1>4, <2>1, TalksOn
<1>5. CASE d = c
    <2>1. /\ thread'[c] = thread[c] /\ message'[c] = message[c]
          /\ arrived' = arrived /\ buffer' = buffer
          /\ rest'[ServerEnd(c)] = rest[ServerEnd(c)]
          /\ sending'[ServerEnd(c)] = sending[ServerEnd(c)]
        BY <1>1, <1>3, TheEnds
    <2>2. Session(c) /\ Conversation(c)
        BY <1>5 DEF Talks
    <2>3. Session(c)'
        <3>1. CASE client'[c] = "done"
            <4>1. /\ sending'[ClientEnd(c)] = sending[ClientEnd(c)]
                  /\ rest'[ClientEnd(c)] = rest[ClientEnd(c)]
                BY <1>1, <1>3, <3>1
            <4>2. ~ sending[ClientEnd(c)] /\ rest[ClientEnd(c)] = <<>>
                BY <1>1, <2>2 DEF Session
            <4>3. sending[ServerEnd(c)] => thread[c] # "none"
                BY <2>2 DEF Session
            <4>4. ~ sending[ServerEnd(c)] => rest[ServerEnd(c)] = <<>>
                BY <2>2 DEF Session
            <4> QED BY <2>1, <3>1, <4>1, <4>2, <4>3, <4>4 DEF Session
        <3>2. CASE client'[c] # "done"
            <4>1. /\ sending'[ClientEnd(c)] = TRUE
                  /\ client'[c] = "talking" /\ told'[c] = told[c]
                  /\ step'[c] = 1
                BY <1>1, <1>3, <3>2
            <4>2. told[c] = "nothing"
                BY <1>1, <2>2 DEF Session
            <4>3. sending[ServerEnd(c)] => thread[c] # "none"
                BY <2>2 DEF Session
            <4>4. ~ sending[ServerEnd(c)] => rest[ServerEnd(c)] = <<>>
                BY <2>2 DEF Session
            <4> QED BY <2>1, <4>1, <4>2, <4>3, <4>4 DEF Session
        <3> QED BY <3>1, <3>2
    <2>4. CASE client'[c] = "done"
        <3>1. UNCHANGED <<step[c], rest[ClientEnd(c)]>>
            BY <1>1, <1>3, <2>4 DEF ClientEnd
        <3>2. /\ UNCHANGED <<rest[ClientEnd(c)], arrived[ClientEnd(c)],
                             buffer[ClientEnd(c)]>>
              /\ UNCHANGED <<rest[ServerEnd(c)], arrived[ServerEnd(c)],
                             buffer[ServerEnd(c)]>>
            BY <2>1, <3>1 DEF ClientEnd, ServerEnd
        <3>3. Conversation(c)'
            BY <1>1, <1>2, <1>5, <2>2, <2>4, <3>1, <3>2, ConversationStays
        <3> QED BY <1>5, <2>3, <3>3 DEF Talks
    <2>5. CASE client'[c] # "done"
        <3>1. /\ rest'[ClientEnd(c)] = Dialogue(c)[1].say
              /\ step'[c] = 1
              /\ client[c] # "done"
            BY <1>1, <1>3, <2>5
        <3>2. CASE c \in scenario.foreign
            <4>1. Refused(c)
                BY <2>2, <3>2 DEF Conversation
            <4>2. Dialogue(c)[1].say = <<"ehlo", LF>>
                BY <3>2 DEF Dialogue
            <4>3. <<"ehlo", LF>> \in Seq(ForeignWords)
                <5>1. "ehlo" \in ForeignWords /\ LF \in ForeignWords
                    BY DEF ForeignWords
                <5> QED BY <5>1
            <4>4. WordsOf(ClientEnd(c), ForeignWords)'
                BY <2>1, <3>1, <4>1, <4>2, <4>3 DEF WordsOf, Refused, Peer, ClientEnd
            <4>5. WordsOf(ServerEnd(c), Refusals)'
                BY <2>1, <4>1 DEF WordsOf, Refused, Peer, ServerEnd
            <4>6. Refused(c)'
                BY <1>2, <1>5, <2>1, <3>1, <4>1, <4>4, <4>5 DEF Refused
            <4> QED BY <1>1, <1>5, <2>3, <3>2, <4>6 DEF Talks, Conversation
        <3>3. CASE c \notin scenario.foreign
            <4>1. PICK m \in 0 .. 6 : Stage(c, m)
                BY <2>2, <3>3 DEF Conversation
            <4>2. m = 0
                BY <1>1, <4>1 DEF Stage
            <4>3. Flow(buffer'[Peer(ClientEnd(c))],
                       arrived'[Peer(ClientEnd(c))], rest'[ClientEnd(c)],
                       Unread(1, 0), TRUE)
                <5>1. Flow(buffer[Peer(ClientEnd(c))],
                           arrived[Peer(ClientEnd(c))], rest[ClientEnd(c)],
                           <<>>, client[c] # "done")
                    BY <1>1, <4>1, <4>2 DEF Stage, Text, Unread
                <5>2. /\ buffer[Peer(ClientEnd(c))] = <<>>
                      /\ arrived[Peer(ClientEnd(c))] = <<>>
                    BY <5>1, FlowOfNothing
                <5>3. Dialogue(c)[1].say = Said(1)
                    BY <3>3, DialogueSays
                <5>4. Flow(<<>>, <<>>, Said(1), Said(1), TRUE)
                    <6>1. Said(1) \in Seq(Words)
                        BY SaidType
                    <6> QED BY <6>1, FlowStarts
                <5>5. Unread(1, 0) = Said(1)
                    BY DEF Unread
                <5> QED BY <2>1, <3>1, <5>2, <5>3, <5>4, <5>5
            <4>4. Flow(buffer'[Peer(ServerEnd(c))],
                       arrived'[Peer(ServerEnd(c))], rest'[ServerEnd(c)],
                       IF thread'[c] = "none" THEN <<>> ELSE Answered(1, 0),
                       FALSE)
                <5>1. Flow(buffer[Peer(ServerEnd(c))],
                           arrived[Peer(ServerEnd(c))], rest[ServerEnd(c)],
                           IF thread[c] = "none" THEN <<>> ELSE Answered(0, 0),
                           FALSE)
                    BY <1>1, <4>1, <4>2 DEF Stage, Text
                <5>2. Answered(0, 0) = Answered(1, 0)
                    BY DEF Answered
                <5> QED BY <2>1, <5>1, <5>2
            <4>5. Stage(c, m)'
                <5>1. /\ thread'[c] \in Places(m)
                      /\ message'[c] = Collected(m)
                      /\ Delivery!Kept(c)' <=> m >= 5
                    BY <1>2, <1>5, <2>1, <4>1 DEF Stage
                <5>2. (client'[c] # "done") = TRUE
                    BY <2>5
                <5>3. Flow(buffer'[Peer(ClientEnd(c))],
                           arrived'[Peer(ClientEnd(c))], rest'[ClientEnd(c)],
                           Unread(step'[c], m), client'[c] # "done")
                    BY <3>1, <4>2, <4>3, <5>2
                <5>4. Flow(buffer'[Peer(ServerEnd(c))],
                           arrived'[Peer(ServerEnd(c))], rest'[ServerEnd(c)],
                           IF thread'[c] = "none" THEN <<>>
                           ELSE Answered(step'[c], m), FALSE)
                    BY <3>1, <4>2, <4>4
                <5>5. /\ step'[c] \in {m, m + 1} \/ (m = 0 /\ step'[c] = 2)
                      /\ thread'[c] = "none" => step'[c] <= 1
                    BY <3>1, <4>2
                <5> QED BY <5>1, <5>3, <5>4, <5>5, StageIsReached
            <4> QED BY <1>1, <1>5, <2>3, <3>3, <4>5 DEF Talks, Conversation
        <3> QED BY <3>2, <3>3
    <2> QED BY <2>4, <2>5
<1> QED BY <1>4, <1>5

LEMMA CheckEffect ==
    ASSUME Typed, NEW c \in Clients, Check(c)
    PROVE  /\ step[c] # 0 /\ client[c] = "talking" /\ ~ sending[ClientEnd(c)]
           /\ TakeLine(ClientEnd(c)) /\ Terminator(ClientEnd(c)) = <<LF>>
           /\ UNCHANGED <<thread, message, inbox, arrived, scenario>>
           /\ \/ /\ client'[c] = "done"
                 /\ step'[c] = step[c]
                 /\ sending'[ClientEnd(c)] = sending[ClientEnd(c)]
                 /\ rest'[ClientEnd(c)] = rest[ClientEnd(c)]
              \/ /\ StartsWith(ClientEnd(c), Dialogue(c)[step[c]].code)
                 /\ step[c] < Len(Dialogue(c))
                 /\ sending'[ClientEnd(c)] = TRUE
                 /\ rest'[ClientEnd(c)] = Dialogue(c)[step[c] + 1].say
                 /\ step'[c] = step[c] + 1
                 /\ client'[c] = client[c] /\ told'[c] = told[c]
              \/ /\ StartsWith(ClientEnd(c), Dialogue(c)[step[c]].code)
                 /\ ~ (step[c] < Len(Dialogue(c)))
                 /\ client'[c] = "removing"
                 /\ told'[c] = told[c] /\ step'[c] = step[c]
                 /\ sending'[ClientEnd(c)] = sending[ClientEnd(c)]
                 /\ rest'[ClientEnd(c)] = rest[ClientEnd(c)]
           /\ \A f \in Ends : f # ClientEnd(c) =>
                 /\ sending'[f] = sending[f] /\ rest'[f] = rest[f]
                 /\ buffer'[f] = buffer[f]
           /\ \A d \in Clients : d # c =>
                 /\ client'[d] = client[d] /\ told'[d] = told[d]
                 /\ step'[d] = step[d]
<1>1. ClientEnd(c) = <<c, "client">> /\ ClientEnd(c) \in Ends
      /\ ClientEnd(c)[1] = c /\ ClientEnd(c)[2] = "client"
    BY TheEnds DEF ClientEnd
<1>2. /\ step[c] # 0 /\ TakeLine(ClientEnd(c))
      /\ UNCHANGED <<thread, message, inbox, arrived, scenario>>
    BY <1>1 DEF Check, threadVars
<1>3. client[c] = "talking" /\ ~ sending[ClientEnd(c)]
    BY <1>1, <1>2 DEF TakeLine, Reads
<1>4. Terminator(ClientEnd(c)) = <<LF>>
    BY <1>1 DEF Terminator
<1>5. \A f \in Ends : f # ClientEnd(c) => buffer'[f] = buffer[f]
    BY <1>2, Arrays DEF TakeLine
<1>6. CASE ~ StartsWith(ClientEnd(c), Dialogue(c)[step[c]].code)
    <2>1. /\ client' = [client EXCEPT ![c] = "done"]
          /\ told' = [told EXCEPT ![c] = "failure"]
          /\ UNCHANGED <<step, sending, rest>>
        BY <1>1, <1>6 DEF Check
    <2> QED BY <1>1, <1>2, <1>3, <1>4, <1>5, <2>1, Arrays
<1>7. CASE /\ StartsWith(ClientEnd(c), Dialogue(c)[step[c]].code)
           /\ step[c] < Len(Dialogue(c))
    <2>1. Say(c, step[c] + 1)
        BY <1>1, <1>7 DEF Check
    <2> QED BY <1>2, <1>3, <1>4, <1>5, <1>7, <2>1, SayEffect, ZenonT(60)
<1>8. CASE /\ StartsWith(ClientEnd(c), Dialogue(c)[step[c]].code)
           /\ ~ (step[c] < Len(Dialogue(c)))
    <2>1. /\ client' = [client EXCEPT ![c] = "removing"]
          /\ UNCHANGED <<told, step, sending, rest>>
        BY <1>1, <1>8 DEF Check
    <2> QED BY <1>1, <1>2, <1>3, <1>4, <1>5, <1>8, <2>1, Arrays
<1> QED BY <1>6, <1>7, <1>8

LEMMA CheckStarts ==
    ASSUME Typed, NEW c \in Clients, Check(c)
    PROVE  /\ step[c] # 0 /\ client[c] = "talking" /\ ~ sending[ClientEnd(c)]
           /\ TakeLine(ClientEnd(c)) /\ Terminator(ClientEnd(c)) = <<LF>>
BY CheckEffect

LEMMA CheckLeaves ==
    ASSUME Typed, NEW c \in Clients, Check(c)
    PROVE  /\ thread' = thread /\ message' = message /\ arrived' = arrived
           /\ scenario' = scenario
           /\ \A d : Delivery!Kept(d)' = Delivery!Kept(d)
<1>1. UNCHANGED <<thread, message, inbox, arrived, scenario>>
    BY CheckEffect
<1> QED BY <1>1, SameInbox

LEMMA CheckFrame ==
    ASSUME Typed, NEW c \in Clients, Check(c)
    PROVE  /\ \A f \in Ends : f # ClientEnd(c) =>
                 /\ sending'[f] = sending[f] /\ rest'[f] = rest[f]
                 /\ buffer'[f] = buffer[f]
           /\ \A d \in Clients : d # c =>
                 /\ client'[d] = client[d] /\ told'[d] = told[d]
                 /\ step'[d] = step[d]
BY CheckEffect

LEMMA CheckAtServer ==
    ASSUME Typed, NEW c \in Clients, Check(c)
    PROVE  /\ sending'[ServerEnd(c)] = sending[ServerEnd(c)]
           /\ rest'[ServerEnd(c)] = rest[ServerEnd(c)]
           /\ buffer'[ServerEnd(c)] = buffer[ServerEnd(c)]
<1>1. ServerEnd(c) \in Ends /\ ServerEnd(c) # ClientEnd(c)
    BY TheEnds
<1> QED BY <1>1, CheckFrame

\* A line cannot be taken out of nothing.
LEMMA NoLine ==
    ASSUME NEW e, TakeLine(e)
    PROVE  buffer[e] # <<>>
<1> SUFFICES ASSUME buffer[e] = <<>> PROVE FALSE
    OBVIOUS
<1>1. DOMAIN buffer[e] = {}
    OBVIOUS
<1>2. Index(e) = 0
    BY <1>1 DEF Index
<1> QED BY <1>2 DEF TakeLine

LEMMA ReplyIsTaken ==
    ASSUME Typed, NEW c \in Clients, NEW m \in 0 .. 6, Stage(c, m),
           step[c] # 0, TakeLine(ClientEnd(c)),
           Terminator(ClientEnd(c)) = <<LF>>
    PROVE  /\ thread[c] # "none"
           /\ step[c] = 1 \/ step[c] = m
           /\ Line(ClientEnd(c)) = <<Wanted(step[c])>>
           /\ buffer'[ClientEnd(c)] = <<>>
           /\ arrived[ClientEnd(c)] = <<>>
           /\ rest[ServerEnd(c)] = <<>>
<1> DEFINE e == ClientEnd(c)
           text == IF thread[c] = "none" THEN <<>> ELSE Answered(step[c], m)
<1>1. Flow(buffer[e], arrived[e], rest[ServerEnd(c)], text, FALSE)
    BY TheEnds DEF Stage, Text
<1>2. text # <<>>
    <2> SUFFICES ASSUME text = <<>> PROVE FALSE
        OBVIOUS
    <2>1. buffer[e] = <<>>
        <3> HIDE DEF e, text
        <3> QED BY <1>1, FlowOfNothing
    <2> QED BY <2>1, NoLine
<1>3. step[c] \in 0 .. 6
    BY DEF Typed, TypeOK
<1>4. /\ thread[c] # "none"
      /\ text = <<Wanted(step[c]), LF>>
      /\ step[c] = 1 \/ step[c] = m
    BY <1>2, <1>3 DEF Answered, Wanted
<1>5. /\ IsLine(<<Wanted(step[c]), LF>>)
      /\ SubSeq(<<Wanted(step[c]), LF>>, 1, Len(<<Wanted(step[c]), LF>>) - 1) =
             <<Wanted(step[c])>>
    BY WantedType, ReplyLines
<1>6. IsLine(text) /\ SubSeq(text, 1, Len(text) - 1) = <<Wanted(step[c])>>
    BY <1>4, <1>5
<1>7. e \in DOMAIN buffer
    BY Arrays, TheEnds
<1> HIDE DEF e, text
<1>8. TakeLine(e) /\ Terminator(e) = <<LF>>
    BY DEF e
<1>9. /\ Line(e) = SubSeq(text, 1, Len(text) - 1)
      /\ buffer'[e] = <<>> /\ arrived[e] = <<>> /\ rest[ServerEnd(c)] = <<>>
    BY <1>1, <1>6, <1>7, <1>8, LineIsRead
<1> QED BY <1>4, <1>6, <1>9 DEF e

LEMMA CheckSession ==
    ASSUME Typed, NEW c \in Clients, Check(c), Session(c),
           client'[c] = "removing" => Delivery!Kept(c)
    PROVE  Session(c)'
<1>1. /\ step[c] # 0 /\ client[c] = "talking" /\ ~ sending[ClientEnd(c)]
      /\ UNCHANGED <<thread, inbox>>
      /\ \/ /\ client'[c] = "done"
            /\ sending'[ClientEnd(c)] = sending[ClientEnd(c)]
            /\ rest'[ClientEnd(c)] = rest[ClientEnd(c)]
         \/ /\ sending'[ClientEnd(c)] = TRUE
            /\ step'[c] = step[c] + 1
            /\ client'[c] = client[c] /\ told'[c] = told[c]
         \/ /\ client'[c] = "removing"
            /\ told'[c] = told[c]
            /\ sending'[ClientEnd(c)] = sending[ClientEnd(c)]
            /\ rest'[ClientEnd(c)] = rest[ClientEnd(c)]
    BY CheckEffect
<1>2. /\ sending'[ServerEnd(c)] = sending[ServerEnd(c)]
      /\ rest'[ServerEnd(c)] = rest[ServerEnd(c)]
    BY CheckAtServer
<1>3. /\ told[c] = "nothing"
      /\ rest[ClientEnd(c)] = <<>>
      /\ sending[ServerEnd(c)] => thread[c] # "none"
      /\ ~ sending[ServerEnd(c)] => rest[ServerEnd(c)] = <<>>
    BY <1>1 DEF Session
<1>4. thread'[c] = thread[c] /\ Delivery!Kept(c)' = Delivery!Kept(c)
    BY CheckLeaves
<1>5. step[c] + 1 # 0
    <2>1. step[c] \in 0 .. 6
        BY DEF Typed, TypeOK
    <2> QED BY <2>1
<1> QED BY <1>1, <1>2, <1>3, <1>4, <1>5 DEF Session

LEMMA CheckRefused ==
    ASSUME Typed, NEW c \in Clients, Check(c), c \in scenario.foreign,
           Refused(c)
    PROVE  Refused(c)' /\ client'[c] # "removing"
<1> DEFINE e == ClientEnd(c)
<1>1. step[c] \in {1, 2} /\ TakeLine(e) /\ Terminator(e) = <<LF>>
      /\ client[c] = "talking"
    <2>1. step[c] \in 0 .. 2
        BY DEF Refused
    <2> QED BY <2>1, CheckStarts
<1>2. Dialogue(c)[1].code = "220" /\ Dialogue(c)[2].code = "250"
      /\ Dialogue(c)[2].say = <<"MAIL FROM:", Author, LF>>
      /\ Len(Dialogue(c)) = 6
    BY DEF Dialogue
<1>3. buffer[e] \in Seq(Refusals) /\ arrived[e] \in Seq(Refusals)
      /\ rest[ServerEnd(c)] \in Seq(Refusals)
    BY TheEnds DEF Refused, WordsOf
<1>4. /\ Index(e) \in 1 .. Len(buffer[e])
      /\ Index(e) # 0
    <2>1. LF \in Refusals
        BY DEF Refusals
    <2> QED BY <1>1, <1>3, <2>1, LineEnd DEF TakeLine
<1>5. Line(e) \in Seq(Refusals) /\ buffer'[e] \in Seq(Refusals)
    <2>1. Len(buffer[e]) \in Nat
        BY <1>3, LenProperties
    <2>2. /\ 1 \in 1 .. Len(buffer[e]) + 1
          /\ Index(e) - 1 \in 1 - 1 .. Len(buffer[e])
          /\ Index(e) + 1 \in 1 .. Len(buffer[e]) + 1
          /\ Len(buffer[e]) \in Index(e) + 1 - 1 .. Len(buffer[e])
        BY <1>4, <2>1
    <2>3. /\ SubSeq(buffer[e], 1, Index(e) - 1) \in Seq(Refusals)
          /\ SubSeq(buffer[e], Index(e) + 1, Len(buffer[e])) \in Seq(Refusals)
        BY <1>3, <2>2, LengthOfPiece
    <2>4. Len(Terminator(e)) = 1
        BY <1>1
    <2>5. buffer'[e] = SubSeq(buffer[e], Index(e) + 1, Len(buffer[e]))
        BY <1>1, <2>4, Arrays, TheEnds DEF TakeLine
    <2> QED BY <2>3, <2>5 DEF Line
<1>6. ~ StartsWith(e, "250")
    <2>1. Line(e) # <<>> => Head(Line(e)) \in Refusals
        BY <1>5
    <2>2. "250" \notin Refusals
        BY DEF Refusals, LF
    <2> QED BY <2>1, <2>2 DEF StartsWith
<1> DEFINE mail == <<"MAIL FROM:", Author, LF>>
<1>12. /\ Dialogue(c)[2].code = "250" /\ Dialogue(c)[2].say = mail
       /\ Len(Dialogue(c)) = 6
    BY <1>2
<1> HIDE DEF mail
<1>7. \/ /\ step'[c] \in 0 .. 2 /\ client'[c] = "done"
         /\ rest'[e] = rest[e]
      \/ step'[c] = 2 /\ client'[c] = "talking" /\ rest'[e] = mail
    <2> DEFINE k == step[c]
    <2>1. \/ step'[c] = k /\ rest'[e] = rest[e] /\ client'[c] = "done"
          \/ /\ StartsWith(e, Dialogue(c)[k].code)
             /\ ~ (k < Len(Dialogue(c)))
          \/ /\ StartsWith(e, Dialogue(c)[k].code)
             /\ step'[c] = k + 1 /\ rest'[e] = Dialogue(c)[k + 1].say
             /\ client'[c] = client[c]
        BY CheckEffect
    <2>2. k = 1 \/ k = 2
        BY <1>1
    <2> HIDE DEF k, e
    <2>3. CASE k = 1
        <3>1. k + 1 = 2 /\ k < 6 /\ k \in 0 .. 2
            BY <2>3
        <3> QED BY <1>1, <1>12, <2>1, <3>1
    <2>4. CASE k = 2
        <3>1. k \in 0 .. 2
            BY <2>4
        <3> QED BY <1>6, <1>12, <2>1, <2>4, <3>1
    <2> QED BY <2>2, <2>3, <2>4
<1>8. /\ thread'[c] = thread[c] /\ Delivery!Kept(c)' = Delivery!Kept(c)
      /\ arrived' = arrived
      /\ buffer'[ServerEnd(c)] = buffer[ServerEnd(c)]
      /\ rest'[ServerEnd(c)] = rest[ServerEnd(c)]
    BY CheckLeaves, CheckAtServer
<1>9. WordsOf(e, ForeignWords)'
    <2>1. mail \in Seq(ForeignWords)
        <3>1. /\ "MAIL FROM:" \in ForeignWords /\ Author \in ForeignWords
              /\ LF \in ForeignWords
            BY DEF ForeignWords
        <3> QED BY <3>1, Triple DEF mail
    <2>2. /\ buffer[ServerEnd(c)] \in Seq(ForeignWords)
          /\ arrived[ServerEnd(c)] \in Seq(ForeignWords)
          /\ rest[e] \in Seq(ForeignWords)
        BY TheEnds DEF Refused, WordsOf
    <2>4. rest'[e] \in Seq(ForeignWords)
        BY <1>7, <2>1, <2>2
    <2>5. Peer(e) = ServerEnd(c)
        BY TheEnds
    <2>3. {buffer'[Peer(e)], arrived'[Peer(e)], rest'[e]} \subseteq
              Seq(ForeignWords)
        BY <1>8, <2>2, <2>4, <2>5
    <2> QED BY <2>3 DEF WordsOf
<1>10. WordsOf(ServerEnd(c), Refusals)'
    <2>1. {buffer'[Peer(ServerEnd(c))], arrived'[Peer(ServerEnd(c))],
           rest'[ServerEnd(c)]} \subseteq Seq(Refusals)
        BY <1>3, <1>5, <1>8, TheEnds
    <2> QED BY <2>1 DEF WordsOf
<1>11. step'[c] \in 0 .. 2 /\ client'[c] # "removing"
    BY <1>7
<1> QED BY <1>8, <1>9, <1>10, <1>11 DEF Refused

LEMMA CheckStage ==
    ASSUME Typed, NEW c \in Clients, Check(c), Session(c),
           c \notin scenario.foreign, NEW m \in 0 .. 6, Stage(c, m)
    PROVE  /\ Stage(c, m)'
           /\ client'[c] = "removing" => Delivery!Kept(c)
<1> DEFINE k == step[c]
           e == ClientEnd(c)
           s == ServerEnd(c)
<1>1. /\ k # 0 /\ client[c] = "talking" /\ ~ sending[e]
      /\ TakeLine(e) /\ Terminator(e) = <<LF>>
      /\ UNCHANGED <<thread, message, inbox, arrived, scenario>>
    <2>1. UNCHANGED <<thread, message, inbox, arrived, scenario>>
        BY CheckEffect
    <2> QED BY <2>1, CheckStarts
<1>2. /\ thread[c] # "none"
      /\ k = 1 \/ k = m
      /\ buffer'[e] = <<>> /\ arrived[e] = <<>> /\ rest[s] = <<>>
    BY <1>1, ReplyIsTaken
<1>3. /\ Peer(e) = s /\ Peer(s) = e
      /\ buffer'[s] = buffer[s] /\ rest'[s] = rest[s]
    BY CheckAtServer, TheEnds
<1>4. /\ thread'[c] = thread[c] /\ message'[c] = message[c]
      /\ arrived' = arrived /\ Delivery!Kept(c)' = Delivery!Kept(c)
    BY <1>1, SameInbox
<1>5. /\ thread'[c] \in Places(m) /\ message'[c] = Collected(m)
      /\ Delivery!Kept(c)' <=> m >= 5
    BY <1>4 DEF Stage
<1>6. k \in 1 .. 6 /\ k \in {m, m + 1}
    BY <1>1, <1>2 DEF Typed, TypeOK, Stage
<1>7. Flow(buffer[s], arrived[s], rest[e], Unread(k, m), TRUE)
    BY <1>1, <1>3 DEF Stage, Text
<1> HIDE DEF k, e, s
<1>8. Flow(buffer'[e], arrived'[e], rest'[s], <<>>, FALSE)
    BY <1>2, <1>3, <1>4, FlowOfNothing
<1>9. \A j : Flow(buffer'[e], arrived'[e], rest'[s], Answered(j, m), FALSE)
    BY <1>2, <1>3, <1>4, AnsweredType, FlowIsLost
<1>10. \/ step'[c] = k /\ rest'[e] = rest[e] /\ client'[c] = "done"
       \/ /\ step'[c] = k /\ rest'[e] = rest[e] /\ k = 6
          /\ client'[c] = "removing"
       \/ /\ step'[c] = k + 1 /\ rest'[e] = Said(k + 1) /\ k < 6
          /\ client'[c] = "talking"
    <2>1. Len(Dialogue(c)) = 6 /\ \A j \in 1 .. 6 : Dialogue(c)[j].say = Said(j)
        BY DialogueSays
    <2>2. k < 6 => k + 1 \in 1 .. 6
        BY <1>6
    <2>3. k < 6 => Dialogue(c)[k + 1].say = Said(k + 1)
        BY <2>1, <2>2
    <2>4. \/ step'[c] = k /\ rest'[e] = rest[e] /\ client'[c] = "done"
          \/ /\ step'[c] = k /\ rest'[e] = rest[e] /\ ~ (k < Len(Dialogue(c)))
             /\ client'[c] = "removing"
          \/ /\ step'[c] = k + 1 /\ rest'[e] = Dialogue(c)[k + 1].say
             /\ k < Len(Dialogue(c)) /\ client'[c] = client[c]
        BY CheckEffect DEF k, e
    <2>5. ~ (k < 6) => k = 6
        BY <1>6
    <2>6. Len(Dialogue(c)) = 6
        BY <2>1
    <2> QED BY <1>1, <2>3, <2>4, <2>5, <2>6
<1>11. /\ Flow(buffer'[s], arrived'[s], rest'[e], Unread(step'[c], m),
               client'[c] # "done")
       /\ step'[c] \in {m, m + 1} \/ (m = 0 /\ step'[c] = 2)
    <2>1. CASE step'[c] = k /\ rest'[e] = rest[e]
        <3>1. PICK w \in BOOLEAN : w = (client'[c] # "done")
            OBVIOUS
        <3>2. Flow(buffer[s], arrived[s], rest[e], Unread(k, m), w)
            BY <1>7, FlowMayBeCut
        <3> QED BY <1>3, <1>4, <1>6, <2>1, <3>1, <3>2
    <2>2. CASE step'[c] = k + 1 /\ rest'[e] = Said(k + 1) /\ k < 6
               /\ client'[c] = "talking"
        <3>1. Said(k + 1) \in Seq(Words)
            BY <1>6, <2>2, SaidType
        <3>2. (client'[c] # "done") = TRUE
            BY <2>2
        <3>3. CASE k = m
            <4>1. Unread(k, m) = <<>>
                BY <3>3 DEF Unread
            <4>2. buffer[s] = <<>> /\ arrived[s] = <<>>
                <5>1. Flow(buffer[s], arrived[s], rest[e], <<>>, TRUE)
                    BY <1>7, <4>1
                <5> QED BY <5>1, FlowOfNothing
            <4>3. Flow(<<>>, <<>>, Said(k + 1), Said(k + 1), TRUE)
                BY <3>1, FlowStarts
            <4>4. Unread(k + 1, m) = Said(k + 1)
                BY <1>6, <3>3 DEF Unread
            <4> QED BY <1>3, <1>4, <2>2, <3>2, <3>3, <4>2, <4>3, <4>4
        <3>4. CASE k # m
            <4>1. k = 1 /\ m = 0
                BY <1>2, <1>6, <3>4
            <4>2. rest[e] = <<>>
                BY <1>1 DEF Session, e
            <4>3. Unread(1, 0) = Said(1) /\ Unread(2, 0) = Said(1) \o Said(2)
                BY DEF Unread
            <4>4. Flow(buffer[s], arrived[s], <<>>, Said(1), TRUE)
                BY <1>7, <4>1, <4>2, <4>3
            <4>5. Said(1) \in Seq(Words) /\ Said(2) \in Seq(Words)
                BY SaidType
            <4>6. Flow(buffer[s], arrived[s], Said(2), Said(1) \o Said(2), TRUE)
                BY <4>4, <4>5, TextFollows
            <4>7. k + 1 = 2
                BY <4>1
            <4> QED BY <1>3, <1>4, <2>2, <3>2, <4>1, <4>3, <4>6, <4>7
        <3> QED BY <3>3, <3>4
    <2> QED BY <1>10, <2>1, <2>2
<1>12. Stage(c, m)'
    <2>1. Flow(buffer'[e], arrived'[e], rest'[s],
               IF thread'[c] = "none" THEN <<>> ELSE Answered(step'[c], m),
               FALSE)
        BY <1>8, <1>9
    <2>2. thread'[c] # "none"
        BY <1>2, <1>4
    <2> QED BY <1>3, <1>5, <1>11, <2>1, <2>2, StageIsReached DEF e, s
<1>13. client'[c] = "removing" => Delivery!Kept(c)
    <2>1. client'[c] = "removing" => k = 6
        BY <1>10
    <2>2. k = 6 => m >= 5
        BY <1>6
    <2> QED BY <2>1, <2>2 DEF Stage
<1> QED BY <1>12, <1>13

LEMMA CheckTalks ==
    ASSUME Typed, NEW c \in Clients, Check(c), NEW d \in Clients, Talks(d)
    PROVE  Talks(d)'
<1>1. CASE d # c
    <2>1. client'[d] = client[d] /\ told'[d] = told[d] /\ step'[d] = step[d]
        BY <1>1, CheckFrame
    <2>2. UNCHANGED <<EndParts(ClientEnd(d)), EndParts(ServerEnd(d))>>
        <3>1. /\ ClientEnd(d) \in Ends /\ ClientEnd(d) # ClientEnd(c)
              /\ ServerEnd(d) \in Ends /\ ServerEnd(d) # ClientEnd(c)
            BY <1>1, TheEnds
        <3>2. \A f \in {ClientEnd(d), ServerEnd(d)} :
                  /\ sending'[f] = sending[f] /\ rest'[f] = rest[f]
                  /\ buffer'[f] = buffer[f]
            BY <3>1, CheckFrame
        <3>3. arrived' = arrived
            BY CheckLeaves
        <3> QED BY <3>2, <3>3 DEF EndParts, ClientEnd, ServerEnd
    <2>3. UNCHANGED <<scenario, ThreadParts(d)>>
        BY CheckLeaves DEF ThreadParts
    <2> QED BY <2>1, <2>2, <2>3, TalksOn
<1>2. CASE d = c
    <2>1. Session(c) /\ Conversation(c) /\ scenario' = scenario
        BY <1>2, CheckLeaves DEF Talks
    <2>2. CASE c \in scenario.foreign
        <3>1. Refused(c)' /\ client'[c] # "removing"
            BY <2>1, <2>2, CheckRefused DEF Conversation
        <3> QED BY <1>2, <2>1, <2>2, <3>1, CheckSession DEF Talks, Conversation
    <2>3. CASE c \notin scenario.foreign
        <3>1. PICK m \in 0 .. 6 : Stage(c, m)
            BY <2>1, <2>3 DEF Conversation
        <3>2. Stage(c, m)' /\ (client'[c] = "removing" => Delivery!Kept(c))
            BY <2>1, <2>3, <3>1, CheckStage
        <3> QED BY <1>2, <2>1, <2>3, <3>2, CheckSession DEF Talks, Conversation
    <2> QED BY <2>2, <2>3
<1> QED BY <1>1, <1>2

-----------------------------------------------------------------------------
(***************************************************************************)
(* SMTPServerThread::run.                                                  *)
(***************************************************************************)
LEMMA ReplyEffect ==
    ASSUME Typed, NEW c \in Clients, NEW code, Reply(c, code)
    PROVE  /\ \/ sending'[ServerEnd(c)] /\ rest'[ServerEnd(c)] = <<code, LF>>
              \/ ~ sending'[ServerEnd(c)] /\ rest'[ServerEnd(c)] = <<>>
           /\ \A f \in Ends : f # ServerEnd(c) =>
                 sending'[f] = sending[f] /\ rest'[f] = rest[f]
<1>1. ServerEnd(c) = <<c, "server">> /\ ServerEnd(c) \in Ends
    BY TheEnds DEF ServerEnd
<1>2. /\ sending' = [sending EXCEPT ![ServerEnd(c)] = connected[ServerEnd(c)]]
      /\ rest' = [rest EXCEPT ![ServerEnd(c)] =
                     IF connected[ServerEnd(c)] THEN <<code, LF>> ELSE <<>>]
    BY <1>1 DEF Reply, StartSend
<1> QED BY <1>1, <1>2, Arrays

\* What a thread does when it has read a line or a text.
Reading(c) == Hello(c) \/ Command(c) \/ ReadMessage(c)

LEMMA ReadingStarts ==
    ASSUME NEW c \in Clients, Reading(c)
    PROVE  /\ TakeLine(ServerEnd(c)) /\ ~ sending[ServerEnd(c)]
           /\ thread[c] # "none"
<1>1. TakeLine(ServerEnd(c)) /\ thread[c] # "none"
    BY DEF Reading, Hello, Command, ReadMessage, ServerEnd
<1> QED BY <1>1 DEF TakeLine, Reads

LEMMA ReadingLeaves ==
    ASSUME NEW c \in Clients, Reading(c)
    PROVE  /\ client' = client /\ step' = step /\ told' = told
           /\ arrived' = arrived /\ scenario' = scenario
BY DEF Reading, Hello, Command, ReadMessage, clientVars

LEMMA ReadingReplies ==
    ASSUME Typed, NEW c \in Clients, Reading(c)
    PROVE  (\E code : Reply(c, code)) \/ UNCHANGED <<sending, rest>>
<1>1. CASE Hello(c)
    BY <1>1 DEF Hello
<1>2. CASE Command(c)
    BY <1>2 DEF Command
<1>3. CASE ReadMessage(c)
    BY <1>3 DEF ReadMessage
<1> QED BY <1>1, <1>2, <1>3 DEF Reading

LEMMA ReadingFrame ==
    ASSUME Typed, NEW c \in Clients, Reading(c)
    PROVE  /\ \A f \in Ends : f # ServerEnd(c) =>
                 /\ sending'[f] = sending[f] /\ rest'[f] = rest[f]
                 /\ buffer'[f] = buffer[f]
           /\ \/ sending'[ServerEnd(c)]
              \/ rest'[ServerEnd(c)] = <<>>
              \/ rest'[ServerEnd(c)] = rest[ServerEnd(c)]
<1>1. \A f \in Ends : f # ServerEnd(c) => buffer'[f] = buffer[f]
    BY ReadingStarts, Arrays DEF TakeLine
<1>2. CASE \E code : Reply(c, code)
    BY <1>1, <1>2, ReplyEffect
<1>3. CASE UNCHANGED <<sending, rest>>
    BY <1>1, <1>3
<1> QED BY <1>2, <1>3, ReadingReplies

LEMMA ReadingThread ==
    ASSUME Typed, NEW c \in Clients, Reading(c)
    PROVE  /\ thread'[c] # "none"
           /\ \A d \in Clients : d # c => UNCHANGED ThreadParts(d)
<1>1. /\ thread'[c] # "none"
      /\ \A d \in Clients : d # c =>
            thread'[d] = thread[d] /\ message'[d] = message[d]
    <2>1. CASE Hello(c)
        BY <2>1, Arrays DEF Hello
    <2>2. CASE Command(c)
        <3>1. thread' = [thread EXCEPT ![c] = AfterLine(<<c, "server">>)]
            BY <2>2 DEF Command
        <3>2. AfterLine(<<c, "server">>) # "none"
            BY DEF AfterLine
        <3>3. \A d \in Clients : d # c => message'[d] = message[d]
            BY <2>2, Arrays DEF Command
        <3> QED BY <3>1, <3>2, <3>3, Arrays
    <2>3. CASE ReadMessage(c)
        BY <2>3, Arrays DEF ReadMessage
    <2> QED BY <2>1, <2>2, <2>3 DEF Reading
<1>2. ASSUME NEW d \in Clients, d # c
      PROVE  Delivery!Kept(d)' = Delivery!Kept(d)
    <2>1. CASE UNCHANGED inbox
        BY <2>1, SameInbox
    <2>2. CASE \E letter : inbox' = Append(inbox, [sender |-> c,
                                                  letter |-> letter])
        <3>1. PICK letter : inbox' = Append(inbox, [sender |-> c,
                                                    letter |-> letter])
            BY <2>2
        <3>2. inbox \in Seq(Entries)
            BY DEF Typed
        <3>3. Len(inbox) \in Nat
            BY <3>2, LenProperties
        <3>4. \A i \in DOMAIN inbox : inbox[i].sender = d => \E j \in DOMAIN inbox' : inbox'[j].sender = d
            BY <3>1, <3>2, <3>3, AppendProperties
        <3>5. \A i \in DOMAIN inbox' : inbox'[i].sender = d => \E j \in DOMAIN inbox : inbox[j].sender = d
            BY <1>2, <3>1, <3>2, <3>3, AppendProperties
        <3> QED BY <3>4, <3>5 DEF Delivery!Kept
    <2>3. UNCHANGED inbox \/ \E letter :
              inbox' = Append(inbox, [sender |-> c, letter |-> letter])
        BY DEF Reading, Hello, Command, ReadMessage
    <2> QED BY <2>1, <2>2, <2>3
<1> QED BY <1>1, <1>2 DEF ThreadParts

LEMMA ReadingSession ==
    ASSUME Typed, NEW c \in Clients, Reading(c), Session(c),
           Delivery!Kept(c) => Delivery!Kept(c)'
    PROVE  Session(c)'
<1>1. /\ client'[c] = client[c] /\ step'[c] = step[c] /\ told'[c] = told[c]
    BY ReadingLeaves
<1>2. /\ sending'[ClientEnd(c)] = sending[ClientEnd(c)]
      /\ rest'[ClientEnd(c)] = rest[ClientEnd(c)]
    <2>1. ClientEnd(c) \in Ends /\ ClientEnd(c) # ServerEnd(c)
        BY TheEnds
    <2> QED BY <2>1, ReadingFrame
<1>3. sending'[ServerEnd(c)] \/ rest'[ServerEnd(c)] = <<>>
    <2>1. rest[ServerEnd(c)] = <<>>
        BY ReadingStarts DEF Session
    <2> QED BY <2>1, ReadingFrame
<1>4. thread[c] # "none" /\ thread'[c] # "none"
    BY ReadingStarts, ReadingThread
<1>5. client[c] \notin {"ready", "connecting"}
    BY <1>4 DEF Session
<1> QED BY <1>1, <1>2, <1>3, <1>4, <1>5 DEF Session

\* The line of a command is all of the next text that has not been read.
LEMMA CommandIsRead ==
    ASSUME Typed, NEW c \in Clients, NEW m \in 0 .. 6, Stage(c, m),
           TakeLine(ServerEnd(c)), Terminator(ServerEnd(c)) = <<LF>>,
           m \in {0, 1, 2, 3, 5}
    PROVE  /\ step[c] = m + 1 \/ (m = 0 /\ step[c] = 2)
           /\ Line(ServerEnd(c)) = SubSeq(Said(m + 1), 1, Len(Said(m + 1)) - 1)
           /\ Flow(buffer'[ServerEnd(c)], arrived[ServerEnd(c)],
                   rest[ClientEnd(c)], Unread(step[c], m + 1),
                   client[c] # "done")
<1> DEFINE k == step[c]
           e == ServerEnd(c)
           f == ClientEnd(c)
<1>1. PICK w \in BOOLEAN : w = (client[c] # "done")
    OBVIOUS
<1>2. Flow(buffer[e], arrived[e], rest[f], Unread(k, m), w)
    BY <1>1, TheEnds DEF Stage, Text
<1>3. k \in {m, m + 1} \/ (m = 0 /\ k = 2)
    BY DEF Stage
<1>4. TakeLine(e) /\ Terminator(e) = <<LF>> /\ e \in DOMAIN buffer
    BY Arrays, TheEnds
<1>5. m + 1 \in {1, 2, 3, 4, 6}
    OBVIOUS
<1>6. IsLine(Said(m + 1))
    BY <1>5, CommandLines
<1> HIDE DEF e, f, k
<1>7. k # m
    <2> SUFFICES ASSUME k = m PROVE FALSE
        OBVIOUS
    <2>1. Flow(buffer[e], arrived[e], rest[f], <<>>, w)
        BY <1>2 DEF Unread
    <2> QED BY <1>4, <2>1, FlowOfNothing, NoLine
<1>8. CASE k = m + 1
    <2>1. Unread(k, m) = Said(m + 1) /\ Unread(k, m + 1) = <<>>
        BY <1>7, <1>8 DEF Unread
    <2> DEFINE text == Said(m + 1)
    <2>2. IsLine(text)
        BY <1>6
    <2>3. Flow(buffer[e], arrived[e], rest[f], text, w)
        BY <1>2, <2>1
    <2> HIDE DEF text
    <2>4. /\ Line(e) = SubSeq(text, 1, Len(text) - 1)
          /\ buffer'[e] = <<>> /\ arrived[e] = <<>> /\ rest[f] = <<>>
        BY <1>4, <2>2, <2>3, LineIsRead
    <2>5. Flow(buffer'[e], arrived[e], rest[f], <<>>, w)
        BY <2>4, FlowOfNothing
    <2> QED BY <1>1, <1>8, <2>1, <2>4, <2>5 DEF e, f, k, text
<1>9. CASE k # m + 1
    <2>1. m = 0 /\ k = 2
        BY <1>3, <1>7, <1>9
    <2>2. Unread(k, m) = Said(1) \o Said(2) /\ Unread(k, m + 1) = Said(2)
        BY <2>1 DEF Unread
    <2>3. Flow(buffer[e], arrived[e], rest[f], Said(1) \o Said(2), w)
        BY <1>2, <2>2
    <2>4. IsLine(Said(1)) /\ Said(2) \in Seq(Words)
        BY <1>6, <2>1, SaidType
    <2>5. /\ Line(e) = SubSeq(Said(1), 1, Len(Said(1)) - 1)
          /\ Flow(buffer'[e], arrived[e], rest[f], Said(2), w)
        BY <1>4, <2>3, <2>4, FirstLineIsRead
    <2>6. m + 1 = 1
        BY <2>1
    <2> QED BY <1>1, <2>1, <2>2, <2>5, <2>6 DEF e, f, k
<1> QED BY <1>8, <1>9

LEMMA NextReply ==
    ASSUME NEW m \in 1 .. 5, NEW read, NEW ready, NEW coming,
           Flow(read, ready, coming, Answered(m + 1, m), FALSE)
    PROVE  /\ Flow(read, ready, <<Wanted(m + 1), LF>>, Answered(m + 1, m + 1),
                   FALSE)
           /\ Flow(read, ready, <<>>, Answered(m + 1, m + 1), FALSE)
<1>1. Answered(m + 1, m) = <<>>
    BY DEF Answered
<1>2. Flow(read, ready, coming, <<>>, FALSE)
    BY <1>1
<1>3. read = <<>> /\ ready = <<>>
    BY <1>2, FlowOfNothing
<1> DEFINE text == Answered(m + 1, m + 1)
<1>4. text = <<Wanted(m + 1), LF>>
    BY DEF Answered
<1>5. text \in Seq(Words)
    BY AnsweredType
<1> HIDE DEF text
<1>6. Flow(<<>>, <<>>, text, text, FALSE) /\ Flow(<<>>, <<>>, <<>>, text, FALSE)
    BY <1>5, FlowStarts, FlowIsLost
<1>7. Flow(read, ready, text, text, FALSE) /\ Flow(read, ready, <<>>, text, FALSE)
    BY <1>3, <1>6
<1> QED BY <1>4, <1>7 DEF text

\* The thread has read one text more.
LEMMA NextStage ==
    ASSUME Typed, NEW c \in Clients, NEW m \in 0 .. 5, Stage(c, m), Reading(c),
           step[c] = m + 1 \/ (m = 0 /\ step[c] = 2),
           Flow(buffer'[ServerEnd(c)], arrived[ServerEnd(c)],
                rest[ClientEnd(c)], Unread(step[c], m + 1),
                client[c] # "done"),
           \/ m = 0 /\ rest'[ServerEnd(c)] = rest[ServerEnd(c)]
           \/ /\ m # 0
              /\ \/ rest'[ServerEnd(c)] = <<Wanted(m + 1), LF>>
                 \/ rest'[ServerEnd(c)] = <<>>,
           thread'[c] \in Places(m + 1),
           message'[c] = Collected(m + 1),
           Delivery!Kept(c)' <=> m + 1 >= 5
    PROVE  Stage(c, m + 1)'
<1> DEFINE k == step[c]
           e == ServerEnd(c)
           f == ClientEnd(c)
<1>1. /\ e \in Ends /\ f \in Ends /\ f # e
      /\ Peer(e) = f /\ Peer(f) = e
    BY TheEnds
<1>2. /\ buffer'[f] = buffer[f] /\ rest'[f] = rest[f]
    BY <1>1, ReadingFrame
<1>3. /\ client' = client /\ step'[c] = k /\ arrived' = arrived
    BY ReadingLeaves
<1>4. thread[c] # "none" /\ thread'[c] # "none"
    BY ReadingStarts, ReadingThread
<1>5. Flow(buffer[f], arrived[f], rest[e], Answered(k, m), FALSE)
    BY <1>1, <1>4 DEF Stage, Text
<1>6. Flow(buffer'[e], arrived[e], rest[f], Unread(k, m + 1),
           client[c] # "done")
    OBVIOUS
<1>7. k = m + 1 \/ (m = 0 /\ k = 2)
    OBVIOUS
<1>8. \/ m = 0 /\ rest'[e] = rest[e]
      \/ m # 0 /\ (rest'[e] = <<Wanted(m + 1), LF>> \/ rest'[e] = <<>>)
    OBVIOUS
<1> HIDE DEF e, f, k
<1>9. Flow(buffer'[f], arrived'[f], rest'[e], Answered(k, m + 1), FALSE)
    <2>1. CASE m = 0
        <3>1. Answered(k, m) = Answered(k, m + 1)
            BY <1>7, <2>1 DEF Answered, Wanted
        <3>2. rest'[e] = rest[e]
            BY <1>8, <2>1
        <3> QED BY <1>2, <1>3, <1>5, <3>1, <3>2
    <2>2. CASE m # 0
        <3>1. k = m + 1 /\ m \in 1 .. 5
            BY <1>7, <2>2
        <3>2. rest'[e] = <<Wanted(m + 1), LF>> \/ rest'[e] = <<>>
            BY <1>8, <2>2
        <3>3. Flow(buffer[f], arrived[f], rest[e], Answered(m + 1, m), FALSE)
            BY <1>5, <3>1
        <3>4. Flow(buffer[f], arrived[f], rest'[e], Answered(m + 1, m + 1),
                   FALSE)
            BY <3>1, <3>2, <3>3, NextReply
        <3> QED BY <1>2, <1>3, <3>1, <3>4
    <2> QED BY <2>1, <2>2
<1>10. Flow(buffer'[e], arrived'[e], rest'[f], Unread(step'[c], m + 1),
            client'[c] # "done")
    BY <1>2, <1>3, <1>6
<1>11. Flow(buffer'[f], arrived'[f], rest'[e],
            IF thread'[c] = "none" THEN <<>> ELSE Answered(step'[c], m + 1),
            FALSE)
    BY <1>3, <1>4, <1>9
<1>12. m + 1 \in 0 .. 6
    OBVIOUS
<1>13. /\ step'[c] \in {m + 1, m + 1 + 1} \/ (m + 1 = 0 /\ step'[c] = 2)
       /\ thread'[c] = "none" => step'[c] <= 1
    BY <1>3, <1>4, <1>7
<1> QED BY <1>1, <1>10, <1>11, <1>12, <1>13, StageIsReached DEF e, f

LEMMA HelloRefused ==
    ASSUME Typed, NEW c \in Clients, Hello(c), Refused(c)
    PROVE  Refused(c)'
<1> DEFINE e == ServerEnd(c)
           f == ClientEnd(c)
<1>1. Reading(c) /\ thread[c] = "hello" /\ e = <<c, "server">>
    BY DEF Reading, Hello, ServerEnd
<1>2. TakeLine(e) /\ Terminator(e) = <<LF>>
    BY <1>1, ReadingStarts DEF Terminator
<1>3. /\ buffer[e] \in Seq(ForeignWords) /\ arrived[e] \in Seq(ForeignWords)
      /\ rest[f] \in Seq(ForeignWords)
    BY TheEnds DEF Refused, WordsOf
<1>4. /\ buffer[f] \in Seq(Refusals) /\ arrived[f] \in Seq(Refusals)
      /\ rest[e] \in Seq(Refusals)
    BY TheEnds DEF Refused, WordsOf
<1>5. Index(e) \in 1 .. Len(buffer[e])
    <2>1. LF \in ForeignWords
        BY DEF ForeignWords
    <2> QED BY <1>2, <1>3, <2>1, LineEnd DEF TakeLine
<1>6. Line(e) \in Seq(ForeignWords) /\ buffer'[e] \in Seq(ForeignWords)
    <2>1. Len(buffer[e]) \in Nat
        BY <1>3, LenProperties
    <2>2. /\ 1 \in 1 .. Len(buffer[e]) + 1
          /\ Index(e) - 1 \in 1 - 1 .. Len(buffer[e])
          /\ Index(e) + 1 \in 1 .. Len(buffer[e]) + 1
          /\ Len(buffer[e]) \in Index(e) + 1 - 1 .. Len(buffer[e])
        BY <1>5, <2>1
    <2>3. /\ SubSeq(buffer[e], 1, Index(e) - 1) \in Seq(ForeignWords)
          /\ SubSeq(buffer[e], Index(e) + 1, Len(buffer[e])) \in
                 Seq(ForeignWords)
        BY <1>3, <2>2, LengthOfPiece
    <2>4. Len(Terminator(e)) = 1
        BY <1>2
    <2>5. buffer'[e] = SubSeq(buffer[e], Index(e) + 1, Len(buffer[e]))
        BY <1>2, <2>4, Arrays, TheEnds DEF TakeLine
    <2> QED BY <2>3, <2>5 DEF Line
<1>7. ~ StartsWith(e, "HELO")
    <2>1. Line(e) # <<>> => Head(Line(e)) \in ForeignWords
        BY <1>6
    <2>2. "HELO" \notin ForeignWords
        BY DifferentWords DEF ForeignWords
    <2> QED BY <2>1, <2>2 DEF StartsWith
<1>8. thread'[c] = "removing" /\ Reply(c, "221")
    BY <1>1, <1>7, Arrays DEF Hello
<1>9. /\ rest'[f] = rest[f] /\ buffer'[f] = buffer[f] /\ arrived' = arrived
      /\ step'[c] = step[c] /\ Delivery!Kept(c)' = Delivery!Kept(c)
    <2>1. f \in Ends /\ f # e
        BY TheEnds
    <2>2. inbox' = inbox
        BY DEF Hello
    <2> QED BY <1>1, <2>1, <2>2, ReadingFrame, ReadingLeaves, SameInbox
<1>10. rest'[e] \in Seq(Refusals)
    <2> DEFINE reply == <<"221", LF>>
    <2>1. "221" \in Refusals /\ LF \in Refusals
        BY DEF Refusals
    <2>2. reply \in Seq(Refusals) /\ <<>> \in Seq(Refusals)
        BY <2>1, Pair
    <2>3. rest'[e] = reply \/ rest'[e] = <<>>
        BY <1>8, ReplyEffect
    <2> HIDE DEF reply
    <2> QED BY <2>2, <2>3
<1>11. Peer(e) = f /\ Peer(f) = e
    BY TheEnds
<1> HIDE DEF e, f
<1>12. /\ {buffer'[Peer(f)], arrived'[Peer(f)], rest'[f]} \subseteq
              Seq(ForeignWords)
       /\ {buffer'[Peer(e)], arrived'[Peer(e)], rest'[e]} \subseteq
              Seq(Refusals)
    BY <1>3, <1>4, <1>6, <1>9, <1>10, <1>11
<1>13. WordsOf(f, ForeignWords)' /\ WordsOf(e, Refusals)'
    BY <1>12 DEF WordsOf
<1> QED BY <1>8, <1>9, <1>13 DEF Refused, e, f

LEMMA HelloStage ==
    ASSUME Typed, NEW c \in Clients, Hello(c), NEW m \in 0 .. 6, Stage(c, m)
    PROVE  m = 0 /\ Stage(c, 1)'
<1> DEFINE e == ServerEnd(c)
<1>1. Reading(c) /\ thread[c] = "hello" /\ e = <<c, "server">>
      /\ inbox' = inbox /\ message' = message
    BY DEF Reading, Hello, ServerEnd
<1>2. TakeLine(e) /\ Terminator(e) = <<LF>>
    BY <1>1, ReadingStarts DEF Terminator
<1>3. m = 0
    BY <1>1 DEF Stage, Places
<1>4. /\ step[c] = m + 1 \/ (m = 0 /\ step[c] = 2)
      /\ Line(e) = SubSeq(Said(m + 1), 1, Len(Said(m + 1)) - 1)
      /\ Flow(buffer'[e], arrived[e], rest[ClientEnd(c)],
              Unread(step[c], m + 1), client[c] # "done")
    BY <1>2, <1>3, CommandIsRead
<1>5. Line(e) = <<"HELO">>
    <2>1. m + 1 = 1
        BY <1>3
    <2> QED BY <1>4, <2>1, CommandLines
<1>6. StartsWith(e, "HELO")
    BY <1>5 DEF StartsWith
<1>7. thread'[c] = "command" /\ rest' = rest
    BY <1>1, <1>6, Arrays DEF Hello
<1>8. Delivery!Kept(c)' = Delivery!Kept(c)
    BY <1>1, SameInbox
<1>9. /\ message'[c] = Collected(m) /\ ~ Delivery!Kept(c)'
    BY <1>1, <1>3, <1>8 DEF Stage
<1>10. /\ thread'[c] \in Places(m + 1)
       /\ message'[c] = Collected(m + 1)
       /\ Delivery!Kept(c)' <=> m + 1 >= 5
    BY <1>3, <1>7, <1>9 DEF Places, Collected
<1>11. m \in 0 .. 5 /\ rest'[e] = rest[e] /\ m + 1 = 1
    BY <1>3, <1>7
<1> HIDE DEF e
<1>12. Stage(c, m + 1)'
    BY <1>1, <1>3, <1>4, <1>10, <1>11, NextStage DEF e
<1> QED BY <1>3, <1>11, <1>12

LEMMA FirstWord ==
    ASSUME NEW a \in Words, NEW b \in Words
    PROVE  /\ <<a, b>> # <<>> /\ Head(<<a, b>>) = a /\ Tail(<<a, b>>) = <<b>>
<1> DEFINE t == <<a, b>>
           u == <<b>>
<1>1. t \in Seq(Words) /\ Len(t) = 2 /\ t[1] = a /\ t[2] = b /\ t # <<>>
    OBVIOUS
<1>2. u \in Seq(Words) /\ Len(u) = 1 /\ u[1] = b
    OBVIOUS
<1> HIDE DEF t, u
<1>3. /\ Head(t) = t[1] /\ Tail(t) \in Seq(Words) /\ Len(Tail(t)) = Len(t) - 1
      /\ \A i \in 1 .. Len(Tail(t)) : Tail(t)[i] = t[i + 1]
    BY <1>1, HeadTailProperties
<1>4. Len(Tail(t)) = Len(u) /\ \A i \in 1 .. Len(Tail(t)) : Tail(t)[i] = u[i]
    <2> DEFINE v == Tail(t)
    <2>1. Len(v) = 2 - 1 /\ \A i \in 1 .. Len(v) : v[i] = t[i + 1]
        BY <1>1, <1>3
    <2> HIDE DEF v
    <2>2. Len(v) = 1 /\ v[1] = t[1 + 1]
        BY <2>1
    <2>3. Len(v) = Len(u) /\ \A i \in 1 .. Len(v) : v[i] = u[i]
        BY <1>1, <1>2, <2>2
    <2> QED BY <2>3 DEF v
<1>5. Tail(t) = u
    BY <1>2, <1>3, <1>4, SeqEqual
<1> QED BY <1>1, <1>3, <1>5 DEF t, u

\* What a command does, by the line that has been read.
LEMMA CommandEffect ==
    ASSUME Typed, NEW c \in Clients, Command(c)
    PROVE  /\ \A w \in Words : Line(ServerEnd(c)) = <<"MAIL FROM:", w>> =>
                 /\ thread'[c] = "command" /\ Reply(c, "250")
                 /\ message'[c] = [message[c] EXCEPT !.from = <<w>>]
           /\ \A w \in Words : Line(ServerEnd(c)) = <<"RCPT TO:", w>> =>
                 /\ thread'[c] = "command" /\ Reply(c, "250")
                 /\ message'[c] = [message[c] EXCEPT !.to = Append(@, <<w>>)]
           /\ Line(ServerEnd(c)) = <<"DATA">> =>
                 /\ thread'[c] = "message" /\ Reply(c, "354")
                 /\ message'[c] = message[c]
           /\ Line(ServerEnd(c)) = <<"QUIT">> =>
                 /\ thread'[c] = "removing" /\ Reply(c, "221")
                 /\ message'[c] = message[c]
<1> DEFINE e == ServerEnd(c)
<1>1. e = <<c, "server">>
    BY DEF ServerEnd
<1>2. thread'[c] = AfterLine(e)
    BY <1>1, Arrays DEF Command
<1>3. ASSUME NEW w \in Words, Line(e) = <<"MAIL FROM:", w>>
      PROVE  /\ thread'[c] = "command" /\ Reply(c, "250")
             /\ message'[c] = [message[c] EXCEPT !.from = <<w>>]
    <2>2. /\ Line(e) # <<>> /\ Head(Line(e)) = "MAIL FROM:"
          /\ Tail(Line(e)) = <<w>>
        <3>1. "MAIL FROM:" \in Words
            BY DEF Words
        <3> QED BY <1>3, <3>1, FirstWord
    <2>1. /\ StartsWith(e, "MAIL FROM:") /\ ~ StartsWith(e, "DATA")
          /\ ~ StartsWith(e, "QUIT")
        BY <2>2 DEF StartsWith
    <2>3. /\ message' = [message EXCEPT ![c].from = Tail(Line(e))]
          /\ Reply(c, "250")
        BY <1>1, <2>1 DEF Command, StartsWith
    <2>4. AfterLine(e) = "command"
        BY <2>1 DEF AfterLine
    <2> HIDE DEF e
    <2> QED BY <1>2, <2>2, <2>3, <2>4, Arrays
<1>4. ASSUME NEW w \in Words, Line(e) = <<"RCPT TO:", w>>
      PROVE  /\ thread'[c] = "command" /\ Reply(c, "250")
             /\ message'[c] = [message[c] EXCEPT !.to = Append(@, <<w>>)]
    <2>2. /\ Line(e) # <<>> /\ Head(Line(e)) = "RCPT TO:"
          /\ Tail(Line(e)) = <<w>>
        <3>1. "RCPT TO:" \in Words
            BY DEF Words
        <3> QED BY <1>4, <3>1, FirstWord
    <2>1. /\ StartsWith(e, "RCPT TO:") /\ ~ StartsWith(e, "DATA")
          /\ ~ StartsWith(e, "QUIT") /\ ~ StartsWith(e, "MAIL FROM:")
        BY <2>2 DEF StartsWith
    <2>3. /\ message' = [message EXCEPT ![c].to = Append(@, Tail(Line(e)))]
          /\ Reply(c, "250")
        BY <1>1, <2>1 DEF Command, StartsWith
    <2>4. AfterLine(e) = "command"
        BY <2>1 DEF AfterLine
    <2> HIDE DEF e
    <2> QED BY <1>2, <2>2, <2>3, <2>4, Arrays
<1>5. ASSUME Line(e) = <<"DATA">>
      PROVE  /\ thread'[c] = "message" /\ Reply(c, "354")
             /\ message'[c] = message[c]
    <2>1. /\ StartsWith(e, "DATA") /\ ~ StartsWith(e, "MAIL FROM:")
          /\ ~ StartsWith(e, "RCPT TO:") /\ ~ StartsWith(e, "QUIT")
        BY <1>5 DEF StartsWith
    <2>2. message' = message /\ Reply(c, "354")
        BY <1>1, <2>1 DEF Command, StartsWith
    <2>3. AfterLine(e) = "message"
        BY <2>1 DEF AfterLine
    <2> QED BY <1>2, <2>2, <2>3
<1>6. ASSUME Line(e) = <<"QUIT">>
      PROVE  /\ thread'[c] = "removing" /\ Reply(c, "221")
             /\ message'[c] = message[c]
    <2>1. /\ StartsWith(e, "QUIT") /\ ~ StartsWith(e, "MAIL FROM:")
          /\ ~ StartsWith(e, "RCPT TO:") /\ ~ StartsWith(e, "DATA")
        BY <1>6 DEF StartsWith
    <2>2. message' = message /\ Reply(c, "221")
        BY <1>1, <2>1 DEF Command, StartsWith
    <2>3. AfterLine(e) = "removing"
        BY <2>1 DEF AfterLine
    <2> QED BY <1>2, <2>2, <2>3
<1> HIDE DEF e
<1> QED BY <1>3, <1>4, <1>5, <1>6 DEF e

LEMMA CommandStage ==
    ASSUME Typed, NEW c \in Clients, Command(c), NEW m \in 0 .. 6, Stage(c, m)
    PROVE  m + 1 \in 0 .. 6 /\ Stage(c, m + 1)'
<1> DEFINE e == ServerEnd(c)
<1>1. /\ Reading(c) /\ thread[c] = "command" /\ e = <<c, "server">>
      /\ inbox' = inbox
    BY DEF Reading, Command, ServerEnd
<1>2. TakeLine(e) /\ Terminator(e) = <<LF>>
    BY <1>1, ReadingStarts DEF Terminator
<1>3. m \in {1, 2, 3, 5}
    BY <1>1 DEF Stage, Places
<1>4. /\ step[c] = m + 1 \/ (m = 0 /\ step[c] = 2)
      /\ Line(e) = SubSeq(Said(m + 1), 1, Len(Said(m + 1)) - 1)
      /\ Flow(buffer'[e], arrived[e], rest[ClientEnd(c)],
              Unread(step[c], m + 1), client[c] # "done")
    BY <1>2, <1>3, CommandIsRead
<1>5. Delivery!Kept(c)' <=> m >= 5
    BY <1>1, SameInbox DEF Stage
<1>6. message[c] = Collected(m)
    BY DEF Stage
<1>7. /\ Wanted(2) = "250" /\ Wanted(3) = "250" /\ Wanted(4) = "354"
      /\ Wanted(6) = "221"
    BY DEF Wanted
<1>8. /\ Reply(c, Wanted(m + 1))
      /\ thread'[c] \in Places(m + 1)
      /\ message'[c] = Collected(m + 1)
    <2>1. CASE m = 1
        <3>1. m + 1 = 2
            BY <2>1
        <3>2. Line(e) = <<"MAIL FROM:", Author>>
            BY <1>4, <3>1, CommandLines
        <3>3. /\ thread'[c] = "command" /\ Reply(c, "250")
              /\ message'[c] = [message[c] EXCEPT !.from = <<Author>>]
            <4>1. Author \in Words
                BY DEF Words
            <4> QED BY <3>2, <4>1, CommandEffect
        <3>4. [Collected(1) EXCEPT !.from = <<Author>>] = Collected(2)
            BY DEF Collected
        <3> QED BY <1>6, <1>7, <2>1, <3>1, <3>3, <3>4 DEF Places
    <2>2. CASE m = 2
        <3>1. m + 1 = 3
            BY <2>2
        <3>2. Line(e) = <<"RCPT TO:", Recipient>>
            BY <1>4, <3>1, CommandLines
        <3>3. /\ thread'[c] = "command" /\ Reply(c, "250")
              /\ message'[c] = [message[c] EXCEPT !.to =
                                    Append(@, <<Recipient>>)]
            <4>1. Recipient \in Words
                BY DEF Words
            <4> QED BY <3>2, <4>1, CommandEffect
        <3>4. [Collected(2) EXCEPT !.to = Append(@, <<Recipient>>)] =
                  Collected(3)
            BY DEF Collected
        <3> QED BY <1>6, <1>7, <2>2, <3>1, <3>3, <3>4 DEF Places
    <2>3. CASE m = 3
        <3>1. m + 1 = 4
            BY <2>3
        <3>2. Line(e) = <<"DATA">>
            BY <1>4, <3>1, CommandLines
        <3>3. /\ thread'[c] = "message" /\ Reply(c, "354")
              /\ message'[c] = message[c]
            BY <3>2, CommandEffect
        <3>4. Collected(3) = Collected(4)
            BY DEF Collected
        <3> QED BY <1>6, <1>7, <2>3, <3>1, <3>3, <3>4 DEF Places
    <2>4. CASE m = 5
        <3>1. m + 1 = 6
            BY <2>4
        <3>2. Line(e) = <<"QUIT">>
            BY <1>4, <3>1, CommandLines
        <3>3. /\ thread'[c] = "removing" /\ Reply(c, "221")
              /\ message'[c] = message[c]
            BY <3>2, CommandEffect
        <3>4. Collected(5) = Collected(6)
            BY DEF Collected
        <3> QED BY <1>6, <1>7, <2>4, <3>1, <3>3, <3>4 DEF Places
    <2> QED BY <1>3, <2>1, <2>2, <2>3, <2>4
<1>9. rest'[e] = <<Wanted(m + 1), LF>> \/ rest'[e] = <<>>
    BY <1>8, ReplyEffect
<1>10. /\ m \in 0 .. 5 /\ m # 0 /\ m + 1 \in 0 .. 6
       /\ m >= 5 <=> m + 1 >= 5
    BY <1>3
<1> HIDE DEF e
<1>11. Stage(c, m + 1)'
    BY <1>1, <1>4, <1>5, <1>8, <1>9, <1>10, NextStage DEF e
<1> QED BY <1>10, <1>11

LEMMA BodyNotEmpty == Body # <<>>
BY DEF Body

LEMMA LetterIsCollected ==
    ASSUME NEW c \in Clients
    PROVE  Letter[c] = Collected(5) /\ [Collected(4) EXCEPT !.body = Body] = Collected(5)
           /\ Collected(5).body = Body
BY DEF Letter, Collected

LEMMA InboxGrows ==
    ASSUME Typed, NEW c \in Clients,
           inbox' = Append(inbox, [sender |-> c, letter |-> Letter[c]])
    PROVE  inbox' \in Seq(Entries) /\ Delivery!Kept(c)'
<1> DEFINE entry == [sender |-> c, letter |-> Letter[c]]
<1>1. inbox \in Seq(Entries) /\ entry \in Entries /\ entry.sender = c
    BY DEF Typed, Entries
<1> HIDE DEF entry
<1>2. /\ Append(inbox, entry) \in Seq(Entries)
      /\ Len(Append(inbox, entry)) = Len(inbox) + 1
      /\ Append(inbox, entry)[Len(inbox) + 1] = entry
    BY <1>1, AppendProperties
<1>3. inbox' = Append(inbox, entry)
    BY DEF entry
<1>4. Len(inbox) + 1 \in DOMAIN inbox'
    <2>1. Len(inbox) \in Nat /\ DOMAIN inbox' = 1 .. Len(inbox')
        BY <1>1, <1>2, <1>3, LenProperties
    <2> QED BY <1>2, <1>3, <2>1
<1>5. inbox'[Len(inbox) + 1].sender = c
    BY <1>1, <1>2, <1>3
<1> QED BY <1>2, <1>3, <1>4, <1>5 DEF Delivery!Kept

\* The thread has read the letter, and it is the whole letter.
LEMMA ReadMessageStage ==
    ASSUME Typed, NEW c \in Clients, ReadMessage(c), NEW m \in 0 .. 6,
           Stage(c, m)
    PROVE  /\ Stage(c, 5)' /\ inbox' \in Seq(Entries)
           /\ Delivery!Keep(c) /\ Delivery!Kept(c)'
<1> DEFINE e == ServerEnd(c)
           f == ClientEnd(c)
           k == step[c]
<1>1. Reading(c) /\ thread[c] = "message" /\ e = <<c, "server">>
    BY DEF Reading, ReadMessage, ServerEnd
<1>2. TakeLine(e) /\ Terminator(e) = <<LF, ".", LF>>
    <2>1. e[1] = c /\ e[2] = "server"
        BY TheEnds
    <2> QED BY <1>1, <2>1, ReadingStarts DEF Terminator
<1>3. m = 4
    BY <1>1 DEF Stage, Places
<1>4. e \in DOMAIN buffer
    BY Arrays, TheEnds
<1>5. PICK w \in BOOLEAN : w = (client[c] # "done")
    OBVIOUS
<1>6. Flow(buffer[e], arrived[e], rest[f], Unread(k, 4), w)
    BY <1>3, <1>5, TheEnds DEF Stage, Text
<1>7. k \in {4, 5}
    BY <1>3 DEF Stage
<1> HIDE DEF f, k
<1>8. k # 4
    <2> SUFFICES ASSUME k = 4 PROVE FALSE
        OBVIOUS
    <2>1. Flow(buffer[e], arrived[e], rest[f], <<>>, w)
        BY <1>6 DEF Unread
    <2>2. buffer[e] # <<>>
        BY <1>2, NoLine
    <2> HIDE DEF e
    <2> QED BY <2>1, <2>2, FlowOfNothing
<1>9. k = 5 /\ Unread(5, 4) = Said(5) /\ Unread(5, 5) = <<>>
    BY <1>7, <1>8 DEF Unread
<1>10. /\ Line(e) = Body
       /\ buffer'[e] = <<>> /\ arrived[e] = <<>> /\ rest[f] = <<>>
    <2>1. Flow(buffer[e], arrived[e], rest[f], Said(5), w)
        BY <1>6, <1>9
    <2> HIDE DEF e
    <2> QED BY <1>2, <1>4, <2>1, BodyIsRead
<1>11. message[c] = Collected(4) /\ ~ Delivery!Kept(c)
    BY <1>3 DEF Stage
<1> DEFINE letter == [message[c] EXCEPT !.body = Line(e)]
<1>12. letter = Letter[c] /\ letter = Collected(5) /\ letter.body # <<>>
    BY <1>10, <1>11, LetterIsCollected, BodyNotEmpty
<1>13. /\ message' = [message EXCEPT ![c] = letter]
       /\ thread' = [thread EXCEPT ![c] = "command"]
       /\ told' = told
    BY <1>1 DEF ReadMessage, clientVars
<1>14. /\ inbox' = Append(inbox, [sender |-> c, letter |-> letter])
       /\ Reply(c, "250")
    BY <1>1, <1>12 DEF ReadMessage
<1> HIDE DEF letter
<1>15. /\ inbox' = Append(inbox, [sender |-> c, letter |-> Letter[c]])
       /\ inbox' \in Seq(Entries) /\ Delivery!Kept(c)'
    BY <1>12, <1>14, InboxGrows
<1>16. Delivery!Keep(c)
    BY <1>11, <1>13, <1>15 DEF Delivery!Keep
<1>17. rest'[e] = <<Wanted(5), LF>> \/ rest'[e] = <<>>
    BY <1>14, ReplyEffect DEF Wanted
<1>18. thread'[c] \in Places(5) /\ message'[c] = Collected(5)
    BY <1>12, <1>13, Arrays DEF Places
<1>19. Flow(buffer'[e], arrived[e], rest[f], Unread(k, 5), client[c] # "done")
    <2>1. Flow(<<>>, <<>>, <<>>, <<>>, w)
        BY FlowOfNothing
    <2> QED BY <1>5, <1>9, <1>10, <2>1
<1> HIDE DEF e
<1>20. Stage(c, m + 1)'
    <2>1. m + 1 = 5 /\ m \in 0 .. 5 /\ m # 0
        BY <1>3
    <2>2. step[c] = m + 1
        BY <1>9, <2>1 DEF k
    <2>3. Delivery!Kept(c)' <=> m + 1 >= 5
        BY <1>15, <2>1
    <2>4. Flow(buffer'[ServerEnd(c)], arrived[ServerEnd(c)],
               rest[ClientEnd(c)], Unread(step[c], m + 1), client[c] # "done")
        BY <1>19, <2>1 DEF e, f, k
    <2>5. \/ rest'[ServerEnd(c)] = <<Wanted(m + 1), LF>>
          \/ rest'[ServerEnd(c)] = <<>>
        BY <1>17, <2>1 DEF e
    <2>6. thread'[c] \in Places(m + 1) /\ message'[c] = Collected(m + 1)
        BY <1>18, <2>1
    <2> QED BY <1>1, <2>1, <2>2, <2>3, <2>4, <2>5, <2>6, NextStage
<1>21. m + 1 = 5
    BY <1>3
<1> QED BY <1>15, <1>16, <1>20, <1>21

LEMMA ReadingTalks ==
    ASSUME Typed, NEW c \in Clients, Reading(c), NEW d \in Clients, Talks(d)
    PROVE  Talks(d)'
<1>1. /\ client' = client /\ step' = step /\ told' = told
      /\ arrived' = arrived /\ scenario' = scenario
    BY ReadingLeaves
<1>2. CASE d # c
    <2>1. UNCHANGED <<EndParts(ClientEnd(d)), EndParts(ServerEnd(d))>>
        <3>1. /\ ClientEnd(d) \in Ends /\ ClientEnd(d) # ServerEnd(c)
              /\ ServerEnd(d) \in Ends /\ ServerEnd(d) # ServerEnd(c)
            BY <1>2, TheEnds
        <3>2. \A f \in {ClientEnd(d), ServerEnd(d)} :
                  /\ sending'[f] = sending[f] /\ rest'[f] = rest[f]
                  /\ buffer'[f] = buffer[f]
            BY <3>1, ReadingFrame
        <3> QED BY <1>1, <3>2 DEF EndParts, ClientEnd, ServerEnd
    <2>2. UNCHANGED ThreadParts(d)
        BY <1>2, ReadingThread
    <2>3. UNCHANGED <<scenario, client[d], step[d], told[d], ThreadParts(d)>>
        BY <1>1, <2>2
    <2> QED BY <2>1, <2>3, TalksOn
<1>3. CASE d = c
    <2>1. Session(c) /\ Conversation(c)
        BY <1>3 DEF Talks
    <2>2. Conversation(c)' /\ (Delivery!Kept(c) => Delivery!Kept(c)')
        <3>1. CASE c \in scenario.foreign
            <4>1. Refused(c)
                BY <2>1, <3>1 DEF Conversation
            <4>2. Hello(c)
                BY <4>1 DEF Reading, Command, ReadMessage, Refused
            <4>3. Refused(c)'
                BY <4>1, <4>2, HelloRefused
            <4>4. ~ Delivery!Kept(c)
                BY <4>1 DEF Refused
            <4> QED BY <1>1, <3>1, <4>3, <4>4 DEF Conversation
        <3>2. CASE c \notin scenario.foreign
            <4>1. PICK m \in 0 .. 6 : Stage(c, m)
                BY <2>1, <3>2 DEF Conversation
            <4>2. CASE Hello(c)
                <5>1. inbox' = inbox
                    BY <4>2 DEF Hello
                <5>2. Stage(c, 1)' /\ 1 \in 0 .. 6
                    BY <4>1, <4>2, HelloStage
                <5> QED BY <1>1, <3>2, <5>1, <5>2, SameInbox DEF Conversation
            <4>3. CASE Command(c)
                <5>1. inbox' = inbox
                    BY <4>3 DEF Command
                <5>2. Stage(c, m + 1)' /\ m + 1 \in 0 .. 6
                    BY <4>1, <4>3, CommandStage
                <5> QED BY <1>1, <3>2, <5>1, <5>2, SameInbox DEF Conversation
            <4>4. CASE ReadMessage(c)
                <5>1. Stage(c, 5)' /\ 5 \in 0 .. 6 /\ Delivery!Kept(c)'
                    BY <4>1, <4>4, ReadMessageStage
                <5> QED BY <1>1, <3>2, <5>1 DEF Conversation
            <4> QED BY <4>2, <4>3, <4>4 DEF Reading
        <3> QED BY <3>1, <3>2
    <2>3. Session(c)'
        BY <2>1, <2>2, ReadingSession
    <2> QED BY <1>3, <2>2, <2>3 DEF Talks
<1> QED BY <1>2, <1>3

LEMMA FinishTalks ==
    ASSUME Typed, NEW c \in Clients, Finish(c), NEW d \in Clients, Talks(d)
    PROVE  Talks(d)'
<1>1. /\ UNCHANGED <<client, step, told, sending, rest, arrived, buffer,
                     message, inbox, scenario>>
      /\ thread[c] = "removing" /\ thread' = [thread EXCEPT ![c] = "finished"]
    BY DEF Finish, clientVars
<1>2. UNCHANGED <<EndParts(ClientEnd(d)), EndParts(ServerEnd(d))>>
    BY <1>1 DEF EndParts, ClientEnd, ServerEnd
<1>3. message'[d] = message[d] /\ Delivery!Kept(d)' = Delivery!Kept(d)
    BY <1>1, SameInbox
<1>4. CASE d # c
    <2>1. thread'[d] = thread[d]
        BY <1>1, <1>4, Arrays
    <2>2. UNCHANGED ThreadParts(d)
        BY <1>3, <2>1 DEF ThreadParts
    <2>3. UNCHANGED <<scenario, client[d], step[d], told[d], ThreadParts(d)>>
        BY <1>1, <2>2
    <2> QED BY <1>2, <2>3, TalksOn
<1>5. CASE d = c
    <2>1. thread[c] = "removing" /\ thread'[c] = "finished"
        BY <1>1, Arrays
    <2>2. Session(c) /\ Conversation(c)
        BY <1>5 DEF Talks
    <2>3. Session(c)'
        <3>1. client[c] \notin {"ready", "connecting"}
            BY <2>1, <2>2 DEF Session
        <3>2. /\ client'[c] = client[c] /\ told'[c] = told[c]
              /\ step'[c] = step[c]
              /\ sending'[ClientEnd(c)] = sending[ClientEnd(c)]
              /\ rest'[ClientEnd(c)] = rest[ClientEnd(c)]
              /\ sending'[ServerEnd(c)] = sending[ServerEnd(c)]
              /\ rest'[ServerEnd(c)] = rest[ServerEnd(c)]
            BY <1>1
        <3> QED BY <1>3, <1>5, <2>1, <2>2, <3>1, <3>2 DEF Session
    <2>4. /\ \A f, text, w : Text(f, text, w) => Text(f, text, w)'
          /\ \A f, W : WordsOf(f, W) => WordsOf(f, W)'
        BY <1>1, TextStays
    <2>5. CASE c \in scenario.foreign
        <3>1. Refused(c)
            BY <2>2, <2>5 DEF Conversation
        <3>2. WordsOf(ClientEnd(c), ForeignWords)' /\ WordsOf(ServerEnd(c), Refusals)'
            BY <2>4, <3>1 DEF Refused
        <3>3. Refused(c)'
            BY <1>1, <1>3, <1>5, <2>1, <3>1, <3>2 DEF Refused
        <3> QED BY <1>1, <1>5, <2>3, <2>5, <3>3 DEF Talks, Conversation
    <2>6. CASE c \notin scenario.foreign
        <3>1. PICK m \in 0 .. 6 : Stage(c, m)
            BY <2>2, <2>6 DEF Conversation
        <3>2. m = 6
            BY <2>1, <3>1 DEF Stage, Places
        <3>3. /\ thread'[c] \in Places(m) /\ message'[c] = Collected(m)
              /\ Delivery!Kept(c)' <=> m >= 5
            BY <1>1, <1>3, <1>5, <2>1, <3>1, <3>2 DEF Stage, Places
        <3>4. /\ step'[c] \in {m, m + 1} \/ (m = 0 /\ step'[c] = 2)
              /\ thread'[c] = "none" => step'[c] <= 1
            BY <1>1, <2>1, <3>1 DEF Stage
        <3>5. Flow(buffer'[Peer(ClientEnd(c))], arrived'[Peer(ClientEnd(c))],
                   rest'[ClientEnd(c)], Unread(step'[c], m),
                   client'[c] # "done")
            BY <1>1, <3>1 DEF Stage, Text
        <3>6. Flow(buffer'[Peer(ServerEnd(c))], arrived'[Peer(ServerEnd(c))],
                   rest'[ServerEnd(c)],
                   IF thread'[c] = "none" THEN <<>> ELSE Answered(step'[c], m),
                   FALSE)
            BY <1>1, <2>1, <3>1 DEF Stage, Text
        <3>7. Stage(c, m)'
            BY <3>3, <3>4, <3>5, <3>6, StageIsReached
        <3> QED BY <1>1, <1>5, <2>3, <2>6, <3>7 DEF Talks, Conversation
    <2> QED BY <2>5, <2>6
<1> QED BY <1>4, <1>5

-----------------------------------------------------------------------------
(***************************************************************************)
(* SMTPServer::run.                                                        *)
(***************************************************************************)
LEMMA OtherTalks ==
    ASSUME Typed, GetTimesOut \/ Join \/ Stop, NEW d \in Clients, Talks(d)
    PROVE  Talks(d)'
<1>1. UNCHANGED <<client, step, told, sending, rest, arrived, buffer, thread,
                  message, inbox, scenario>>
    BY DEF GetTimesOut, Join, Stop, clientVars, streamVars, threadVars
<1>2. UNCHANGED <<EndParts(ClientEnd(d)), EndParts(ServerEnd(d))>>
    BY <1>1 DEF EndParts, ClientEnd, ServerEnd
<1>3. UNCHANGED <<scenario, client[d], step[d], told[d], ThreadParts(d)>>
    BY <1>1, SameInbox DEF ThreadParts
<1> QED BY <1>2, <1>3, TalksOn

\* A thread starts, with its greeting.
LEMMA GetEffect ==
    ASSUME Typed, Get
    PROVE  /\ UNCHANGED <<step, told, arrived, buffer, message, inbox, scenario>>
           /\ Head(incoming) \in Clients
           /\ \A d \in Clients :
                 \/ /\ UNCHANGED <<client[d], thread[d]>>
                    /\ sending'[ClientEnd(d)] = sending[ClientEnd(d)]
                    /\ rest'[ClientEnd(d)] = rest[ClientEnd(d)]
                    /\ sending'[ServerEnd(d)] = sending[ServerEnd(d)]
                    /\ rest'[ServerEnd(d)] = rest[ServerEnd(d)]
                 \/ /\ client[d] = "connecting" /\ client'[d] = "talking"
                    /\ sending'[ClientEnd(d)] = sending[ClientEnd(d)]
                    /\ rest'[ClientEnd(d)] = rest[ClientEnd(d)]
                    /\ \/ /\ thread'[d] = thread[d]
                          /\ sending'[ServerEnd(d)] = sending[ServerEnd(d)]
                          /\ rest'[ServerEnd(d)] = rest[ServerEnd(d)]
                       \/ /\ thread'[d] = "hello"
                          /\ sending'[ServerEnd(d)]
                          /\ rest'[ServerEnd(d)] = <<"220", LF>>
<1> DEFINE c == Head(incoming)
           e == <<c, "server">>
<1>1. UNCHANGED <<step, told, arrived, buffer, message, inbox, scenario>>
    BY DEF Get
<1>2. c \in Clients
    <2>1. incoming \in Seq(Clients) /\ incoming # <<>>
        BY DEF Typed, Get
    <2> QED BY <2>1
<1>3. e = ServerEnd(c)
    BY DEF ServerEnd
<1>4. \/ /\ client[c] = "connecting"
         /\ client' = [client EXCEPT ![c] = "talking"]
         /\ thread' = [thread EXCEPT ![c] = "hello"]
         /\ sending' = [sending EXCEPT ![e] = TRUE]
         /\ rest' = [rest EXCEPT ![e] = <<"220", LF>>]
      \/ /\ client[c] = "connecting"
         /\ client' = [client EXCEPT ![c] = "talking"]
         /\ UNCHANGED <<thread, sending, rest>>
      \/ UNCHANGED <<client, thread, sending, rest>>
    BY DEF Get
<1> HIDE DEF c, e
<1>5. ASSUME NEW d \in Clients
      PROVE  \/ /\ client'[d] = client[d] /\ thread'[d] = thread[d]
                /\ sending'[ClientEnd(d)] = sending[ClientEnd(d)]
                /\ rest'[ClientEnd(d)] = rest[ClientEnd(d)]
                /\ sending'[ServerEnd(d)] = sending[ServerEnd(d)]
                /\ rest'[ServerEnd(d)] = rest[ServerEnd(d)]
             \/ /\ client[d] = "connecting" /\ client'[d] = "talking"
                /\ sending'[ClientEnd(d)] = sending[ClientEnd(d)]
                /\ rest'[ClientEnd(d)] = rest[ClientEnd(d)]
                /\ \/ /\ thread'[d] = thread[d]
                      /\ sending'[ServerEnd(d)] = sending[ServerEnd(d)]
                      /\ rest'[ServerEnd(d)] = rest[ServerEnd(d)]
                   \/ /\ thread'[d] = "hello"
                      /\ sending'[ServerEnd(d)]
                      /\ rest'[ServerEnd(d)] = <<"220", LF>>
    <2>1. /\ ClientEnd(d) \in Ends /\ ClientEnd(d) # e /\ ServerEnd(d) \in Ends
          /\ d # c => ServerEnd(d) # e
          /\ d = c => ServerEnd(d) = e
        BY <1>2, <1>3, TheEnds
    <2>2. CASE d # c
        <3>1. client'[d] = client[d] /\ thread'[d] = thread[d]
            BY <1>4, <2>2, Arrays
        <3>2. /\ sending'[ClientEnd(d)] = sending[ClientEnd(d)]
              /\ sending'[ServerEnd(d)] = sending[ServerEnd(d)]
            BY <1>4, <2>1, <2>2, Arrays
        <3>3. /\ rest'[ClientEnd(d)] = rest[ClientEnd(d)]
              /\ rest'[ServerEnd(d)] = rest[ServerEnd(d)]
            BY <1>4, <2>1, <2>2, Arrays
        <3> QED BY <3>1, <3>2, <3>3
    <2>3. CASE d = c
        BY <1>4, <2>1, <2>3, Arrays
    <2> QED BY <2>2, <2>3
<1> QED BY <1>1, <1>2, <1>5 DEF c, ClientEnd, ServerEnd

LEMMA GetTalks ==
    ASSUME Typed, Get, NEW d \in Clients, Talks(d)
    PROVE  Talks(d)'
<1>1. UNCHANGED <<step, told, arrived, buffer, message, inbox, scenario>>
    BY GetEffect
<1>2. message'[d] = message[d] /\ Delivery!Kept(d)' = Delivery!Kept(d)
    BY <1>1, SameInbox
<1>3. \/ /\ client'[d] = client[d] /\ thread'[d] = thread[d]
         /\ sending'[ClientEnd(d)] = sending[ClientEnd(d)]
         /\ rest'[ClientEnd(d)] = rest[ClientEnd(d)]
         /\ sending'[ServerEnd(d)] = sending[ServerEnd(d)]
         /\ rest'[ServerEnd(d)] = rest[ServerEnd(d)]
      \/ /\ client[d] = "connecting" /\ client'[d] = "talking"
         /\ sending'[ClientEnd(d)] = sending[ClientEnd(d)]
         /\ rest'[ClientEnd(d)] = rest[ClientEnd(d)]
         /\ thread'[d] = thread[d]
         /\ sending'[ServerEnd(d)] = sending[ServerEnd(d)]
         /\ rest'[ServerEnd(d)] = rest[ServerEnd(d)]
      \/ /\ client[d] = "connecting" /\ client'[d] = "talking"
         /\ sending'[ClientEnd(d)] = sending[ClientEnd(d)]
         /\ rest'[ClientEnd(d)] = rest[ClientEnd(d)]
         /\ thread'[d] = "hello"
         /\ sending'[ServerEnd(d)]
         /\ rest'[ServerEnd(d)] = <<"220", LF>>
    BY GetEffect
<1>4. Session(d) /\ Conversation(d)
    BY DEF Talks
<1>5. Session(d)'
    <2>1. client[d] = "connecting" =>
              step[d] = 0 /\ thread[d] = "none" /\ told[d] = "nothing"
        BY <1>4 DEF Session
    <2>2. step'[d] = step[d] /\ told'[d] = told[d]
        BY <1>1
    <2> QED BY <1>2, <1>3, <1>4, <2>1, <2>2 DEF Session
<1>6. CASE client'[d] = client[d] \/ thread'[d] = thread[d]
    <2>1. /\ thread'[d] = thread[d]
          /\ rest'[ClientEnd(d)] = rest[ClientEnd(d)]
          /\ rest'[ServerEnd(d)] = rest[ServerEnd(d)]
          /\ client'[d] # "done" => client[d] # "done"
        <3>1. client[d] = "connecting" => thread[d] = "none"
            BY <1>4 DEF Session
        <3>2. ~ (client[d] = "connecting" /\ client'[d] = "talking"
                   /\ thread'[d] = "hello")
            BY <1>6, <3>1
        <3> QED BY <1>3, <3>2
    <2>2. UNCHANGED <<scenario, step[d], ThreadParts(d)>>
        BY <1>1, <1>2, <2>1 DEF ThreadParts
    <2>3. /\ UNCHANGED <<rest[ClientEnd(d)], arrived[ClientEnd(d)],
                         buffer[ClientEnd(d)]>>
          /\ UNCHANGED <<rest[ServerEnd(d)], arrived[ServerEnd(d)],
                         buffer[ServerEnd(d)]>>
        BY <1>1, <2>1 DEF ClientEnd, ServerEnd
    <2>4. Conversation(d)'
        BY <1>4, <2>1, <2>2, <2>3, ConversationStays
    <2> QED BY <1>5, <2>4 DEF Talks
<1>7. CASE ~ (client'[d] = client[d] \/ thread'[d] = thread[d])
    <2>1. /\ client[d] = "connecting" /\ client'[d] = "talking"
          /\ rest'[ClientEnd(d)] = rest[ClientEnd(d)]
          /\ thread'[d] = "hello"
          /\ rest'[ServerEnd(d)] = <<"220", LF>>
        BY <1>3, <1>7
    <2>2. step[d] = 0 /\ thread[d] = "none"
        BY <1>4, <2>1 DEF Session
    <2>3. step'[d] = 0
        BY <1>1, <2>2
    <2>4. /\ Peer(ClientEnd(d)) = ServerEnd(d)
          /\ Peer(ServerEnd(d)) = ClientEnd(d)
        BY TheEnds
    <2>5. CASE d \in scenario.foreign
        <3>1. Refused(d)
            BY <1>4, <2>5 DEF Conversation
        <3>2. <<"220", LF>> \in Seq(Refusals)
            <4>1. "220" \in Refusals /\ LF \in Refusals
                BY DEF Refusals
            <4> QED BY <4>1, Pair
        <3>3. /\ {buffer'[Peer(ClientEnd(d))], arrived'[Peer(ClientEnd(d))],
                  rest'[ClientEnd(d)]} \subseteq Seq(ForeignWords)
              /\ {buffer'[Peer(ServerEnd(d))], arrived'[Peer(ServerEnd(d))],
                  rest'[ServerEnd(d)]} \subseteq Seq(Refusals)
            BY <1>1, <2>1, <3>1, <3>2 DEF Refused, WordsOf
        <3>4. WordsOf(ClientEnd(d), ForeignWords)' /\ WordsOf(ServerEnd(d), Refusals)'
            BY <3>3 DEF WordsOf
        <3>5. Refused(d)'
            BY <1>2, <2>1, <2>3, <3>1, <3>4 DEF Refused
        <3> QED BY <1>1, <1>5, <2>5, <3>5 DEF Talks, Conversation
    <2>6. CASE d \notin scenario.foreign
        <3>1. PICK m \in 0 .. 6 : Stage(d, m)
            BY <1>4, <2>6 DEF Conversation
        <3>2. m = 0
            BY <2>2, <3>1 DEF Stage
        <3>3. Flow(buffer[Peer(ServerEnd(d))], arrived[Peer(ServerEnd(d))],
                   rest[ServerEnd(d)], <<>>, FALSE)
            BY <2>2, <3>1 DEF Stage, Text
        <3>4. buffer[Peer(ServerEnd(d))] = <<>> /\ arrived[Peer(ServerEnd(d))] = <<>>
            BY <3>3, FlowOfNothing
        <3>5. Answered(0, m) = <<"220", LF>>
            BY DEF Answered
        <3> DEFINE text == Answered(0, m)
        <3>6. text \in Seq(Words)
            BY AnsweredType
        <3>7. rest'[ServerEnd(d)] = text
            BY <2>1, <3>5
        <3> HIDE DEF text
        <3>8. Flow(buffer'[Peer(ServerEnd(d))], arrived'[Peer(ServerEnd(d))],
                   rest'[ServerEnd(d)], text, FALSE)
            <4>1. Flow(<<>>, <<>>, text, text, FALSE)
                BY <3>6, FlowStarts
            <4> QED BY <1>1, <3>4, <3>7, <4>1
        <3>9. Flow(buffer'[Peer(ServerEnd(d))], arrived'[Peer(ServerEnd(d))],
                   rest'[ServerEnd(d)],
                   IF thread'[d] = "none" THEN <<>> ELSE Answered(step'[d], m),
                   FALSE)
            BY <2>1, <2>3, <3>8 DEF text
        <3>10. (client[d] # "done") = (client'[d] # "done")
            BY <2>1
        <3>11. Flow(buffer'[Peer(ClientEnd(d))], arrived'[Peer(ClientEnd(d))],
                    rest'[ClientEnd(d)], Unread(step'[d], m),
                    client'[d] # "done")
            <4>1. Flow(buffer[Peer(ClientEnd(d))], arrived[Peer(ClientEnd(d))],
                       rest[ClientEnd(d)], Unread(step[d], m),
                       client[d] # "done")
                BY <3>1 DEF Stage, Text
            <4> QED BY <1>1, <2>1, <3>10, <4>1
        <3>12. /\ thread'[d] \in Places(m) /\ message'[d] = Collected(m)
               /\ Delivery!Kept(d)' <=> m >= 5
            BY <1>2, <2>1, <3>1, <3>2 DEF Stage, Places
        <3>13. /\ step'[d] \in {m, m + 1} \/ (m = 0 /\ step'[d] = 2)
               /\ thread'[d] = "none" => step'[d] <= 1
            BY <2>1, <2>3, <3>2
        <3>14. Stage(d, m)'
            BY <3>9, <3>11, <3>12, <3>13, StageIsReached
        <3> QED BY <1>1, <1>5, <2>6, <3>14 DEF Talks, Conversation
    <2> QED BY <2>5, <2>6
<1> QED BY <1>6, <1>7

-----------------------------------------------------------------------------
(***************************************************************************)
(* The types of the variables, one group after the other.                  *)
(***************************************************************************)
ClientsTyped ==
    /\ client \in [Clients -> {"ready", "connecting", "talking", "removing",
                               "done"}]
    /\ step \in [Clients -> 0 .. 6]
    /\ told \in [Clients -> {"nothing", "success", "failure"}]

StreamsTyped ==
    /\ connected \in [Ends -> BOOLEAN]
    /\ sending \in [Ends -> BOOLEAN]
    /\ rest = [e \in Ends |-> rest[e]]
    /\ arrived = [e \in Ends |-> arrived[e]]
    /\ buffer = [e \in Ends |-> buffer[e]]

ThreadsTyped ==
    /\ thread \in [Clients -> {"none", "hello", "command", "message",
                               "removing", "finished"}]
    /\ message = [c \in Clients |-> message[c]]
    /\ inbox \in Seq(Entries)

ServerTyped ==
    /\ incoming \in Seq(Clients)
    /\ run \in {"get", "join", "returned"}
    /\ threads \subseteq Clients
    /\ go \in BOOLEAN

FailuresTyped == broken \subseteq scenario.faulty

LEMMA TypedParts ==
    /\ Typed <=> ClientsTyped /\ StreamsTyped /\ ThreadsTyped /\ ServerTyped
                    /\ FailuresTyped
    /\ Typed' <=> ClientsTyped' /\ StreamsTyped' /\ ThreadsTyped'
                     /\ ServerTyped' /\ FailuresTyped'
BY DEF Typed, TypeOK, ClientsTyped, StreamsTyped, ThreadsTyped, ServerTyped,
       FailuresTyped

LEMMA TypesStay ==
    /\ ClientsTyped /\ UNCHANGED clientVars => ClientsTyped'
    /\ StreamsTyped /\ UNCHANGED streamVars => StreamsTyped'
    /\ ThreadsTyped /\ UNCHANGED threadVars => ThreadsTyped'
    /\ ServerTyped /\ UNCHANGED serverVars => ServerTyped'
    /\ FailuresTyped /\ UNCHANGED <<broken, scenario>> => FailuresTyped'
BY DEF ClientsTyped, StreamsTyped, ThreadsTyped, ServerTyped, FailuresTyped,
       clientVars, streamVars, threadVars, serverVars

LEMMA StartSendTyped ==
    ASSUME StreamsTyped, NEW e, NEW text, StartSend(e, text)
    PROVE  /\ sending' \in [Ends -> BOOLEAN]
           /\ rest' = [f \in Ends |-> rest'[f]]
<1>1. sending' \in [Ends -> BOOLEAN]
    BY DEF StartSend, StreamsTyped
<1>2. DOMAIN rest = Ends
    BY DEF StreamsTyped
<1>3. rest' = [f \in Ends |-> rest'[f]]
    BY <1>2 DEF StartSend
<1> QED BY <1>1, <1>3

LEMMA TakeLineTyped ==
    ASSUME StreamsTyped, NEW e, TakeLine(e)
    PROVE  buffer' = [f \in Ends |-> buffer'[f]]
<1>1. DOMAIN buffer = Ends
    BY DEF StreamsTyped
<1> QED BY <1>1 DEF TakeLine

LEMMA TransmitTyped ==
    ASSUME Typed, NEW e \in Ends, Transmit(e) \/ Receive(e)
    PROVE  Typed'
<1>1. DOMAIN rest = Ends /\ DOMAIN arrived = Ends /\ DOMAIN buffer = Ends
    BY Arrays
<1>2. CASE Arrive(e)
    <2>1. UNCHANGED <<connected, sending, buffer>>
          /\ rest' = [f \in Ends |-> rest'[f]]
          /\ arrived' = [f \in Ends |-> arrived'[f]]
        BY <1>1, <1>2 DEF Arrive
    <2>2. StreamsTyped'
        BY <2>1, TypedParts DEF StreamsTyped
    <2>3. UNCHANGED <<clientVars, threadVars, serverVars, <<broken, scenario>>>>
        BY <1>2 DEF Arrive
    <2> QED BY <2>2, <2>3, TypedParts, TypesStay
<1>3. CASE SendReturns(e)
    <2>1. UNCHANGED <<connected, rest, arrived, buffer>>
          /\ sending' = [sending EXCEPT ![e] = FALSE]
        BY <1>3 DEF SendReturns
    <2>2. StreamsTyped'
        BY <2>1, TypedParts DEF StreamsTyped
    <2>3. UNCHANGED <<clientVars, threadVars, serverVars, <<broken, scenario>>>>
        BY <1>3 DEF SendReturns
    <2> QED BY <2>2, <2>3, TypedParts, TypesStay
<1>4. CASE GiveUp(e)
    <2>1. /\ sending' = [sending EXCEPT ![e] = FALSE]
          /\ rest' = [rest EXCEPT ![e] = <<>>]
          /\ connected' = [connected EXCEPT ![e] = FALSE]
          /\ UNCHANGED <<arrived, buffer>>
        BY <1>4 DEF GiveUp
    <2>2. StreamsTyped'
        BY <2>1, TypedParts DEF StreamsTyped
    <2>3. \/ /\ client' = [client EXCEPT ![e[1]] = "done"]
             /\ told' = [told EXCEPT ![e[1]] = "failure"]
             /\ step' = step
          \/ UNCHANGED clientVars
        BY <1>4 DEF GiveUp, clientVars
    <2>4. ClientsTyped'
        BY <2>3, TypedParts, TypesStay DEF ClientsTyped
    <2>5. scenario' = scenario /\ broken' \subseteq broken \union {e[1]}
          /\ (broken' = broken \/ e[1] \in scenario.faulty)
        BY <1>4 DEF GiveUp
    <2>6. FailuresTyped'
        BY <2>5, TypedParts DEF FailuresTyped
    <2>7. UNCHANGED <<threadVars, serverVars>>
        BY <1>4 DEF GiveUp
    <2> QED BY <2>2, <2>4, <2>6, <2>7, TypedParts, TypesStay
<1>5. CASE Receive(e)
    <2>1. UNCHANGED <<connected, sending, rest>>
          /\ buffer' = [f \in Ends |-> buffer'[f]]
          /\ arrived' = [f \in Ends |-> arrived'[f]]
        BY <1>1, <1>5 DEF Receive
    <2>2. StreamsTyped'
        BY <2>1, TypedParts DEF StreamsTyped
    <2>3. UNCHANGED <<clientVars, threadVars, serverVars, <<broken, scenario>>>>
        BY <1>5 DEF Receive
    <2> QED BY <2>2, <2>3, TypedParts, TypesStay
<1> QED BY <1>2, <1>3, <1>4, <1>5 DEF Transmit

LEMMA RemoveSocketTyped ==
    ASSUME StreamsTyped, NEW c, RemoveSocket(c)
    PROVE  connected' \in [Ends -> BOOLEAN]
BY DEF StreamsTyped, RemoveSocket

LEMMA SayTyped ==
    ASSUME Typed, NEW c \in Clients, NEW k \in 0 .. 6, Say(c, k)
    PROVE  /\ ClientsTyped'
           /\ sending' \in [Ends -> BOOLEAN]
           /\ rest' = [f \in Ends |-> rest'[f]]
<1>1. CASE connected[<<c, "client">>]
    <2>1. /\ StartSend(<<c, "client">>, Dialogue(c)[k].say)
          /\ step' = [step EXCEPT ![c] = k]
          /\ UNCHANGED <<client, told>>
        BY <1>1 DEF Say
    <2>2. ClientsTyped'
        BY <2>1, TypedParts DEF ClientsTyped
    <2> QED BY <2>1, <2>2, TypedParts, StartSendTyped
<1>2. CASE ~ connected[<<c, "client">>]
    <2>1. /\ client' = [client EXCEPT ![c] = "done"]
          /\ told' = [told EXCEPT ![c] = "failure"]
          /\ UNCHANGED <<step, sending, rest>>
        BY <1>2 DEF Say
    <2>2. ClientsTyped'
        BY <2>1, TypedParts DEF ClientsTyped
    <2> QED BY <2>1, <2>2, TypedParts DEF StreamsTyped
<1> QED BY <1>1, <1>2

LEMMA ClientTyped ==
    ASSUME Typed, NEW c \in Clients, Connect(c) \/ ClientStep(c)
    PROVE  Typed'
<1>1. ClientsTyped /\ StreamsTyped /\ ThreadsTyped /\ ServerTyped
      /\ FailuresTyped
    BY TypedParts
<1>2. CASE Connect(c)
    <2>1. /\ client' = [client EXCEPT ![c] = "connecting"]
          /\ UNCHANGED <<step, told>>
        BY <1>2 DEF Connect
    <2>2. ClientsTyped'
        BY <1>1, <2>1 DEF ClientsTyped
    <2>3. incoming' = Append(incoming, c) /\ UNCHANGED <<run, threads, go>>
        BY <1>2 DEF Connect
    <2>4. incoming' \in Seq(Clients)
        BY <1>1, <2>3, AppendProperties DEF ServerTyped
    <2>5. ServerTyped'
        BY <1>1, <2>3, <2>4 DEF ServerTyped
    <2>6. UNCHANGED <<streamVars, threadVars, <<broken, scenario>>>>
        BY <1>2 DEF Connect
    <2> QED BY <1>1, <2>2, <2>5, <2>6, TypedParts, TypesStay
<1>3. CASE ConnectTimesOut(c)
    <2>1. /\ client' = [client EXCEPT ![c] = "done"]
          /\ told' = [told EXCEPT ![c] = "failure"]
          /\ step' = step
        BY <1>3 DEF ConnectTimesOut
    <2>2. ClientsTyped'
        BY <1>1, <2>1 DEF ClientsTyped
    <2>3. UNCHANGED <<streamVars, threadVars, serverVars, <<broken, scenario>>>>
        BY <1>3 DEF ConnectTimesOut
    <2> QED BY <1>1, <2>2, <2>3, TypedParts, TypesStay
<1>4. CASE Start(c)
    <2>1. Say(c, 1) /\ UNCHANGED <<connected, arrived, buffer>>
        BY <1>4 DEF Start
    <2>2. ClientsTyped' /\ sending' \in [Ends -> BOOLEAN]
          /\ rest' = [f \in Ends |-> rest'[f]]
        BY <2>1, SayTyped
    <2>3. StreamsTyped'
        BY <1>1, <2>1, <2>2 DEF StreamsTyped
    <2>4. UNCHANGED <<threadVars, serverVars, <<broken, scenario>>>>
        BY <1>4 DEF Start
    <2> QED BY <1>1, <2>2, <2>3, <2>4, TypedParts, TypesStay
<1>5. CASE Check(c)
    <2>1. UNCHANGED <<connected, arrived>>
          /\ TakeLine(<<c, "client">>)
        BY <1>5 DEF Check
    <2>2. \/ /\ client' = [client EXCEPT ![c] = "done"]
             /\ told' = [told EXCEPT ![c] = "failure"]
             /\ UNCHANGED <<step, sending, rest>>
          \/ step[c] < Len(Dialogue(c)) /\ Say(c, step[c] + 1)
          \/ /\ client' = [client EXCEPT ![c] = "removing"]
             /\ UNCHANGED <<told, step, sending, rest>>
        BY <1>5 DEF Check
    <2>3. /\ ClientsTyped' /\ sending' \in [Ends -> BOOLEAN]
          /\ rest' = [f \in Ends |-> rest'[f]]
        <3>1. CASE /\ client' = [client EXCEPT ![c] = "done"]
                   /\ told' = [told EXCEPT ![c] = "failure"]
                   /\ UNCHANGED <<step, sending, rest>>
            BY <1>1, <3>1 DEF ClientsTyped, StreamsTyped
        <3>2. CASE step[c] < Len(Dialogue(c)) /\ Say(c, step[c] + 1)
            <4>1. Len(Dialogue(c)) = 6
                BY DEF Dialogue
            <4>2. step[c] + 1 \in 0 .. 6
                BY <1>1, <3>2, <4>1 DEF ClientsTyped
            <4> QED BY <3>2, <4>2, SayTyped
        <3>3. CASE /\ client' = [client EXCEPT ![c] = "removing"]
                   /\ UNCHANGED <<told, step, sending, rest>>
            BY <1>1, <3>3 DEF ClientsTyped, StreamsTyped
        <3> QED BY <2>2, <3>1, <3>2, <3>3
    <2>4. buffer' = [f \in Ends |-> buffer'[f]]
        BY <1>1, <2>1, TakeLineTyped
    <2>5. StreamsTyped'
        BY <1>1, <2>1, <2>3, <2>4 DEF StreamsTyped
    <2>6. UNCHANGED <<threadVars, serverVars, <<broken, scenario>>>>
        BY <1>5 DEF Check
    <2> QED BY <1>1, <2>3, <2>5, <2>6, TypedParts, TypesStay
<1>6. CASE Succeed(c)
    <2>1. /\ client' = [client EXCEPT ![c] = "done"]
          /\ told' = [told EXCEPT ![c] = "success"]
          /\ UNCHANGED <<step, sending, rest, arrived, buffer>>
          /\ RemoveSocket(c)
        BY <1>6 DEF Succeed
    <2>2. ClientsTyped'
        BY <1>1, <2>1 DEF ClientsTyped
    <2>3. StreamsTyped'
        BY <1>1, <2>1, RemoveSocketTyped DEF StreamsTyped
    <2>4. UNCHANGED <<threadVars, serverVars, <<broken, scenario>>>>
        BY <1>6 DEF Succeed
    <2> QED BY <1>1, <2>2, <2>3, <2>4, TypedParts, TypesStay
<1> QED BY <1>2, <1>3, <1>4, <1>5, <1>6 DEF ClientStep

\* The inbox has whole letters only, which is what the stage of the thread says.
LEMMA ThreadTyped ==
    ASSUME Typed, NEW c \in Clients, Talks(c), ThreadStep(c)
    PROVE  Typed'
<1>1. ClientsTyped /\ StreamsTyped /\ ThreadsTyped /\ ServerTyped
      /\ FailuresTyped
    BY TypedParts
<1>2. UNCHANGED <<clientVars, serverVars, <<broken, scenario>>>>
    BY DEF ThreadStep, Hello, Command, ReadMessage, Finish
<1>3. CASE Reading(c)
    <2>1. UNCHANGED <<connected, arrived>>
        BY <1>3 DEF Reading, Hello, Command, ReadMessage
    <2>2. buffer' = [f \in Ends |-> buffer'[f]]
        BY <1>1, <1>3, ReadingStarts, TakeLineTyped
    <2>3. sending' \in [Ends -> BOOLEAN] /\ rest' = [f \in Ends |-> rest'[f]]
        <3>1. CASE \E code : Reply(c, code)
            BY <1>1, <3>1, StartSendTyped DEF Reply
        <3>2. CASE UNCHANGED <<sending, rest>>
            BY <1>1, <3>2 DEF StreamsTyped
        <3> QED BY <1>3, <3>1, <3>2, ReadingReplies
    <2>4. StreamsTyped'
        BY <1>1, <2>1, <2>2, <2>3 DEF StreamsTyped
    <2>5. ThreadsTyped'
        <3>1. CASE Hello(c)
            <4>1. \/ thread' = [thread EXCEPT ![c] = "command"]
                  \/ thread' = [thread EXCEPT ![c] = "removing"]
                BY <3>1 DEF Hello
            <4>2. UNCHANGED <<message, inbox>>
                BY <3>1 DEF Hello
            <4> QED BY <1>1, <4>1, <4>2 DEF ThreadsTyped
        <3>2. CASE Command(c)
            <4>1. inbox' = inbox
                  /\ thread' = [thread EXCEPT ![c] = AfterLine(<<c, "server">>)]
                BY <3>2 DEF Command
            <4>2. AfterLine(<<c, "server">>) \in {"command", "message", "removing"}
                BY DEF AfterLine
            <4>3. thread' \in [Clients -> {"none", "hello", "command",
                                          "message", "removing", "finished"}]
                BY <1>1, <4>1, <4>2 DEF ThreadsTyped
            <4>4. DOMAIN message = Clients
                BY Arrays
            <4>5. message' = [d \in Clients |-> message'[d]]
                <5>1. \/ message' = message
                      \/ \E a : message' = [message EXCEPT ![c].from = a]
                      \/ \E a : message' = [message EXCEPT ![c].to = a]
                    BY <3>2 DEF Command
                <5> QED BY <1>1, <4>4, <5>1 DEF ThreadsTyped
            <4> QED BY <1>1, <4>1, <4>3, <4>5 DEF ThreadsTyped
        <3>3. CASE ReadMessage(c)
            <4>1. thread' = [thread EXCEPT ![c] = "command"]
                BY <3>3 DEF ReadMessage
            <4>2. DOMAIN message = Clients
                BY Arrays
            <4>3. message' = [d \in Clients |-> message'[d]]
                BY <3>3, <4>2 DEF ReadMessage
            <4>4. ~ Refused(c)
                BY <3>3 DEF ReadMessage, Refused
            <4>5. PICK m \in 0 .. 6 : Stage(c, m)
                BY <4>4 DEF Talks, Conversation
            <4>6. inbox' \in Seq(Entries)
                BY <3>3, <4>5, ReadMessageStage
            <4>7. thread' \in [Clients -> {"none", "hello", "command",
                                          "message", "removing", "finished"}]
                BY <1>1, <4>1 DEF ThreadsTyped
            <4> QED BY <4>3, <4>6, <4>7 DEF ThreadsTyped
        <3> QED BY <1>3, <3>1, <3>2, <3>3 DEF Reading
    <2> QED BY <1>1, <1>2, <2>4, <2>5, TypedParts, TypesStay
<1>4. CASE Finish(c)
    <2>1. /\ thread' = [thread EXCEPT ![c] = "finished"]
          /\ UNCHANGED <<sending, rest, arrived, buffer, message, inbox>>
          /\ RemoveSocket(c)
        BY <1>4 DEF Finish
    <2>2. ThreadsTyped'
        BY <1>1, <2>1 DEF ThreadsTyped
    <2>3. StreamsTyped'
        BY <1>1, <2>1, RemoveSocketTyped DEF StreamsTyped
    <2> QED BY <1>1, <1>2, <2>2, <2>3, TypedParts, TypesStay
<1> QED BY <1>3, <1>4 DEF ThreadStep, Reading

LEMMA ServerKeepsTypes ==
    ASSUME Typed, ServerStep \/ Stop
    PROVE  Typed'
<1>1. ClientsTyped /\ StreamsTyped /\ ThreadsTyped /\ ServerTyped
      /\ FailuresTyped
    BY TypedParts
<1>2. CASE GetTimesOut \/ Join \/ Stop
    <2>1. /\ incoming' = incoming
          /\ run' \in {"get", "join", "returned"}
          /\ threads' = threads \/ threads' = Running(threads)
          /\ go' = go \/ go' = FALSE
        BY <1>1, <1>2 DEF GetTimesOut, Join, Stop, NextTurn, ServerTyped
    <2>2. ServerTyped'
        BY <1>1, <2>1 DEF ServerTyped, Running
    <2>3. UNCHANGED <<clientVars, streamVars, threadVars, <<broken, scenario>>>>
        BY <1>2 DEF GetTimesOut, Join, Stop
    <2> QED BY <1>1, <2>2, <2>3, TypedParts, TypesStay
<1>3. CASE Get
    <2> DEFINE c == Head(incoming)
    <2>1. c \in Clients /\ incoming' \in Seq(Clients)
        <3>1. incoming \in Seq(Clients) /\ incoming # <<>>
              /\ incoming' = Tail(incoming)
            BY <1>1, <1>3 DEF ServerTyped, Get
        <3> QED BY <3>1, HeadTailProperties
    <2>2. \/ /\ client' = [client EXCEPT ![c] = "talking"]
             /\ thread' = [thread EXCEPT ![c] = "hello"]
             /\ threads' = Running(threads) \union {c}
             /\ broken' = broken
          \/ /\ client' = [client EXCEPT ![c] = "talking"]
             /\ c \in scenario.faulty
             /\ threads' = Running(threads)
             /\ broken' = broken \union {c}
             /\ thread' = thread
          \/ /\ threads' = Running(threads)
             /\ UNCHANGED <<client, thread, broken>>
        BY <1>3 DEF Get
    <2>3. /\ \/ connected' = connected
             \/ \E e : connected' = [connected EXCEPT ![e] = TRUE]
             \/ \E e, f : connected' =
                             [connected EXCEPT ![e] = TRUE, ![f] = TRUE]
          /\ \/ sending' = sending
             \/ \E e : sending' = [sending EXCEPT ![e] = TRUE]
          /\ \/ rest' = rest
             \/ \E e : rest' = [rest EXCEPT ![e] = <<"220", LF>>]
        BY <1>3 DEF Get
    <2>4. UNCHANGED <<step, told, arrived, buffer, message, inbox, go, scenario>>
          /\ run' = NextTurn
        BY <1>3 DEF Get
    <2> HIDE DEF c
    <2>5. ClientsTyped'
        BY <1>1, <2>2, <2>4 DEF ClientsTyped
    <2>6. ThreadsTyped'
        BY <1>1, <2>2, <2>4 DEF ThreadsTyped
    <2>7. FailuresTyped'
        BY <1>1, <2>2, <2>4 DEF FailuresTyped
    <2>8. ServerTyped'
        BY <1>1, <2>1, <2>2, <2>4 DEF ServerTyped, Running, NextTurn
    <2>9. StreamsTyped'
        <3>1. DOMAIN rest = Ends
            BY Arrays
        <3>2. rest' = [f \in Ends |-> rest'[f]]
            BY <1>1, <2>3, <3>1 DEF StreamsTyped
        <3>3. sending' \in [Ends -> BOOLEAN]
            BY <1>1, <2>3 DEF StreamsTyped
        <3>4. connected' \in [Ends -> BOOLEAN]
            BY <1>1, <2>3 DEF StreamsTyped
        <3> QED BY <1>1, <2>4, <3>2, <3>3, <3>4 DEF StreamsTyped
    <2> QED BY <2>5, <2>6, <2>7, <2>8, <2>9, TypedParts
<1> QED BY <1>2, <1>3 DEF ServerStep

-----------------------------------------------------------------------------
(***************************************************************************)
(* The invariant.                                                          *)
(***************************************************************************)
LEMMA InvStarts ==
    ASSUME Init
    PROVE  Inv
<1>1. Typed
    <2>1. inbox \in Seq(Entries) /\ incoming \in Seq(Clients)
        BY DEF Init
    <2> QED BY <2>1 DEF Init, Typed, TypeOK
<1>2. ASSUME NEW c \in Clients
      PROVE  Talks(c)
    <2>1. /\ ClientEnd(c) \in Ends /\ ServerEnd(c) \in Ends
          /\ Peer(ClientEnd(c)) = ServerEnd(c)
          /\ Peer(ServerEnd(c)) = ClientEnd(c)
        BY TheEnds
    <2>2. /\ client[c] = "ready" /\ step[c] = 0 /\ told[c] = "nothing"
          /\ thread[c] = "none" /\ message[c] = EmptyMessage
        BY DEF Init
    <2>3. \A e \in Ends : /\ sending[e] = FALSE /\ rest[e] = <<>>
                          /\ arrived[e] = <<>> /\ buffer[e] = <<>>
        BY DEF Init
    <2>4. ~ Delivery!Kept(c)
        BY DEF Init, Delivery!Kept
    <2>5. Session(c)
        BY <2>1, <2>2, <2>3 DEF Session
    <2>6. CASE c \in scenario.foreign
        <3>1. <<>> \in Seq(ForeignWords) /\ <<>> \in Seq(Refusals)
            OBVIOUS
        <3>2. WordsOf(ClientEnd(c), ForeignWords)
              /\ WordsOf(ServerEnd(c), Refusals)
            BY <2>1, <2>3, <3>1 DEF WordsOf
        <3>3. Refused(c)
            BY <2>2, <2>4, <3>2 DEF Refused
        <3> QED BY <2>5, <2>6, <3>3 DEF Talks, Conversation
    <2>7. CASE c \notin scenario.foreign
        <3>1. Unread(0, 0) = <<>>
            BY DEF Unread
        <3>2. Flow(<<>>, <<>>, <<>>, <<>>, TRUE)
              /\ Flow(<<>>, <<>>, <<>>, <<>>, FALSE)
            BY FlowOfNothing
        <3>3. Text(ClientEnd(c), Unread(step[c], 0), client[c] # "done")
            <4>1. (client[c] # "done") = TRUE
                BY <2>2
            <4> QED BY <2>1, <2>2, <2>3, <3>1, <3>2, <4>1 DEF Text
        <3>4. Text(ServerEnd(c), <<>>, FALSE)
            BY <2>1, <2>3, <3>2 DEF Text
        <3>5. thread[c] \in Places(0) /\ message[c] = Collected(0)
            BY <2>2 DEF Places, Collected, EmptyMessage
        <3>6. Stage(c, 0)
            <4>1. Text(ServerEnd(c),
                       IF thread[c] = "none" THEN <<>>
                       ELSE Answered(step[c], 0), FALSE)
                BY <2>2, <3>4
            <4>2. /\ step[c] \in {0, 0 + 1} /\ step[c] <= 1
                  /\ Delivery!Kept(c) <=> 0 >= 5
                BY <2>2, <2>4
            <4> QED BY <3>3, <3>5, <4>1, <4>2 DEF Stage
        <3> QED BY <2>5, <2>7, <3>6 DEF Talks, Conversation
    <2> QED BY <2>6, <2>7
<1> QED BY <1>1, <1>2 DEF Inv

LEMMA InvStays ==
    ASSUME Inv, [Next]_smtpVars
    PROVE  Inv'
<1>1. Typed /\ \A d \in Clients : Talks(d)
    BY DEF Inv
<1>2. CASE Stop \/ ServerStep
    <2>1. Typed'
        BY <1>1, <1>2, ServerKeepsTypes
    <2>2. ASSUME NEW d \in Clients
          PROVE  Talks(d)'
        BY <1>1, <1>2, GetTalks, OtherTalks DEF ServerStep
    <2> QED BY <2>1, <2>2 DEF Inv
<1>3. CASE \E c \in Clients : Connect(c)
    <2>1. PICK c \in Clients : Connect(c)
        BY <1>3
    <2>2. Typed'
        BY <1>1, <2>1, ClientTyped
    <2>3. ASSUME NEW d \in Clients
          PROVE  Talks(d)'
        BY <1>1, <2>1, ConnectTalks
    <2> QED BY <2>2, <2>3 DEF Inv
<1>4. CASE \E e \in Ends : Proceed(e)
    <2>1. PICK e \in Ends : Proceed(e)
        BY <1>4
    <2>2. CASE Transmit(e) \/ Receive(e)
        <3>1. Typed'
            BY <1>1, <2>2, TransmitTyped
        <3>2. ASSUME NEW d \in Clients
              PROVE  Talks(d)'
            BY <1>1, <2>2, ArriveTalks, SendReturnsTalks, GiveUpTalks
               DEF Transmit
        <3> QED BY <3>1, <3>2 DEF Inv
    <2>3. CASE e[2] = "client" /\ ClientStep(e[1])
        <3>1. e[1] \in Clients
            BY DEF Ends
        <3>2. Typed'
            BY <1>1, <2>3, <3>1, ClientTyped
        <3>3. ASSUME NEW d \in Clients
              PROVE  Talks(d)'
            BY <1>1, <2>3, <3>1, ConnectTalks, StartTalks, CheckTalks
               DEF ClientStep
        <3> QED BY <3>2, <3>3 DEF Inv
    <2>4. CASE e[2] = "server" /\ ThreadStep(e[1])
        <3>1. e[1] \in Clients
            BY DEF Ends
        <3>2. Typed'
            BY <1>1, <2>4, <3>1, ThreadTyped
        <3>3. ASSUME NEW d \in Clients
              PROVE  Talks(d)'
            BY <1>1, <2>4, <3>1, ReadingTalks, FinishTalks
               DEF ThreadStep, Reading
        <3> QED BY <3>2, <3>3 DEF Inv
    <2> QED BY <2>1, <2>2, <2>3, <2>4 DEF Proceed
<1>5. CASE UNCHANGED smtpVars
    <2>1. UNCHANGED <<clientVars, streamVars, threadVars, serverVars,
                      <<broken, scenario>>>>
        BY <1>5 DEF smtpVars
    <2>2. Typed'
        BY <1>1, <2>1, TypedParts, TypesStay
    <2>3. ASSUME NEW d \in Clients
          PROVE  Talks(d)'
        <3>1. UNCHANGED <<client, step, told, sending, rest, arrived, buffer,
                          thread, message, inbox, scenario>>
            BY <2>1 DEF clientVars, streamVars, threadVars
        <3>2. UNCHANGED <<EndParts(ClientEnd(d)), EndParts(ServerEnd(d))>>
            BY <3>1 DEF EndParts, ClientEnd, ServerEnd
        <3>3. UNCHANGED <<scenario, client[d], step[d], told[d],
                          ThreadParts(d)>>
            BY <3>1, SameInbox DEF ThreadParts
        <3> QED BY <1>1, <3>2, <3>3, TalksOn
    <2> QED BY <2>2, <2>3 DEF Inv
<1> QED BY <1>2, <1>3, <1>4, <1>5 DEF Next

(***************************************************************************)
(* Every variable of a session keeps its type, for any number of clients.  *)
(***************************************************************************)
THEOREM TypeCorrect == Spec => []TypeOK
<1>1. Inv => TypeOK
    BY DEF Inv, Typed
<1> QED BY <1>1, InvStarts, InvStays, PTL DEF Spec

-----------------------------------------------------------------------------
(***************************************************************************)
(* The promise of MailDelivery.                                            *)
(***************************************************************************)

\* A client that is told something is told it once, and of a success only when
\* its letter is there.
LEMMA ClientTells ==
    ASSUME Inv, NEW c \in Clients, Connect(c) \/ ClientStep(c)
    PROVE  Delivery!Tell(c) \/ UNCHANGED <<told, inbox>>
<1>1. Session(c)
    BY DEF Inv, Talks
<1>2. CASE Connect(c)
    BY <1>2 DEF Connect, threadVars
<1>3. CASE ConnectTimesOut(c)
    <2>1. told[c] = "nothing"
        BY <1>1, <1>3 DEF ConnectTimesOut, Session
    <2>2. told' = [told EXCEPT ![c] = "failure"] /\ inbox' = inbox
        BY <1>3 DEF ConnectTimesOut, threadVars
    <2> QED BY <2>1, <2>2 DEF Delivery!Tell
<1>4. CASE Start(c) \/ Check(c)
    <2>1. client[c] = "talking"
        BY <1>4 DEF Start, Check, TakeLine, Reads
    <2>2. told[c] = "nothing"
        BY <1>1, <2>1 DEF Session
    <2>3. inbox' = inbox
        BY <1>4 DEF Start, Check, threadVars
    <2>4. told' = told \/ told' = [told EXCEPT ![c] = "failure"]
        BY <1>4 DEF Start, Check, Say
    <2> QED BY <2>2, <2>3, <2>4 DEF Delivery!Tell
<1>5. CASE Succeed(c)
    <2>1. told[c] = "nothing" /\ Delivery!Kept(c)
        BY <1>1, <1>5 DEF Succeed, Session
    <2>2. told' = [told EXCEPT ![c] = "success"] /\ inbox' = inbox
        BY <1>5 DEF Succeed, threadVars
    <2> QED BY <2>1, <2>2 DEF Delivery!Tell
<1> QED BY <1>2, <1>3, <1>4, <1>5 DEF ClientStep

LEMMA StepDelivers ==
    ASSUME Inv, [Next]_smtpVars
    PROVE  (\E c \in Clients : Delivery!Keep(c) \/ Delivery!Tell(c))
           \/ UNCHANGED <<told, inbox>>
<1>1. CASE Stop \/ ServerStep \/ UNCHANGED smtpVars
    BY <1>1 DEF Stop, ServerStep, Get, GetTimesOut, Join, smtpVars, clientVars,
                threadVars
<1>2. CASE \E c \in Clients : Connect(c)
    BY <1>2, ClientTells
<1>3. CASE \E e \in Ends : Proceed(e)
    <2>1. PICK e \in Ends : Proceed(e)
        BY <1>3
    <2>2. e[1] \in Clients
        BY DEF Ends
    <2>3. CASE Arrive(e) \/ SendReturns(e) \/ Receive(e)
        BY <2>3 DEF Arrive, SendReturns, Receive, clientVars, threadVars
    <2>4. CASE GiveUp(e)
        <3>1. inbox' = inbox
            BY <2>4 DEF GiveUp, threadVars
        <3>2. CASE e[2] = "client"
            <4>1. e = ClientEnd(e[1]) /\ sending[e]
                BY <2>4, <3>2 DEF Ends, ClientEnd, GiveUp
            <4>2. told[e[1]] = "nothing"
                BY <2>2, <4>1 DEF Inv, Talks, Session
            <4>3. told' = [told EXCEPT ![e[1]] = "failure"]
                BY <2>4, <3>2 DEF GiveUp
            <4>4. Delivery!Tell(e[1])
                BY <3>1, <4>2, <4>3 DEF Delivery!Tell
            <4> QED BY <2>2, <4>4
        <3>3. CASE e[2] # "client"
            BY <2>4, <3>1, <3>3 DEF GiveUp
        <3> QED BY <3>2, <3>3
    <2>5. CASE ClientStep(e[1])
        BY <2>2, <2>5, ClientTells
    <2>6. CASE ThreadStep(e[1])
        <3> DEFINE c == e[1]
        <3>1. told' = told
            BY <2>6 DEF ThreadStep, Hello, Command, ReadMessage, Finish,
                        clientVars
        <3>2. CASE Hello(c) \/ Command(c) \/ Finish(c)
            BY <3>1, <3>2 DEF Hello, Command, Finish
        <3>3. CASE ReadMessage(c)
            <4>1. Typed /\ Conversation(c) /\ ~ Refused(c)
                BY <2>2, <3>3 DEF Inv, Talks, ReadMessage, Refused
            <4>2. PICK m \in 0 .. 6 : Stage(c, m)
                BY <4>1 DEF Conversation
            <4>3. Delivery!Keep(c)
                BY <2>2, <3>3, <4>1, <4>2, ReadMessageStage
            <4> QED BY <2>2, <4>3
        <3> QED BY <2>6, <3>2, <3>3 DEF ThreadStep
    <2> QED BY <2>1, <2>3, <2>4, <2>5, <2>6 DEF Proceed, Transmit
<1> QED BY <1>1, <1>2, <1>3 DEF Next

(***************************************************************************)
(* SMTPClient::send and the inbox keep the promise of MailDelivery: for any*)
(* number of clients, texts that arrive in any pieces, and sends and       *)
(* connects that give up at any moment, the inbox gets each letter whole   *)
(* and at most once, and true means that it is there.                      *)
(***************************************************************************)
THEOREM LettersArrive == Spec => LettersDelivered
<1>1. Init => Delivery!Init
    BY DEF Init, Delivery!Init
<1>2. Inv /\ [Next]_smtpVars => [Delivery!Next]_Delivery!vars
    BY StepDelivers DEF Delivery!Next, Delivery!vars
<1> QED BY <1>1, <1>2, InvStarts, InvStays, PTL
        DEF Spec, LettersDelivered, Delivery!Spec

=============================================================================
