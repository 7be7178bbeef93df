----------------------------- MODULE DictServer -----------------------------
(***************************************************************************)
(* The dictionary of src/dict: one server process that serves all clients  *)
(* in one loop around select, and client programs that ask it for words.   *)
(*                                                                         *)
(* Words are sequences of letters 1, 2, 3... in the order of the file; the *)
(* character = that ends the word of a row comes before all of them.  What *)
(* a client writes are numbers: the two halves of the length of the word,  *)
(* which may arrive apart, and its letters.                                *)
(***************************************************************************)
EXTENDS Integers, Sequences, SequencesExt

CONSTANTS
    Clients,
    Rows,        \* the words of the file
    Limit,       \* how many matches end a search, 10 in the code
    Garbage,     \* bound: values of an uninitialized length
    Huge,        \* one of them, for which there may be no memory
    Settings     \* bound: what may happen, see the variable setting

VARIABLES
    phase,       \* what each client program does
    asked,       \* the words it has asked for
    answers,     \* the lists it has read
    transit,     \* what it has written and has not arrived
    received,    \* what waits at the server
    back,        \* lists on their way to it
    backlog,     \* connections accept_client has not taken
    clients,     \* the list of connections
    server,      \* where start is: what it does, for which place of the list
    word,        \* the length and the letters of the Word that is being read
    misread,     \* clients of whose length the server has read a half
    setting      \* the words that are asked for, and how many of them by a
                 \* client; the clients who may leave; those whose lengths may
                 \* arrive in two halves; those whose address has no name

clientVars == <<phase, asked, answers>>
networkVars == <<transit, received, back, backlog>>
serverVars == <<clients, server, word, misread, setting>>
dictVars == <<clientVars, networkVars, serverVars>>

-----------------------------------------------------------------------------
(***************************************************************************)
(* Dict::search                                                            *)
(***************************************************************************)

\* The first place where the row is not the query; the = ends the row.
Differences(row, query) ==
    { j \in DOMAIN query : j > Len(row) \/ row[j] # query[j] }

Matches(row, query) == Differences(row, query) = {}

IsGreater(row, query) ==
    LET j == Min(Differences(row, query))
    IN ~ Matches(row, query) /\ j <= Len(row) /\ row[j] > query[j]

\* The matches among the first rows, after any number of them.
Found(n, query) ==
    LET found[i \in 0 .. Len(Rows)] ==
            IF i = 0 THEN <<>>
            ELSE IF Matches(Rows[i], query) THEN Append(found[i - 1], Rows[i])
            ELSE found[i - 1]
    IN found[n]

\* Mutant: one match too many.
MutStops(query) ==
    { n \in DOMAIN Rows :
        IsGreater(Rows[n], query) \/ Len(Found(n, query)) > Limit }

\* The rows after which the search returns.
Stops(query) ==
    { n \in DOMAIN Rows :
        IsGreater(Rows[n], query) \/ Len(Found(n, query)) = Limit }

\* fgets fails at the end of the file, and nobody looks: the last row is
\* compared again and again.  If it is less than the query, for ever.  If it
\* matches, its = was replaced by the end of the word, and the loop that looks
\* for the = runs on through the meaning and behind it: the same word again, or
\* a crash.
PastTheEnd(query) == Stops(query) = {}
LastMatches(query) == Rows # <<>> /\ Matches(Last(Rows), query)

Search(query) ==
    IF ~ PastTheEnd(query) THEN Found(Min(Stops(query)), query)
    ELSE LET found == Found(Len(Rows), query)
         IN found \o [k \in 1 .. Limit - Len(found) |-> Last(Rows)]

-----------------------------------------------------------------------------
(***************************************************************************)
(* Server::start and handle_new_connection                                 *)
(***************************************************************************)

\* The connection has been closed, and all that was written was read.
AtEnd(c) == phase[c] = "gone" /\ transit[c] = <<>> /\ received[c] = <<>>
IsReadable(c) == received[c] # <<>> \/ AtEnd(c)

NoWord == [length |-> 0, letters |-> <<>>]
At(what) == server.at = what
Current == clients[server.place]
GoTo(what, place) == server' = [at |-> what, place |-> place]

StartTurn ==
    /\ At("select")
    /\ backlog = <<>>
    /\ \E i \in DOMAIN clients : IsReadable(clients[i])
    /\ GoTo("clients", 1)
    /\ UNCHANGED <<clientVars, networkVars, clients, word, misread, setting>>

\* A new connection.  Without a name the exception leaves start.
Accept ==
    /\ At("select")
    /\ backlog # <<>>
    /\ backlog' = Tail(backlog)
    /\ IF Head(backlog) \in setting.nameless
       THEN GoTo("dead", 0) /\ UNCHANGED clients
       ELSE /\ clients' = Append(clients, Head(backlog))
            /\ GoTo("clients", 1)
    /\ UNCHANGED <<clientVars, transit, received, back, word, misread, setting>>

\* Mutant: a new connection ends the turn.
MutEndTurn ==
    /\ At("clients")
    /\ server.place = Len(clients)
    /\ GoTo("select", 0)
    /\ UNCHANGED <<clientVars, networkVars, clients, word, misread, setting>>

EndTurn ==
    /\ At("clients")
    /\ server.place > Len(clients)
    /\ GoTo("select", 0)
    /\ UNCHANGED <<clientVars, networkVars, clients, word, misread, setting>>

\* new char[length + 1], if there is the memory; else the exception leaves
\* start.
Allocate(length) ==
    \/ /\ GoTo("body", server.place)
       /\ word' = [length |-> length, letters |-> <<>>]
    \/ length = Huge /\ GoTo("dead", 0) /\ UNCHANGED word

\* Mutant: a read without data is taken for a length.
MutNoData ==
    /\ At("clients")
    /\ server.place <= Len(clients)
    /\ ~ IsReadable(Current)
    /\ \E length \in Garbage : Allocate(length)
    /\ UNCHANGED <<clientVars, networkVars, clients, misread, setting>>

\* The set of all descriptors is asked, so every client gets its turn; the read
\* does not wait.
NoData ==
    /\ At("clients")
    /\ server.place <= Len(clients)
    /\ ~ IsReadable(Current)
    /\ GoTo("clients", server.place + 1)
    /\ UNCHANGED <<clientVars, networkVars, clients, word, misread, setting>>

\* Four bytes are asked for, and any number above 0 is taken for all of them.
ReadLength ==
    /\ At("clients")
    /\ server.place <= Len(clients)
    /\ received[Current] # <<>>
    /\ LET half == Len(received[Current]) = 1
       IN /\ received' = [received EXCEPT ![Current] =
                             IF half THEN <<>> ELSE Tail(Tail(@))]
          /\ misread' = IF half THEN misread \union {Current} ELSE misread
          /\ IF half THEN \E length \in Garbage : Allocate(length)
             ELSE Allocate(received[Current][2])
    /\ UNCHANGED <<clientVars, transit, back, backlog, clients, setting>>

\* Mutant: the loop goes on behind the place that was erased.
MutErase ==
    /\ clients' = RemoveAt(clients, server.place)
    /\ GoTo("clients", server.place + 1)

\* The turn ends here: the iterator is gone.
Erase ==
    /\ clients' = RemoveAt(clients, server.place)
    /\ GoTo("select", 0)

\* 0 is no error: the length is what was in memory before.  After an answer to a
\* closed connection it may be an error.
ReadAtEnd ==
    /\ At("clients")
    /\ server.place <= Len(clients)
    /\ AtEnd(Current)
    /\ \/ Erase /\ UNCHANGED word
       \/ (\E length \in Garbage : Allocate(length)) /\ UNCHANGED clients
    /\ UNCHANGED <<clientVars, networkVars, misread, setting>>

\* The rest of the word is waited for.
ReadBody ==
    LET missing == word.length - Len(word.letters)
    IN /\ At("body")
       /\ missing > 0
       /\ received[Current] # <<>>
       /\ \E n \in {IF missing < Len(received[Current]) THEN missing
                    ELSE Len(received[Current])} :
             /\ word' = [word EXCEPT !.letters =
                            @ \o SubSeq(received[Current], 1, n)]
             /\ received' = [received EXCEPT ![Current] =
                                SubSeq(@, n + 1, Len(@))]
       /\ UNCHANGED <<clientVars, transit, back, backlog, clients, server,
                      misread, setting>>

UncompletePackage ==
    /\ At("body")
    /\ Len(word.letters) < word.length
    /\ AtEnd(Current)
    /\ Erase
    /\ word' = NoWord
    /\ UNCHANGED <<clientVars, networkVars, misread, setting>>

\* The list is sent.  A client that has gone does not read it, and the second
\* write on its connection kills the server.  One that is searched for for ever
\* is never sent.
Answer ==
    LET query == word.letters
    IN /\ At("body")
       /\ Len(query) = word.length
       /\ PastTheEnd(query) => LastMatches(query)
       /\ \/ /\ back' = IF phase[Current] = "gone" THEN back
                        ELSE [back EXCEPT ![Current] =
                                 Append(@, Search(query))]
             /\ GoTo("clients", server.place + 1)
             /\ word' = NoWord
          \/ /\ phase[Current] = "gone" \/ PastTheEnd(query)
             /\ GoTo("dead", 0)
             /\ UNCHANGED <<back, word>>
       /\ UNCHANGED <<clientVars, transit, received, backlog, clients,
                      misread, setting>>

-----------------------------------------------------------------------------
(***************************************************************************)
(* The client program                                                      *)
(***************************************************************************)

Join(c) ==
    /\ phase[c] = "away"
    /\ phase' = [phase EXCEPT ![c] = "idle"]
    /\ backlog' = Append(backlog, c)
    /\ UNCHANGED <<asked, answers, transit, received, back, serverVars>>

Ask(c) ==
    /\ phase[c] = "idle"
    /\ Len(asked[c]) < setting.asks
    /\ phase' = [phase EXCEPT ![c] = "waiting"]
    /\ \E query \in setting.queries :
          /\ asked' = [asked EXCEPT ![c] = Append(@, query)]
          /\ transit' = [transit EXCEPT ![c] = @ \o <<0, Len(query)>> \o query]
    /\ UNCHANGED <<answers, received, back, backlog, serverVars>>

\* A length comes whole, unless it is torn; letters come as they like.
Arrive(c) ==
    /\ \E n \in 1 .. Len(transit[c]) :
          /\ n = 1 /\ Len(transit[c]) > Len(Last(asked[c]))
                => c \in setting.torn
          /\ received' = [received EXCEPT ![c] = @ \o SubSeq(transit[c], 1, n)]
          /\ transit' = [transit EXCEPT ![c] = SubSeq(@, n + 1, Len(@))]
    /\ UNCHANGED <<clientVars, back, backlog, serverVars>>

ReadList(c) ==
    /\ phase[c] = "waiting"
    /\ back[c] # <<>>
    /\ phase' = [phase EXCEPT ![c] = "idle"]
    /\ answers' = [answers EXCEPT ![c] = Append(@, Head(back[c]))]
    /\ back' = [back EXCEPT ![c] = Tail(@)]
    /\ UNCHANGED <<asked, transit, received, backlog, serverVars>>

\* The server has gone: the number of words stays what was in memory before, and
\* the program ends with an error, or believes in an empty list.
ReadNothing(c) ==
    /\ phase[c] = "waiting"
    /\ back[c] = <<>>
    /\ At("dead")
    /\ \/ phase' = [phase EXCEPT ![c] = "gone"] /\ UNCHANGED answers
       \/ /\ phase' = [phase EXCEPT ![c] = "idle"]
          /\ answers' = [answers EXCEPT ![c] = Append(@, <<>>)]
    /\ UNCHANGED <<asked, networkVars, serverVars>>

Leave(c) ==
    /\ phase[c] \in {"idle", "waiting"}
    /\ c \in setting.leaving
    /\ phase' = [phase EXCEPT ![c] = "gone"]
    /\ back' = [back EXCEPT ![c] = <<>>]
    /\ UNCHANGED <<asked, answers, transit, received, backlog, serverVars>>

-----------------------------------------------------------------------------
Init ==
    /\ phase = [c \in Clients |-> "away"]
    /\ asked = [c \in Clients |-> <<>>]
    /\ answers = [c \in Clients |-> <<>>]
    /\ transit = [c \in Clients |-> <<>>]
    /\ received = [c \in Clients |-> <<>>]
    /\ back = [c \in Clients |-> <<>>]
    /\ backlog = <<>>
    /\ clients = <<>>
    /\ server = [at |-> "select", place |-> 0]
    /\ word = NoWord
    /\ misread = {}
    /\ setting \in Settings

ServerStep ==
    \/ StartTurn
    \/ Accept
    \/ EndTurn
    \/ NoData
    \/ ReadLength
    \/ ReadAtEnd
    \/ ReadBody
    \/ UncompletePackage
    \/ Answer

Next ==
    \/ ServerStep
    \/ \E c \in Clients :
          \/ Join(c)
          \/ Ask(c)
          \/ Arrive(c)
          \/ ReadList(c)
          \/ ReadNothing(c)
          \/ Leave(c)

Spec == Init /\ [][Next]_dictVars

-----------------------------------------------------------------------------
(***************************************************************************)
(* Properties                                                              *)
(***************************************************************************)

TypeOK ==
    /\ phase \in [Clients -> {"away", "idle", "waiting", "gone"}]
    /\ \A c \in Clients : Len(answers[c]) <= Len(asked[c])
    /\ server \in [at : {"select", "clients", "body", "dead"},
                   place : 0 .. Len(clients) + 1]
    /\ misread \subseteq Clients

(***************************************************************************)
(* README.rst: the server searches by the beginning of a word.  Each list a*)
(* client reads is the beginning of all words that begin with the word it  *)
(* asked for: its own last word, whatever other clients wrote, however the *)
(* bytes came and whoever has left.  Excused are words behind the end of   *)
(* the file, a client whose length was torn, and the list a client makes up*)
(* when the server has died.                                               *)
(***************************************************************************)
Beginning(query) ==
    LET all[i \in 0 .. Len(Rows)] ==
            IF i = 0 THEN <<>>
            ELSE all[i - 1] \o
                 IF IsPrefix(query, Rows[i]) THEN <<Rows[i]>> ELSE <<>>
    IN all[Len(Rows)]

Expected(query) ==
    LET all == Beginning(query)
    IN SubSeq(all, 1, IF Len(all) < Limit THEN Len(all) ELSE Limit)

AnswersMatch ==
    \A c \in Clients \ misread : \A k \in DOMAIN answers[c] :
        \/ answers[c][k] = Expected(asked[c][k])
        \/ PastTheEnd(asked[c][k])
        \/ At("dead") /\ answers[c][k] = <<>>

(***************************************************************************)
(* No client waits for ever, whatever the others do and leave undone: it   *)
(* gets its list or leaves, unless the server has died, searches for ever, *)
(* or is in the middle of a word of which it has read half a length.       *)
(***************************************************************************)
SearchesForEver ==
    /\ At("body")
    /\ Len(word.letters) = word.length
    /\ PastTheEnd(word.letters)

EveryoneIsAnswered ==
    \A c \in Clients :
        []<>(\/ phase[c] # "waiting"
             \/ At("dead")
             \/ SearchesForEver
             \/ At("body") /\ Current \in misread)

(***************************************************************************)
(* The server dies only for a cause: a client without a name, one that left*)
(* (its unread length, or an answer nobody reads), half a length, or a word*)
(* behind the end of the file.  No other sequence of calls brings it there.*)
(***************************************************************************)
DiesForACause ==
    At("dead") =>
        \/ \E c \in Clients :
              phase[c] = "gone" \/ (c \in setting.nameless /\ phase[c] # "away")
        \/ misread # {}
        \/ PastTheEnd(word.letters)

=============================================================================
