----------------------------- MODULE SMTPSession -----------------------------
(***************************************************************************)
(* Letters between the hosts of the simulator: SMTPClient::send on one side*)
(* of a connection; on the other side SMTPServer::run, which takes         *)
(* connections from its Listener, and an SMTPServerThread for each of them.*)
(*                                                                         *)
(* Below them are the sockets, as ReliableStream and Connection describe   *)
(* them: bytes arrive in order and in pieces, send returns true when all of*)
(* them have, gives up when they cannot, and receive without a time waits  *)
(* for bytes even if the peer has closed.  A FIN is not lost here.         *)
(*                                                                         *)
(* A text is a sequence of words; the only characters that are words of    *)
(* their own are those the code looks for.                                 *)
(***************************************************************************)
EXTENDS Naturals, Sequences, SequencesExt

CONSTANTS
    Clients,     \* hosts that send one letter each
    Scenarios    \* bound: which clients there are, see the variable scenario

VARIABLES
    client,      \* where each SMTPClient::send is
    step,        \* the exchange of the dialogue it is at
    told,        \* what it returned
    connected,   \* m_connected of both sockets of a session
    sending,     \* is a call of Socket::send going on at this end?
    rest,        \* what it has not got through yet
    arrived,     \* what receive will return at this end
    buffer,      \* m_buffer of both ends
    thread,      \* where each SMTPServerThread::run is
    message,     \* its local message
    inbox,       \* m_inbox
    incoming,    \* connections that wait in the listener
    run,         \* where SMTPServer::run is
    threads,     \* m_threads
    go,          \* m_go of the host of the server
    broken,      \* sessions in which the network failed one of the ends
    scenario     \* the clients that are there; those whose texts arrive in
                 \* pieces; those for whom sends and connects may time out;
                 \* those that say ehlo

clientVars == <<client, step, told>>
streamVars == <<connected, sending, rest, arrived, buffer>>
threadVars == <<thread, message, inbox>>
serverVars == <<incoming, run, threads, go>>
smtpVars == <<clientVars, streamVars, threadVars, serverVars, broken, scenario>>

-----------------------------------------------------------------------------
LF == "\n"
Author == "vytautas@astrauskas.lt"
Recipient == "bla@gmail.com"
Body == <<"Something", ".">>

Ends == Clients \X {"client", "server"}
Peer(e) == <<e[1], IF e[2] = "client" THEN "server" ELSE "client">>

\* What the client says and the code it wants to hear.  SMTPClient says HELO; a
\* client like the mail sender of src/smtp says ehlo.
Dialogue(c) ==
    <<[say |-> <<IF c \in scenario.foreign THEN "ehlo" ELSE "HELO", LF>>,
       code |-> "220"],
      [say |-> <<"MAIL FROM:", Author, LF>>, code |-> "250"],
      [say |-> <<"RCPT TO:", Recipient, LF>>, code |-> "250"],
      [say |-> <<"DATA", LF>>, code |-> "354"],
      [say |-> Body \o <<LF, ".", LF>>, code |-> "250"],
      [say |-> <<"QUIT", LF>>, code |-> "221"]>>

EmptyMessage == [from |-> <<>>, to |-> <<>>, body |-> <<>>]

\* What the SMTPMessage of a letter should be.
Letter == [c \in Clients |->
              [from |-> <<Author>>, to |-> <<<<Recipient>>>>, body |-> Body]]

-----------------------------------------------------------------------------
(***************************************************************************)
(* The sockets                                                             *)
(***************************************************************************)

\* A call of send starts.  One on a closed socket returns false at once.
StartSend(e, text) ==
    /\ sending' = [sending EXCEPT ![e] = connected[e]]
    /\ rest' = [rest EXCEPT ![e] = IF connected[e] THEN text ELSE <<>>]

\* Segments arrive.  A closed socket drops them.
Arrive(e) ==
    /\ connected[Peer(e)]
    /\ \E n \in 1 .. Len(rest[e]) :
          /\ n = Len(rest[e]) \/ e[1] \in scenario.split
          /\ arrived' = [arrived EXCEPT ![Peer(e)] = @ \o SubSeq(rest[e], 1, n)]
          /\ rest' = [rest EXCEPT ![e] = SubSeq(@, n + 1, Len(@))]
    /\ UNCHANGED <<clientVars, threadVars, serverVars, connected, sending,
                   buffer, broken, scenario>>

SendReturns(e) ==
    /\ sending[e]
    /\ rest[e] = <<>>
    /\ sending' = [sending EXCEPT ![e] = FALSE]
    /\ UNCHANGED <<clientVars, threadVars, serverVars, connected, rest,
                   arrived, buffer, broken, scenario>>

\* MAX_TIMEOUT_COUNT timeouts.  The client returns false and leaves its socket
\* as it is; the thread ignores the result and goes on.
GiveUp(e) ==
    LET closed == rest[e] # <<>> /\ ~ connected[Peer(e)]
    IN /\ sending[e]
       /\ closed \/ e[1] \in scenario.faulty
       /\ sending' = [sending EXCEPT ![e] = FALSE]
       /\ rest' = [rest EXCEPT ![e] = <<>>]
       /\ connected' = [connected EXCEPT ![e] = FALSE]
       /\ broken' = IF closed THEN broken ELSE broken \union {e[1]}
       /\ IF e[2] = "client"
          THEN /\ client' = [client EXCEPT ![e[1]] = "done"]
               /\ told' = [told EXCEPT ![e[1]] = "failure"]
          ELSE UNCHANGED <<client, told>>
       /\ UNCHANGED <<step, threadVars, serverVars, arrived, buffer, scenario>>

\* Does the end wait for a line, or for a whole text?
Reads(e) ==
    /\ ~ sending[e]
    /\ IF e[2] = "client" THEN client[e[1]] = "talking"
       ELSE thread[e[1]] \in {"hello", "command", "message"}

\* Mutant: readMessage looks for a dot at the end of any line.
MutTerminator(e) ==
    IF e[2] = "server" /\ thread[e[1]] = "message" THEN <<".", LF>> ELSE <<LF>>

Terminator(e) ==
    IF e[2] = "server" /\ thread[e[1]] = "message" THEN <<LF, ".", LF>>
    ELSE <<LF>>

\* The place of the terminator in m_buffer, 0 if it has not come yet.
Index(e) ==
    LET text == buffer[e]
        places == { i \in DOMAIN text :
                       IsPrefix(Terminator(e), SubSeq(text, i, Len(text))) }
    IN IF places = {} THEN 0 ELSE Min(places)

Line(e) == SubSeq(buffer[e], 1, Index(e) - 1)
StartsWith(e, word) == Line(e) # <<>> /\ Head(Line(e)) = word

\* The loop of check, readLine and readMessage.
Receive(e) ==
    /\ Reads(e)
    /\ Index(e) = 0
    /\ arrived[e] # <<>>
    /\ buffer' = [buffer EXCEPT ![e] = @ \o arrived[e]]
    /\ arrived' = [arrived EXCEPT ![e] = <<>>]
    /\ UNCHANGED <<clientVars, threadVars, serverVars, connected, sending,
                   rest, broken, scenario>>

TakeLine(e) ==
    /\ Reads(e)
    /\ Index(e) # 0
    /\ buffer' = [buffer EXCEPT ![e] =
                     SubSeq(@, Index(e) + Len(Terminator(e)), Len(@))]

\* TransportLayer::remove: its FIN closes the other end as well.
RemoveSocket(c) ==
    connected' = [e \in Ends |-> connected[e] /\ e[1] # c]

-----------------------------------------------------------------------------
(***************************************************************************)
(* SMTPClient::send                                                        *)
(***************************************************************************)

Connect(c) ==
    /\ client[c] = "ready"
    /\ c \in scenario.clients
    /\ client' = [client EXCEPT ![c] = "connecting"]
    /\ incoming' = Append(incoming, c)
    /\ UNCHANGED <<step, told, streamVars, threadVars, run, threads, go,
                   broken, scenario>>

\* A second has passed.  The request stays in the listener.
ConnectTimesOut(c) ==
    /\ client[c] = "connecting"
    /\ c \in scenario.faulty \/ run \in {"join", "returned"}
    /\ client' = [client EXCEPT ![c] = "done"]
    /\ told' = [told EXCEPT ![c] = "failure"]
    /\ UNCHANGED <<step, streamVars, threadVars, serverVars, broken, scenario>>

\* SEND, after connect or after the reply that was wanted.
Say(c, k) ==
    IF connected[<<c, "client">>]
    THEN /\ StartSend(<<c, "client">>, Dialogue(c)[k].say)
         /\ step' = [step EXCEPT ![c] = k]
         /\ UNCHANGED <<client, told>>
    ELSE /\ client' = [client EXCEPT ![c] = "done"]
         /\ told' = [told EXCEPT ![c] = "failure"]
         /\ UNCHANGED <<step, sending, rest>>

Start(c) ==
    /\ client[c] = "talking"
    /\ step[c] = 0
    /\ Say(c, 1)
    /\ UNCHANGED <<connected, arrived, buffer, threadVars, serverVars, broken,
                   scenario>>

\* CHECK, and the next SEND.
Check(c) ==
    LET e == <<c, "client">>
        k == step[c]
    IN /\ k # 0
       /\ TakeLine(e)
       /\ IF ~ StartsWith(e, Dialogue(c)[k].code)
          THEN /\ client' = [client EXCEPT ![c] = "done"]
               /\ told' = [told EXCEPT ![c] = "failure"]
               /\ UNCHANGED <<step, sending, rest>>
          ELSE IF k < Len(Dialogue(c)) THEN Say(c, k + 1)
          ELSE /\ client' = [client EXCEPT ![c] = "removing"]
               /\ UNCHANGED <<told, step, sending, rest>>
       /\ UNCHANGED <<connected, arrived, threadVars, serverVars, broken,
                      scenario>>

Succeed(c) ==
    /\ client[c] = "removing"
    /\ RemoveSocket(c)
    /\ client' = [client EXCEPT ![c] = "done"]
    /\ told' = [told EXCEPT ![c] = "success"]
    /\ UNCHANGED <<step, sending, rest, arrived, buffer, threadVars,
                   serverVars, broken, scenario>>

-----------------------------------------------------------------------------
(***************************************************************************)
(* SMTPServerThread::run                                                   *)
(***************************************************************************)

Reply(c, code) == StartSend(<<c, "server">>, <<code, LF>>)

Hello(c) ==
    /\ thread[c] = "hello"
    /\ TakeLine(<<c, "server">>)
    /\ IF StartsWith(<<c, "server">>, "HELO")
       THEN /\ thread' = [thread EXCEPT ![c] = "command"]
            /\ UNCHANGED <<sending, rest>>
       ELSE /\ thread' = [thread EXCEPT ![c] = "removing"]
            /\ Reply(c, "221")
    /\ UNCHANGED <<clientVars, connected, arrived, message, inbox, serverVars,
                   broken, scenario>>

\* Mutant: the thread does not leave its loop after QUIT.
MutAfterLine(e) ==
    IF StartsWith(e, "DATA") THEN "message"
    ELSE IF ~ connected[e] THEN "removing"
    ELSE "command"

\* Lines that are no command get no reply; they end a session that is closed.
AfterLine(e) ==
    CASE StartsWith(e, "DATA") -> "message"
      [] StartsWith(e, "QUIT") -> "removing"
      [] StartsWith(e, "MAIL FROM:") \/ StartsWith(e, "RCPT TO:") -> "command"
      [] OTHER -> IF connected[e] THEN "command" ELSE "removing"

Command(c) ==
    LET e == <<c, "server">>
        argument == Tail(Line(e))
    IN /\ thread[c] = "command"
       /\ TakeLine(e)
       /\ thread' = [thread EXCEPT ![c] = AfterLine(e)]
       /\ CASE StartsWith(e, "MAIL FROM:") ->
                  /\ message' = [message EXCEPT ![c].from = argument]
                  /\ Reply(c, "250")
            [] StartsWith(e, "RCPT TO:") ->
                  /\ message' = [message EXCEPT ![c].to = Append(@, argument)]
                  /\ Reply(c, "250")
            [] StartsWith(e, "DATA") -> Reply(c, "354") /\ UNCHANGED message
            [] StartsWith(e, "QUIT") -> Reply(c, "221") /\ UNCHANGED message
            [] OTHER -> UNCHANGED <<message, sending, rest>>
       /\ UNCHANGED <<clientVars, connected, arrived, inbox, serverVars, broken,
                      scenario>>

\* readMessage, and SMTPServer::append before the reply.  Nothing is said to an
\* empty text.
ReadMessage(c) ==
    LET e == <<c, "server">>
        letter == [message[c] EXCEPT !.body = Line(e)]
    IN /\ thread[c] = "message"
       /\ TakeLine(e)
       /\ message' = [message EXCEPT ![c] = letter]
       /\ thread' = [thread EXCEPT ![c] = "command"]
       /\ IF letter.body # <<>>
          THEN /\ inbox' = Append(inbox, [sender |-> c, letter |-> letter])
               /\ Reply(c, "250")
          ELSE UNCHANGED <<inbox, sending, rest>>
       /\ UNCHANGED <<clientVars, connected, arrived, serverVars, broken,
                      scenario>>

Finish(c) ==
    /\ thread[c] = "removing"
    /\ ~ sending[<<c, "server">>]
    /\ RemoveSocket(c)
    /\ thread' = [thread EXCEPT ![c] = "finished"]
    /\ UNCHANGED <<clientVars, sending, rest, arrived, buffer, message, inbox,
                   serverVars, broken, scenario>>

-----------------------------------------------------------------------------
(***************************************************************************)
(* SMTPServer::run                                                         *)
(***************************************************************************)

Running(set) == {c \in set : thread[c] # "finished"}

\* The loop asks for m_go after each get.
NextTurn == IF go THEN "get" ELSE "join"

\* Listener::get takes a request: both ends are connected, only the client is,
\* or none.  A thread starts for a connected socket, and sends first of all.
Get ==
    /\ run = "get"
    /\ incoming # <<>>
    /\ incoming' = Tail(incoming)
    /\ run' = NextTurn
    /\ LET c == Head(incoming)
           e == <<c, "server">>
       IN \/ /\ client[c] = "connecting"
             /\ client' = [client EXCEPT ![c] = "talking"]
             /\ connected' = [connected EXCEPT ![e] = TRUE, ![Peer(e)] = TRUE]
             /\ thread' = [thread EXCEPT ![c] = "hello"]
             /\ threads' = Running(threads) \union {c}
             /\ sending' = [sending EXCEPT ![e] = TRUE]
             /\ rest' = [rest EXCEPT ![e] = <<"220", LF>>]
             /\ UNCHANGED broken
          \/ /\ client[c] = "connecting"
             /\ c \in scenario.faulty
             /\ client' = [client EXCEPT ![c] = "talking"]
             /\ connected' = [connected EXCEPT ![Peer(e)] = TRUE]
             /\ threads' = Running(threads)
             /\ broken' = broken \union {c}
             /\ UNCHANGED <<thread, sending, rest>>
          \/ /\ client[c] = "done" \/ c \in scenario.faulty
             /\ threads' = Running(threads)
             /\ UNCHANGED <<client, connected, thread, sending, rest, broken,
                            scenario>>
    /\ UNCHANGED <<step, told, arrived, buffer, message, inbox, go, scenario>>

\* Mutant: get is called without a time.
MutGetTimesOut == FALSE

\* A second without a request.
GetTimesOut ==
    /\ run = "get"
    /\ incoming = <<>>
    /\ run' = NextTurn
    /\ threads' = Running(threads)
    /\ UNCHANGED <<clientVars, streamVars, threadVars, incoming, go, broken,
                   scenario>>

Join ==
    /\ run = "join"
    /\ Running(threads) = {}
    /\ run' = "returned"
    /\ UNCHANGED <<clientVars, streamVars, threadVars, incoming, threads, go,
                   broken, scenario>>

\* Host::stop, from whatever thread.
Stop ==
    /\ go
    /\ go' = FALSE
    /\ UNCHANGED <<clientVars, streamVars, threadVars, incoming, run, threads,
                   broken, scenario>>

-----------------------------------------------------------------------------
Init ==
    /\ client = [c \in Clients |-> "ready"]
    /\ step = [c \in Clients |-> 0]
    /\ told = [c \in Clients |-> "nothing"]
    /\ connected = [e \in Ends |-> FALSE]
    /\ sending = [e \in Ends |-> FALSE]
    /\ rest = [e \in Ends |-> <<>>]
    /\ arrived = [e \in Ends |-> <<>>]
    /\ buffer = [e \in Ends |-> <<>>]
    /\ thread = [c \in Clients |-> "none"]
    /\ message = [c \in Clients |-> EmptyMessage]
    /\ inbox = <<>>
    /\ incoming = <<>>
    /\ run = "get"
    /\ threads = {}
    /\ go = TRUE
    /\ broken = {}
    /\ scenario \in Scenarios

Transmit(e) == Arrive(e) \/ SendReturns(e) \/ GiveUp(e)
ClientStep(c) == ConnectTimesOut(c) \/ Start(c) \/ Check(c) \/ Succeed(c)
ThreadStep(c) == Hello(c) \/ Command(c) \/ ReadMessage(c) \/ Finish(c)
ServerStep == Get \/ GetTimesOut \/ Join

\* Each end is one thread, which waits for its send, or reads, or goes on.
Proceed(e) ==
    \/ Transmit(e)
    \/ Receive(e)
    \/ e[2] = "client" /\ ClientStep(e[1])
    \/ e[2] = "server" /\ ThreadStep(e[1])

Next ==
    \/ Stop
    \/ ServerStep
    \/ \E c \in Clients : Connect(c)
    \/ \E e \in Ends : Proceed(e)

Spec == Init /\ [][Next]_smtpVars

-----------------------------------------------------------------------------
(***************************************************************************)
(* Properties                                                              *)
(***************************************************************************)

TypeOK ==
    /\ client \in [Clients -> {"ready", "connecting", "talking", "removing",
                               "done"}]
    /\ step \in [Clients -> 0 .. 6]
    /\ told \in [Clients -> {"nothing", "success", "failure"}]
    /\ connected \in [Ends -> BOOLEAN]
    /\ sending \in [Ends -> BOOLEAN]
    /\ thread \in [Clients -> {"none", "hello", "command", "message",
                               "removing", "finished"}]
    /\ run \in {"get", "join", "returned"}
    /\ threads \subseteq Clients
    /\ go \in BOOLEAN
    /\ broken \subseteq scenario.faulty

(***************************************************************************)
(* SMTPClient::send and the inbox keep the promise of MailDelivery: with   *)
(* texts that arrive in any pieces, sends that give up at any moment and   *)
(* threads that append to one inbox, true means that the whole letter is   *)
(* there, and there is never a second copy or a part of one.               *)
(***************************************************************************)
Delivery == INSTANCE MailDelivery WITH Senders <- Clients
LettersDelivered == Delivery!Spec

(***************************************************************************)
(* No session lasts for ever, refused ones included: it comes to its end at*)
(* both ends, unless the network failed.  check and readLine wait for good *)
(* for a peer that has gone, so each reply must come before its sender may *)
(* leave.                                                                  *)
(***************************************************************************)
SessionsEnd ==
    \A c \in Clients :
        []<>(\/ client[c] = "ready"
             \/ client[c] = "done" /\ thread[c] \in {"none", "finished"}
             \/ c \in broken)

(***************************************************************************)
(* After Host::stop SMTPServer::run comes back and has waited for every    *)
(* thread, unless the network failed a session: then its thread may read   *)
(* for ever and run with it.                                               *)
(***************************************************************************)
ServerReturns == []<>(go \/ run = "returned" \/ broken # {})

=============================================================================
