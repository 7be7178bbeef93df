---------------------------- MODULE Applications ----------------------------
(***************************************************************************)
(* The programs of the repository side by side: letters between hosts of   *)
(* the simulator, the mail sender, the dictionary, and the threads of a    *)
(* network layer.  They share nothing; a behaviour is one of a program, and*)
(* the variables of the others keep the values of an initial state.        *)
(***************************************************************************)
EXTENDS Integers, Sequences

CONSTANTS
    Clients,     \* of SMTPSession and of DictServer
    Scenarios,
    Letters, Missing, MaxLines,
    Rows, Limit, Garbage, Huge, Settings,
    Connections, Quiet, None, Removable, Deleting

VARIABLES
    program,
    client, step, told, connected, sending, rest, arrived, buffer, thread,
    message, inbox, incoming, run, threads, go, broken, scenario,
    files, sender, exchange, spoken, replies, mode, accepted, lines, mailbox,
    up,
    phase, asked, answers, transit, received, back, backlog, clients, server,
    word, misread, setting,
    script, owner, state, going, attached, deleted

\* The instances of SMTPSession and DictServer, with what was proved of them.
SMTP == INSTANCE MailProofs
Mail == INSTANCE MailSender
Dict == INSTANCE DictServerProofs
Locks == INSTANCE NetworkLocks

-----------------------------------------------------------------------------
sessionVars ==
    <<client, step, told, connected, sending, rest, arrived, buffer, thread,
      message, inbox, incoming, run, threads, go, broken, scenario>>
senderVars ==
    <<files, sender, exchange, spoken, replies, mode, accepted, lines,
      mailbox, up>>
dictionaryVars ==
    <<phase, asked, answers, transit, received, back, backlog, clients,
      server, word, misread, setting>>
layerVars == <<script, owner, state, going, attached, deleted>>
vars == <<program, sessionVars, senderVars, dictionaryVars, layerVars>>

Init ==
    /\ program \in {"session", "sender", "dictionary", "layer"}
    /\ SMTP!Init
    /\ Mail!Init
    /\ Dict!Init
    /\ Locks!Init

\* A step of the program that runs.
Session(A) ==
    /\ program = "session"
    /\ A
    /\ UNCHANGED <<program, senderVars, dictionaryVars, layerVars>>
Sender(A) ==
    /\ program = "sender"
    /\ A
    /\ UNCHANGED <<program, sessionVars, dictionaryVars, layerVars>>
Dictionary(A) ==
    /\ program = "dictionary"
    /\ A
    /\ UNCHANGED <<program, sessionVars, senderVars, layerVars>>
Layer(A) ==
    /\ program = "layer"
    /\ A
    /\ UNCHANGED <<program, sessionVars, senderVars, dictionaryVars>>

Next ==
    \/ Session(SMTP!Next)
    \/ Sender(Mail!Next)
    \/ Dictionary(Dict!Next)
    \/ Layer(Locks!Next)

Spec == Init /\ [][Next]_vars

\* What each module asks for: a program that runs goes on, and bytes get through
\* or are given up.
Fairness ==
    /\ WF_vars(Session(SMTP!ServerStep))
    /\ \A c \in Clients :
          /\ WF_vars(Dictionary(Dict!Arrive(c)))
          /\ WF_vars(Dictionary(Dict!ReadList(c)))
    /\ \A e \in SMTP!Ends : WF_vars(Session(SMTP!Proceed(e)))
    /\ WF_vars(Sender(Mail!SenderStep))
    /\ WF_vars(Sender(Mail!MailerStep))
    /\ WF_vars(Dictionary(Dict!ServerStep))

-----------------------------------------------------------------------------
(***************************************************************************)
(* The properties of the modules, under one name each.                     *)
(***************************************************************************)

TypeOK == SMTP!TypeOK /\ Mail!TypeOK /\ Dict!TypeOK

\* SMTPClient::send and the inbox keep the promise of MailDelivery.
LettersDelivered == SMTP!LettersDelivered

\* Both ends of a session come to their end, unless the network failed.
SessionsEnd == SMTP!SessionsEnd

\* After Host::stop SMTPServer::run returns, unless the network failed.
ServerReturns == SMTP!ServerReturns

\* send_message keeps the promise of MailDelivery.
MailHandedOver == Mail!LetterHandedOver

\* Text is sent only to a server that is ready for it.
TextIsExpected == Mail!TextIsExpected

\* send_message ends in one way or another, unless it misses the end of a reply
\* without a text.
SenderEnds ==
    []~ Mail!EndIsMissed => []<>(program # "sender" \/ sender # "running")

\* A list is the beginning of the words that begin with the word asked for.
AnswersMatch == Dict!AnswersMatch

\* The server of the dictionary dies only for a cause.
DiesForACause == Dict!DiesForACause

\* Whoever waits for a list gets it, unless the server is lost.
EveryoneIsAnswered == Dict!EveryoneIsAnswered

\* The threads of a layer never wait in a circle, unless it is deleted or loses
\* a connection that others answer on.
NoCircularWait == Locks!NoCircularWait

=============================================================================
