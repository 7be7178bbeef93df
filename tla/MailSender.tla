----------------------------- MODULE MailSender -----------------------------
(***************************************************************************)
(* The mail program of src/smtp: send_message hands one letter over to a   *)
(* mail server, through fscanf, fgetc and fprintf on a TCP connection.  The*)
(* server is not part of the repository: here it is any that answers each  *)
(* command with one reply, of one or more lines, accepts or refuses as it  *)
(* likes, and may go away at any moment.                                   *)
(***************************************************************************)
EXTENDS Integers, Sequences, SequencesExt

CONSTANTS
    Letters,     \* bound: the files of the letters that are tried
    Missing,     \* the contents of a file that cannot be opened
    MaxLines     \* bound: lines of a reply

VARIABLES
    files,       \* what the parts of the letter are made of
    sender,      \* how send_message goes on, or how it ended
    exchange,    \* which reply it waits for
    spoken,      \* lines on their way to the server
    replies,     \* lines on their way back
    mode,        \* what the server takes the next line for
    accepted,    \* commands it has accepted
    lines,       \* text it has received
    mailbox,     \* texts it has accepted
    up           \* is it still there?

senderVars == <<sender, exchange>>
mailerVars == <<mode, accepted, lines, mailbox, up>>
mailVars == <<files, senderVars, spoken, replies, mailerVars>>

-----------------------------------------------------------------------------
(***************************************************************************)
(* encoders.cpp.  A character of the code is the number of its place in    *)
(* B64_TABLE; accumulator is unsigned, and bits above the lowest 16 are    *)
(* never used again.                                                       *)
(***************************************************************************)

Pad == 64
Nothing == [accumulator |-> 0, bits |-> 0, out |-> <<>>]

Shifted(s, width, value) ==
    [s EXCEPT !.accumulator = (@ * 2 ^ width + value) % 2 ^ 16,
              !.bits = @ + width]

\* As many units of this width as have been collected.
Emitted(s, width) ==
    LET count == s.bits \div width
        Unit(k) == (s.accumulator \div 2 ^ (s.bits - k * width)) % 2 ^ width
    IN [s EXCEPT !.bits = @ % width,
                 !.out = @ \o [k \in 1 .. count |-> Unit(k)]]

\* Mutant: the last bits are not moved to the upper end of their sextet.
MutTrailing(s) == IF s.bits > 0 THEN <<s.accumulator % 2 ^ s.bits>> ELSE <<>>

Trailing(s) ==
    IF s.bits > 0 THEN <<(s.accumulator * 2 ^ (6 - s.bits)) % 2 ^ 6>> ELSE <<>>

base64_encode(data) ==
    LET Step(s, byte) == Emitted(Shifted(s, 8, byte), 6)
        s == FoldLeft(Step, Nothing, data)
        code == s.out \o Trailing(s)
        padding == 4 * ((Len(data) + 2) \div 3) - Len(code)
    IN code \o [k \in 1 .. padding |-> Pad]

base64_decode(code) ==
    LET Step(s, c) == IF c = Pad THEN s ELSE Emitted(Shifted(s, 6, c), 8)
    IN FoldLeft(Step, Nothing, code).out

-----------------------------------------------------------------------------
(***************************************************************************)
(* mime.cpp and utils.cpp: the lines of the letter, up to the first file   *)
(* that read_file cannot open.                                             *)
(***************************************************************************)

Item(word) == [word |-> word, data |-> <<>>]

PartLines(file) ==
    <<Item("boundary"), Item("header")>> \o
        IF file = Missing THEN <<>>
        ELSE <<[word |-> "base64", data |-> base64_encode(file)]>>

Absent(letter) == {k \in DOMAIN letter : letter[k] = Missing}

\* The parts that are begun: up to the first missing one, that one included.
Begun(letter) ==
    IF Absent(letter) = {} THEN letter
    ELSE SubSeq(letter, 1, Min(Absent(letter)))

MessageLines(letter) ==
    <<Item("header")>> \o
        FlattenSeq([k \in DOMAIN Begun(letter) |-> PartLines(letter[k])]) \o
        IF Absent(letter) = {} THEN <<Item("end")>> ELSE <<>>

TextWords == {"header", "boundary", "base64", "end", "dot"}

-----------------------------------------------------------------------------
(***************************************************************************)
(* sender.cpp                                                              *)
(***************************************************************************)

Codes == <<220, 250, 250, 250, 354, 250, 221>>
Words == <<"", "ehlo", "MAIL", "RCPT", "DATA", "", "QUIT">>

\* What is written before the reply of the exchange is read.  A missing file
\* ends the call in the middle of the text; the destructor of the socket still
\* sends what was written.  A write on a closed connection may kill the process.
Say(k) ==
    \/ /\ k # 6
       /\ spoken' = Append(spoken, Item(Words[k]))
       /\ UNCHANGED sender
    \/ /\ k = 6
       /\ Absent(files) = {}
       /\ spoken' = spoken \o MessageLines(files) \o <<Item("dot")>>
       /\ UNCHANGED sender
    \/ /\ k = 6
       /\ Absent(files) # {}
       /\ spoken' = spoken \o MessageLines(files)
       /\ sender' = "threw"
    \/ /\ ~ up
       /\ sender' = "killed"
       /\ UNCHANGED spoken

\* Mutant: the reply to DATA is not looked at.
MutIsWanted(line) == exchange = 5 \/ line.code = Codes[exchange]

IsWanted(line) == line.code = Codes[exchange]

\* Mutant: the loop after ehlo reads one line too many.
MutEhloGoesOn(line) == exchange = 2

\* The reply to ehlo may have many lines; the code of the last is not looked at.
\* get_line knows the last one by the space behind its code.
EhloGoesOn(line) == exchange = 2 /\ line.behind # " "

\* The line is read to its end.  If nothing stands behind the code, the newline
\* is taken for the character behind it, and the line that is read is the next:
\* get_line waits until there is one.
ReadLine ==
    /\ replies # <<>>
    /\ \/ /\ Head(replies).behind # "\n"
          /\ replies' = Tail(replies)
       \/ /\ Head(replies).behind = "\n"
          /\ Tail(replies) # <<>>
          /\ replies' = Tail(Tail(replies))

GetLine ==
    /\ sender = "running"
    /\ ReadLine
    /\ LET line == Head(replies)
       IN \/ /\ EhloGoesOn(line)
             /\ sender' = IF IsWanted(line) THEN "running" ELSE "threw"
             /\ UNCHANGED <<exchange, spoken>>
          \/ /\ ~ EhloGoesOn(line)
             /\ IsWanted(line) \/ exchange = 2
             /\ exchange < Len(Codes)
             /\ exchange' = exchange + 1
             /\ Say(exchange + 1)
          \/ /\ ~ EhloGoesOn(line)
             /\ IsWanted(line)
             /\ exchange = Len(Codes)
             /\ sender' = "returned"
             /\ UNCHANGED <<exchange, spoken>>
          \/ /\ ~ IsWanted(line)
             /\ exchange # 2
             /\ sender' = "threw"
             /\ UNCHANGED <<exchange, spoken>>
    /\ UNCHANGED <<files, mailerVars>>

\* At the end of the input fgetc returns EOF for ever: the loop of get_line
\* writes behind the end of msg until the process is killed.  A server that went
\* away may have taken its last replies with it.
GetLineAtEnd ==
    /\ sender = "running"
    /\ ~ up
    /\ sender' = "overran"
    /\ UNCHANGED <<files, exchange, spoken, replies, mailerVars>>

-----------------------------------------------------------------------------
(***************************************************************************)
(* A mail server (external)                                                *)
(***************************************************************************)

\* What stands behind the code of a line: "-" if more will follow; a space and a
\* text in the last one, or nothing, with or without a carriage return.
LastBehind == {" ", "\r", "\n"}

Reply(code) ==
    \E n \in 1 .. MaxLines, b \in LastBehind :
        replies' = replies \o
            [i \in 1 .. n |-> [code |-> code, behind |-> IF i = n THEN b ELSE "-"]]

Greet ==
    /\ up
    /\ mode = "greeting"
    /\ mode' = "command"
    /\ Reply(220) \/ Reply(550)
    /\ UNCHANGED <<files, senderVars, spoken, accepted, lines, mailbox, up>>

CodeOf(word) ==
    CASE word = "DATA" -> 354
      [] word = "QUIT" -> 221
      [] OTHER -> 250

Answer ==
    /\ up
    /\ mode = "command"
    /\ spoken # <<>>
    /\ spoken' = Tail(spoken)
    /\ LET word == Head(spoken).word
       IN \/ /\ word \notin TextWords
             /\ word = "DATA" => {"MAIL", "RCPT"} \subseteq accepted
             /\ accepted' = accepted \union {word}
             /\ mode' = IF word = "DATA" THEN "data" ELSE "command"
             /\ Reply(CodeOf(word))
          \/ /\ word # "QUIT"
             /\ Reply(550)
             /\ UNCHANGED <<accepted, mode>>
    /\ UNCHANGED <<files, senderVars, lines, mailbox, up>>

Collect ==
    /\ up
    /\ mode = "data"
    /\ spoken # <<>>
    /\ spoken' = Tail(spoken)
    /\ IF Head(spoken).word # "dot"
       THEN /\ lines' = Append(lines, Head(spoken))
            /\ UNCHANGED <<mode, mailbox, replies>>
       ELSE /\ mode' = "command"
            /\ lines' = <<>>
            /\ \/ Reply(250) /\ mailbox' = Append(mailbox, lines)
               \/ Reply(550) /\ UNCHANGED mailbox
    /\ UNCHANGED <<files, senderVars, accepted, up>>

HangUp ==
    /\ up
    /\ up' = FALSE
    /\ UNCHANGED <<files, senderVars, spoken, replies, mode, accepted, lines,
                   mailbox>>

-----------------------------------------------------------------------------
Init ==
    /\ files \in Letters
    /\ sender = "running"
    /\ exchange = 1
    /\ spoken = <<>>
    /\ replies = <<>>
    /\ mode = "greeting"
    /\ accepted = {}
    /\ lines = <<>>
    /\ mailbox = <<>>
    /\ up = TRUE

SenderStep == GetLine \/ GetLineAtEnd
MailerStep == Greet \/ Answer \/ Collect

Next == SenderStep \/ MailerStep \/ HangUp

Spec == Init /\ [][Next]_mailVars

-----------------------------------------------------------------------------
(***************************************************************************)
(* Properties                                                              *)
(***************************************************************************)

TypeOK ==
    /\ files \in Letters
    /\ sender \in {"running", "returned", "threw", "killed", "overran"}
    /\ exchange \in DOMAIN Codes
    /\ \A i \in DOMAIN spoken :
          spoken[i].word \in {Words[k] : k \in DOMAIN Words} \union TextWords
    /\ \A i \in DOMAIN replies :
          /\ replies[i].code \in {220, 221, 250, 354, 550}
          /\ replies[i].behind \in LastBehind \union {"-"}
    /\ mode \in {"greeting", "command", "data"}
    /\ up \in BOOLEAN

(***************************************************************************)
(* send_message keeps the promise of MailDelivery, though it takes a reply *)
(* of many lines for several replies and never looks at the answer to ehlo:*)
(* when it returns, the server has taken the text once, and its parts      *)
(* decode to the files.  A text that ended at a missing file is not kept.  *)
(***************************************************************************)
Decoded(text) ==
    LET IsPart(line) == line.word = "base64"
        parts == SelectSeq(text, IsPart)
    IN [k \in DOMAIN parts |-> base64_decode(parts[k].data)]

Delivery ==
    INSTANCE MailDelivery WITH
        Senders <- {"sender"},
        Letter <- [s \in {"sender"} |-> "whole"],
        told <- [s \in {"sender"} |->
                    CASE sender = "running" -> "nothing"
                      [] sender = "returned" -> "success"
                      [] OTHER -> "failure"],
        inbox <- [i \in DOMAIN mailbox |->
                     [sender |-> "sender",
                      letter |-> IF Decoded(mailbox[i]) = files THEN "whole"
                                 ELSE "damaged"]]

LetterHandedOver == Delivery!Spec

(***************************************************************************)
(* Text is sent only to a server that has said it is ready for it: a reply *)
(* that was taken for the reply to another command never makes the server  *)
(* read the letter as commands.                                            *)
(***************************************************************************)
TextIsExpected ==
    spoken # <<>> /\ Head(spoken).word \in TextWords => mode = "data"

(***************************************************************************)
(* send_message ends, in one way or another, when the server answers every *)
(* command: no lost count of the replies makes both wait, and lines that   *)
(* end with the bare code do not either where get_line gives up no line for*)
(* them.  It does so for a newline right behind the code, and after ehlo   *)
(* for a last line without a space.                                        *)
(***************************************************************************)
EndIsMissed ==
    /\ replies # <<>>
    /\ \/ Head(replies).behind = "\n"
       \/ exchange = 2 /\ Head(replies).behind = "\r"

SenderEnds == []~ EndIsMissed => []<>(sender # "running")

=============================================================================
