---------------------------- MODULE MailDelivery ----------------------------
(***************************************************************************)
(* What handing a letter over to a mail server promises to the sender,     *)
(* whatever the dialogue between the two looks like: the letter gets into  *)
(* the inbox whole and at most once, and a sender that is told of success  *)
(* finds it there.  One that is told of a failure knows nothing.           *)
(***************************************************************************)
EXTENDS Naturals, Sequences

CONSTANTS
    Senders,
    Letter       \* the letter of each sender

VARIABLES
    told,        \* what each sender was told
    inbox        \* what the server keeps, in the order of its arrival

vars == <<told, inbox>>

Kept(s) == \E i \in DOMAIN inbox : inbox[i].sender = s

Init ==
    /\ told = [s \in Senders |-> "nothing"]
    /\ inbox = <<>>

Keep(s) ==
    /\ ~ Kept(s)
    /\ inbox' = Append(inbox, [sender |-> s, letter |-> Letter[s]])
    /\ UNCHANGED told

Tell(s) ==
    /\ told[s] = "nothing"
    /\ \/ Kept(s) /\ told' = [told EXCEPT ![s] = "success"]
       \/ told' = [told EXCEPT ![s] = "failure"]
    /\ UNCHANGED inbox

Next == \E s \in Senders : Keep(s) \/ Tell(s)

Spec == Init /\ [][Next]_vars

=============================================================================
