-------------------------- MODULE MCSocketTransfer --------------------------
(***************************************************************************)
(* Instance for TLC: the client writes more than the server, the sequence  *)
(* numbers of the two ends differ.                                         *)
(***************************************************************************)
EXTENDS SocketTransfer

CONSTANTS ClientBytes, ServerBytes

MCStart == [e \in Ends |-> IF e = Client THEN 1 ELSE 4]
MCMaxStream == [e \in Ends |-> IF e = Client THEN ClientBytes ELSE ServerBytes]

=============================================================================
