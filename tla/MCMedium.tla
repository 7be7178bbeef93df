------------------------------ MODULE MCMedium ------------------------------
(***************************************************************************)
(* Two or three stations with frames of one byte. The byte of A has a run  *)
(* of ones that must be stuffed, the byte of B is one zero away from a     *)
(* marker.                                                                 *)
(***************************************************************************)
EXTENDS Medium, TLC

CONSTANTS A, B

\* One byte for each pair of source and destination.
MCFrameBits ==
    [f \in Stations \X Addresses |->
        CASE f = <<A, A>> -> <<0, 0, 0, 0, 0, 0, 0, 1>>
          [] f = <<A, B>> -> <<1, 1, 1, 1, 1, 0, 1, 0>>
          [] f = <<A, Broadcast>> -> <<0, 0, 0, 0, 0, 1, 0, 1>>
          [] f = <<B, A>> -> <<0, 0, 0, 0, 0, 0, 1, 1>>
          [] f = <<B, B>> -> <<0, 0, 0, 0, 1, 0, 1, 1>>
          [] f = <<B, Broadcast>> -> <<0, 1, 1, 1, 1, 1, 1, 0>>]

OneEach == (A :> <<B>>) @@ (B :> <<Broadcast>>)
TwoFirst == (A :> <<B, B>>) @@ (B :> <<Broadcast>>)

\* Repeated attempts and a station that comes and goes; a damaged bit; a writer
\* that is one cycle late.
MCScenarios ==
    {[sends |-> OneEach, attempts |-> 2, flips |-> 0, late |-> 0, resets |-> 1],
     [sends |-> TwoFirst, attempts |-> 1, flips |-> 1, late |-> 0, resets |-> 0],
     [sends |-> OneEach, attempts |-> 1, flips |-> 0, late |-> 1, resets |-> 0]}

=============================================================================
