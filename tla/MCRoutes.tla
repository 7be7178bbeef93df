------------------------------ MODULE MCRoutes ------------------------------
(***************************************************************************)
(* Instances for TLC.                                                      *)
(***************************************************************************)
EXTENDS Routes

Ring == <<{1, 2}, {2, 3}, {3, 4}, {1, 4}>>
Double == <<{1, 2}, {1, 2}, {2, 3}, {3, 4}>>
Shared == <<{1, 2, 3}, {3, 4}, {}, {}>>
Triangle == <<{1, 2}, {2, 3}, {1, 3}>>

Starting(wiring, round, distances) ==
    [wiring |-> wiring, round |-> round, distances |-> distances,
     answers |-> 0, lists |-> 0, packets |-> 0, changes |-> 0]

\* All distances that differ, measured again and told again once.
Measured(wiring) ==
    [Starting(wiring, 1, {1, 3}) EXCEPT !.answers = 1, !.lists = 1]

\* Connections and neighbours come and go around one packet.
Disturbed(wiring, answers) ==
    [Starting(wiring, 1, {1}) EXCEPT
        !.changes = 2, !.answers = answers, !.packets = 1]

\* From nothing.
Growing(wiring) ==
    [Starting(wiring, 0, {0}) EXCEPT !.answers = 2, !.lists = 2, !.packets = 1]

MCScenarios ==
    {Measured(Ring), Measured(Shared), Disturbed(Ring, 0),
     Disturbed(Double, 1), Growing(Triangle \o <<{}>>)}

MCTriangle == {[Starting(Triangle, 1, {1, 3, 5}) EXCEPT !.answers = 1, !.lists = 1]}

\* What the theorems about the routes ask of a network.
ASSUME NetworkFits == NoOverflow

=============================================================================
