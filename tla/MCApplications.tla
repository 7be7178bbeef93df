--------------------------- MODULE MCApplications ---------------------------
(***************************************************************************)
(* Small instances of the programs.  A program that does not run has one   *)
(* initial state.                                                          *)
(***************************************************************************)
EXTENDS Applications

CONSTANTS c1, c2

\* One client on its own, in which everything goes wrong that may, and two at
\* once.
Alone(c) ==
    [clients |-> {c}, faulty |-> {c}, split |-> {c}, foreign |-> {c} \ {c1}]
MCScenarios ==
    {Alone(c1), Alone(c2),
     [clients |-> {c1, c2}, faulty |-> {}, split |-> {}, foreign |-> {}]}

\* Every remainder of three bytes; no part; a part that is missing.
MCLetters ==
    {<<<<77, 97, 110>>, <<0, 128>>>>, <<<<>>, <<1, 2, 3, 254>>>>,
     <<<<255>>, Missing>>, <<>>}

\* A word that is there twice; more matches than Limit; the last row, a word
\* before it that is missing, and one behind it.
MCRows == <<<<1>>, <<1, 2>>, <<1, 2>>, <<2>>, <<2, 2>>>>
Calm == [queries |-> {<<1>>, <<1, 1>>, <<2, 2>>, <<3>>}, asks |-> 1,
          leaving |-> {}, torn |-> {}, nameless |-> {}]
MCSettings ==
    {Calm,
     [Calm EXCEPT !.queries = {<<1>>}, !.leaving = {c1, c2},
                   !.nameless = {c2}],
     [Calm EXCEPT !.queries = {<<1>>}, !.asks = 2, !.torn = {c1}],
     [Calm EXCEPT !.queries = {<<1>>, <<2, 1>>}, !.leaving = {c1}]}

MCInit ==
    /\ Init
    /\ program # "session" => scenario = Alone(c1)
    /\ program # "sender" => files = <<>>
    /\ program # "dictionary" => setting = Calm

MCSpec == MCInit /\ [][Next]_vars /\ Fairness

=============================================================================
