----------------------------- MODULE MCTextEdit -----------------------------
(* Texts over a blank, a, b and A (the capital of a), up to four long.      *)
EXTENDS TextEdit, TLC

MCCapital == (0 :> 0) @@ (1 :> 3) @@ (2 :> 2) @@ (3 :> 3)
MCFiles == {<< <<0, 1, 1>>, <<0, 0, 3>> >>, << <<2, 1>>, <<>>, <<1, 1, 2>> >>}
MCModes == {[respect |-> TRUE, upper |-> FALSE], [respect |-> FALSE, upper |-> TRUE]}
Chg(f, t, n, l) == [from |-> f, to |-> t, per |-> n, lines |-> l, confirm |-> FALSE]
MCChanges ==
    {Chg(<<1>>, <<1, 1>>, 2, 1), Chg(<<1, 1>>, <<2>>, 4, 4), Chg(<<>>, <<2>>, 1, 4),
     Chg(<<1>>, <<>>, 1, 1), [Chg(<<1>>, <<2>>, 4, 4) EXCEPT !.confirm = TRUE]}
MCShifts ==
    [by : {2}, left : {TRUE}, count : {1}, mode : {"limit", "trunc", "check", "min"}]
    \cup [by : {2}, left : {FALSE}, count : {-1}, mode : {"limit", "trunc", "check", "min"}]
MCTargets ==
    {<< [k |-> "relative", n |-> 1] >>, << [k |-> "absolute", n |-> 2] >>,
     << [k |-> "pattern", what |-> <<1>>] >>, << [k |-> "patternup", what |-> <<2>>] >>,
     << [k |-> "relative", n |-> 1], [k |-> "mark", n |-> 1] >>,
     << [k |-> "pattern", what |-> <<2>>], [k |-> "error"] >>}
MCOrders ==
    {<< [desc |-> FALSE, offset |-> 0, length |-> 2] >>,
     << [desc |-> TRUE, offset |-> 1, length |-> 1], [desc |-> FALSE, offset |-> 0, length |-> 4] >>}
=============================================================================
