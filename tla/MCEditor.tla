------------------------------ MODULE MCEditor ------------------------------
(* Two files, the first with three lines, the second with one and room for *)
(* two more, so that a copy of a block into it can run out of lines.       *)
EXTENDS Editor

MCLines == {"l1", "l2", "l3", "l4", "l5", "k1", "k2", "k3"}
MCPage == [f \in Files |-> IF f = "A" THEN <<"l1", "l2", "l3", "l4", "l5">>
                                      ELSE <<"k1", "k2", "k3">>]
MCSaved == [f \in Files |-> IF f = "A" THEN << <<"a">>, <<"b", "c">>, <<"d">> >>
                                       ELSE << <<"e">> >>]
MCTyped == <<"t">>

With(cs, ns) == [c : cs, n : ns]

\* Everything, and blocks alone over longer sessions.
MCScopes ==
    {[prefixCmds |-> With({"D", "\""}, {1, 2}) \cup With({"I", "*", "."}, {1}) \cup
            With({"/", "DD", "MM", "CC", "\"\"", "M", "C", "P", "F"}, {0}),
      cmds |-> With({"INPUT", "RINGNEXT", "SAVE", "FILE", "QUIT", "QQUIT", "RESET",
                     "TOP", "BOTTOM"}, {0})
            \cup With({"DELETE"}, {1, 2, -1}) \cup With({"NEXT"}, {1, -1})
            \cup With({"MARK", "LOCATE"}, {1}) \cup With({"SPLTJOIN"}, {0, 1, 2})
            \cup With({"EDIT"}, {"A", "B"}),
      inputs |-> 3],
     [prefixCmds |-> With({"D"}, {1}) \cup With({"MM", "CC", "M", "P", "F"}, {0}),
      cmds |-> With({"EDIT"}, {"B"}) \cup With({"RINGNEXT", "FILE"}, {0}),
      inputs |-> 5]}
=============================================================================
