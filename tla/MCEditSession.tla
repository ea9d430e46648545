---------------------------- MODULE MCEditSession ----------------------------
(* Files of one line or two; <<"x", "a">> and <<"x", "b">> share EE$OLD and  *)
(* EE$TMP, <<"y", "c">> is binary.  The scopes: one upset among the commands *)
(* that write, then among reading, PUT and GET; input mode, with as many     *)
(* lines on the screen as it counts or one more; programmer's input.         *)
EXTENDS EditSession

MCLines == {"l1", "l2", "l3", "l4", "l5", "l6", "l7", "l8", "l9"}
MCPage == <<"l1", "l2", "l3", "l4", "l5", "l6", "l7", "l8", "l9">>
Xa == <<"x", "a">>
Xb == <<"x", "b">>
Yc == <<"y", "c">>
MCBuffer == <<"PUT", "EE$BUF">>
MCOnDisk == [f \in {Xa, Xb, Yc} |->
    CASE f = Xa -> << <<1>>, <<2>> >> [] f = Xb -> << <<3>> >> [] f = Yc -> << <<7>> >>]

Cmd(cs, f, n) == {[c |-> x, f |-> f, n |-> n] : x \in cs}
Plain(cs) == Cmd(cs, <<>>, 0)

SavingScope ==
    [cmds |-> Cmd({"EDIT"}, Xa, 0) \cup Cmd({"EDIT"}, Xb, 0) \cup Cmd({"SAVE"}, Xb, 1)
              \cup Cmd({"FILE"}, Xb, 0)
              \cup Plain({"INPUT", "SAVE", "FILE", "QUIT", "QQUIT", "EXIT", "RINGNEXT"}),
     keys |-> {}, inputs |-> 5, upsets |-> 1, rows |-> 1, shown |-> 1]

MovingScope ==
    [cmds |-> Cmd({"EDIT"}, Xa, 0) \cup Cmd({"EDIT"}, Yc, 0) \cup Cmd({"GET"}, Yc, 0)
              \cup Cmd({"PUT"}, MCBuffer, 1) \cup Cmd({"PUTD"}, MCBuffer, 2)
              \cup Cmd({"PUTD"}, Xb, -1) \cup Cmd({"GETD"}, MCBuffer, 0)
              \cup Cmd({"DELETE"}, <<>>, 1) \cup Cmd({"DELETE"}, <<>>, 2)
              \cup Plain({"BOTTOM", "TOP", "SAVE", "EXIT", "QQUIT ALL", "RINGPREV"}),
     keys |-> {}, inputs |-> 5, upsets |-> 1, rows |-> 1, shown |-> 1]

InputScope(s) ==
    [cmds |-> Cmd({"EDIT"}, Xa, 0) \cup Plain({"INPUTMODE"}), keys |-> {"ENTER", "TAB", "PF03"},
     inputs |-> 5, upsets |-> 0, rows |-> 2, shown |-> s]

PInputScope ==
    [cmds |-> Cmd({"EDIT"}, Xa, 0) \cup Plain({"PINPUT"}),
     keys |-> {"ENTER", "TAB", "PF03", "PF06", "PF10", "PF18"},
     inputs |-> 5, upsets |-> 0, rows |-> 1, shown |-> 1]

MCScopes == {SavingScope, MovingScope, InputScope(2), InputScope(3), PInputScope}
=============================================================================
