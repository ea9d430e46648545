------------------------------ MODULE MCIndFile ------------------------------
(* Three quadrants of five letters, two of which share a character; records  *)
(* of up to three characters, panels of ten codes.                           *)
EXTENDS IndFile

Quadrant(name, A, B, C, D, z) ==
    [name |-> name, chars |-> [x \in {"A", "B", "C", "D", "z"} |->
        CASE x = "A" -> A [] x = "B" -> B [] x = "C" -> C [] x = "D" -> D [] x = "z" -> z]]
MCQuadrants == <<Quadrant(";", "blank", "a", "b", "dot", "c"),
                 Quadrant("=", "d", "b", "e", "f", "g"),
                 Quadrant("*", "null", "cr", "lf", "tab", "ctl")>>
MCGraphic == {"blank", "dot", "a", "b", "c", "d", "e"}

Pair(h, t) == [host |-> h, term |-> t]
MCMapFiles == [f \in {"DEFAULT", "SWAP", "ONEWAY"} |->
    CASE f = "DEFAULT" -> <<Pair("e", "e"), Pair("null", "a")>>
      [] f = "SWAP" -> <<Pair("a", "d"), Pair("d", "a")>>
      [] f = "ONEWAY" -> <<Pair("a", "b")>>]

Request(op, ascii, map) ==
    [op |-> op, ascii |-> ascii, map |-> map, crlf |-> TRUE, append |-> FALSE, recfm |-> "V",
     lrecl |-> 3, remote |-> TRUE, args |-> "ok", mecaff |-> "ok"]
Bases == {Request(op, ascii, "") : op \in {"GET", "PUT"}, ascii \in BOOLEAN}
MCRequests ==
    Bases
    \cup {[q EXCEPT !.map = m, !.crlf = FALSE, !.recfm = "F"] : q \in {x \in Bases : x.ascii}, m \in {"SWAP", "ONEWAY"}}
    \cup {[q EXCEPT !.append = TRUE, !.lrecl = 2, !.recfm = "F"] : q \in {x \in Bases : x.op = "PUT"}}
    \cup {[Request("TST", a, m) EXCEPT !.remote = r] : a \in BOOLEAN, m \in {"SWAP", "ONEWAY", "NONE"}, r \in BOOLEAN}
    \cup {[Request("PUT", TRUE, "") EXCEPT !.args = a, !.remote = r, !.mecaff = m] :
             a \in {"ok", "short", "option"}, r \in BOOLEAN, m \in {"ok", "old"}}

File(recs) == [there |-> TRUE, recs |-> recs]
MCRecords == {[there |-> FALSE, recs |-> <<>>],
              File(<< <<"a">>, <<"d", "null", "b">> >>),
              File(<< <<"a", "b", "blank">>, <<"blank">>, <<"f", "a", "ctl">> >>),
              File(<< <<"a", "a", "a", "a">> >>)}
MCTexts == {<<>>, <<"a", "cr", "lf", "d">>, <<"a", "d", "lf", "lf", "b">>, <<"b", "null", "c", "a", "ctl">>,
            <<"a", "tab", "lf", "b">>}
=============================================================================
