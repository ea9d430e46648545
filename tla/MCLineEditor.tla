---------------------------- MODULE MCLineEditor ----------------------------
(* Four lines, three of them in use at first, so that a copy may find no  *)
(* free line.  Three calls relink lines, free them and take them again.    *)
EXTENDS LineEditor

MCLines == {"l1", "l2", "l3", "l4"}
MCPage == <<"l1", "l2", "l3", "l4">>
MCFile == << <<"a">>, <<"b", "c">>, <<"d">> >>
MCTyped == {<<"t">>}
=============================================================================
