------------------------------- MODULE MCFsApi -------------------------------
EXTENDS FsApi

Call0(f) == [fn |-> f, cmd |-> "W", data |-> <<>>, t |-> 0, room |-> 0]
Write(c, d) == [Call0("fswr") EXCEPT !.cmd = c, !.data = d]
Read(f, time, size) == [Call0(f) EXCEPT !.t = time, !.room = size]

MCInputs == {<<1>>, <<1, 2, 3>>}
MCRequests ==
    {Write("EW", <<1, 0, 2>>), Write("W", <<0, 1>>), Read("fsrd", 0, 4), Read("fsrdp", 0, 3),
     Read("fsrdp", -1, 0), Read("fsrdp", 2, 4), Read("fscncl", 0, 4),
     [Call0("fslkto") EXCEPT !.t = 2], [Call0("strmat") EXCEPT !.t = 1]}
================================================================================
