------------------------------ MODULE TextList ------------------------------
(***************************************************************************)
(* What eecore.h promises of an editor, without a pointer: a text is a     *)
(* sequence of lines, with a current position and marks.  Each operation   *)
(* rearranges the rows of the text; the current position and the marks     *)
(* stay on their rows wherever these go.  A mark on a deleted row is       *)
(* cleared, and the current position moves up from a deleted row.          *)
(***************************************************************************)
EXTENDS Integers, Sequences, SequencesExt

CONSTANTS Texts, MarkNos, WorkLrecl

VARIABLES
    text,    \* the lines
    at,      \* the current line, 0 for the top of file
    marks    \* the line of each mark, 0 for none

vars == <<text, at, marks>>

Rows == [i \in DOMAIN text |-> [was |-> i, txt |-> text[i]]]
New(txt) == [was |-> 0, txt |-> txt]

Where(rows, p) == IF p = 0 THEN 0 ELSE SelectInSeq(rows, LAMBDA x : x.was = p)

\* Put rows i .. j of a text behind its row p.
Splice(rows, p, some) == SubSeq(rows, 1, p) \o some \o SubSeq(rows, p + 1, Len(rows))
Without(i, j) == SubSeq(Rows, 1, i - 1) \o SubSeq(Rows, j + 1, Len(Rows))

\* The text becomes these rows; home is the row above a deleted current one.
Become(rows, home) ==
    /\ text' = [i \in DOMAIN rows |-> rows[i].txt]
    /\ marks' = [k \in MarkNos |-> Where(rows, marks[k])]
    /\ at' = IF at # 0 /\ Where(rows, at) = 0 THEN home ELSE Where(rows, at)

-----------------------------------------------------------------------------
InsertAfter(p, txt) == Become(Splice(Rows, p, <<New(txt)>>), 0)

Insert(txt) ==
    /\ text' = InsertAt(text, at + 1, txt)
    /\ marks' = [k \in MarkNos |-> Where(Splice(Rows, at, <<New(txt)>>), marks[k])]
    /\ at' = at + 1

Update(i, txt) == Become([Rows EXCEPT ![i].txt = txt], 0)

DeleteRange(i, j) == Become(Without(i, j), i - 1)

CopyRange(i, j, p) ==
    Become(Splice(Rows, p, [n \in 1 .. j - i + 1 |-> New(text[i + n - 1])]), 0)

\* p is a row outside of i .. j.
MoveRange(i, j, p) ==
    Become(Splice(Without(i, j), IF p < i THEN p ELSE p - (j - i + 1),
                  SubSeq(Rows, i, j)), 0)

\* The first n tokens of the next line are joined.
Join(i, n) ==
    Become([Without(i + 1, i + 1) EXCEPT ![i].txt = @ \o SubSeq(text[i + 1], 1, n)], i)

Split(i, pos) ==
    IF pos = 0 THEN InsertAfter(i - 1, <<>>)
    ELSE Become(Splice([Rows EXCEPT ![i].txt = SubSeq(@, 1, pos)], i,
                       <<New(SubSeq(text[i], pos + 1, Len(text[i])))>>), 0)

Mark(k, i) ==
    /\ marks' = [marks EXCEPT ![k] = i]
    /\ UNCHANGED <<text, at>>

Go(i) ==
    /\ at' = i
    /\ UNCHANGED <<text, marks>>

-----------------------------------------------------------------------------
Init ==
    /\ text \in Seq(Texts)
    /\ at = 0
    /\ marks = [k \in MarkNos |-> 0]

Places == 0 .. Len(text)

Next ==
    \/ \E i \in Places : Go(i)
    \/ \E k \in MarkNos, i \in Places : Mark(k, i)
    \/ \E txt \in Texts : Insert(txt)
    \/ \E p \in Places, txt \in Texts : InsertAfter(p, txt)
    \/ \E i \in DOMAIN text, txt \in Texts : Update(i, txt)
    \/ \E i \in 1 .. Len(text) - 1, n \in 0 .. WorkLrecl :
          /\ n =< Len(text[i + 1]) /\ Len(text[i]) + n =< WorkLrecl
          /\ Join(i, n)
    \/ \E i \in DOMAIN text, pos \in 0 .. WorkLrecl : pos < Len(text[i]) /\ Split(i, pos)
    \/ \E i, j \in DOMAIN text :
          i =< j /\ \/ DeleteRange(i, j)
                    \/ \E p \in Places : CopyRange(i, j, p)
                    \/ \E p \in Places \ (i .. j) : MoveRange(i, j, p)

Spec == Init /\ [][Next]_vars
=============================================================================
