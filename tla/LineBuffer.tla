----------------------------- MODULE LineBuffer -----------------------------
(***************************************************************************)
(* LineBuffer.java: the lines remembered by the console and the frame of   *)
(* them that is on the screen.  A line is the number of screen rows it     *)
(* takes (its text is cut to a page, so 1 .. RowsInPage) and its display   *)
(* attribute; line indices start at 0 as in the code.                      *)
(*                                                                         *)
(* The calls are those Vm3270Console makes: its constructor appends the    *)
(* first line, clearUplines is only called with 1, so the buffer is never  *)
(* empty and the frame always holds a line.                                *)
(***************************************************************************)
EXTENDS Integers, Sequences, FiniteSetsExt, Functions

CONSTANTS
    RowsInPage,   \* rows of the output zone
    MaxSize       \* lines to keep

HostOutput == 0
UserInput == 1
FScreenBg == 2
Flags == {HostOutput, UserInput, FScreenBg}

ASSUME GeometryAssumption == /\ RowsInPage \in Nat /\ RowsInPage >= 4
                             /\ MaxSize \in Nat /\ MaxSize >= RowsInPage

VARIABLES
    lines,  \* lines, attrs and rows: a sequence of [rows, flag]
    frame   \* lastVisible, countVisible and rowsVisible

vars == <<lines, frame>>

Line == [rows : 1 .. RowsInPage, flag : Flags]

-----------------------------------------------------------------------------
(* The frame *)

\* Rows taken by the lines first .. last of ls.
RowsIn(ls, first, last) ==
    FoldFunctionOnSet(+, 0, [i \in DOMAIN ls |-> ls[i].rows], first + 1 .. last + 1)

Fits(ls, first, last) == RowsIn(ls, first, last) =< RowsInPage

FrameOf(ls, first, last) ==
    [last |-> last, count |-> last - first + 1, rows |-> RowsIn(ls, first, last)]

\* The frame whose last line is the given one, filled upwards.
Upwards(ls, last) ==
    FrameOf(ls, Min({f \in 0 .. last : Fits(ls, f, last)}), last)

\* The frame that starts at the oldest line, filled downwards.
FromTop(ls) ==
    FrameOf(ls, 0, Max({l \in 0 .. Len(ls) - 1 : Fits(ls, 0, l)}))

First(fr) == fr.last - fr.count + 1

\* recomputeVisibleFrame(): the loop ends at the first line that does not
\* fit, and at index 0 that is taken for reaching the top.
RecomputeVisibleFrame(ls, last) ==
    LET up == Upwards(ls, Max({0, Min({last, Len(ls) - 1})}))
    IN  IF First(up) - 1 > 0 THEN up ELSE FromTop(ls)

-----------------------------------------------------------------------------
(* The operations *)

Init == /\ lines = <<[rows |-> 1, flag |-> FScreenBg]>>
        /\ frame = [last |-> 0, count |-> 1, rows |-> 1]

\* The last line index asked for when the bottom is wanted.
Bottom(ls) == Len(ls) + 2

AppendLine(line) ==
    LET kept == IF Len(lines) >= MaxSize THEN Tail(lines) ELSE lines
    IN  /\ lines' = Append(kept, line)
        /\ frame' = RecomputeVisibleFrame(lines', Bottom(lines'))

\* clearUplines(1), at the end of a VM session.
FrameKept(ls) == frame
FrameAfterClear(ls) == RecomputeVisibleFrame(ls, 0)

ClearUplines ==
    /\ lines' = <<lines[Len(lines)]>>
    /\ frame' = FrameAfterClear(lines')

PageTo(last) ==
    /\ frame' = RecomputeVisibleFrame(lines, last)
    /\ UNCHANGED lines

\* As many of the next lines as fit into a page.
LastOfNextPage ==
    Max({frame.last} \cup {l \in frame.last + 1 .. Len(lines) - 1 :
                             Fits(lines, frame.last + 1, l)})

PageTowardsYoungest == PageTo(LastOfNextPage)

OneTooMany == PageTo(frame.last - frame.count - 1)
PageTowardsOldest == PageTo(frame.last - frame.count)

PageToYoungest == PageTo(Bottom(lines))

PageToOldest == PageTo(0)

\* updateLastLineFlags(RowsInPage, FScreenBg, HostOutput): the oldest line of
\* the buffer is never touched.
UpdateLastLineFlags ==
    /\ lines' = [i \in DOMAIN lines |->
                   IF i > 1 /\ i > Len(lines) - RowsInPage /\ lines[i].flag = FScreenBg
                     THEN [lines[i] EXCEPT !.flag = HostOutput]
                     ELSE lines[i]]
    /\ UNCHANGED frame

Page == \/ PageTowardsYoungest \/ PageTowardsOldest
        \/ PageToYoungest \/ PageToOldest

Output == \E line \in Line : AppendLine(line)

Next == Output \/ ClearUplines \/ Page \/ UpdateLastLineFlags

Spec == Init /\ [][Next]_vars

-----------------------------------------------------------------------------
(* Properties *)

\* Types, and what getPageLinesAndFlags relies on: the frame is a run of
\* lines of the buffer, never empty, that fits into the output zone, and its
\* row count is right.
FrameOK ==
    /\ lines \in Seq(Line) /\ Len(lines) \in 1 .. MaxSize
    /\ frame.last < Len(lines) /\ First(frame) >= 0 /\ frame.count >= 1
    /\ frame.rows = RowsIn(lines, First(frame), frame.last)
    /\ frame.rows =< RowsInPage

\* The frame fell back to the top although the line asked for is not on it:
\* all lines up to that one fit into the page, except the oldest.
FellToTop(last) == First(frame') = 0 /\ Fits(lines', 1, last)

\* After new output, or a jump to the bottom, the youngest line is shown,
\* or the frame fell back to the top (lines 260-282), never anything else.
YoungestOrTop ==
    [][Output \/ PageToYoungest
         => frame'.last = Len(lines') - 1 \/ FellToTop(Len(lines') - 1)]_vars

\* Paging never skips a line, apart from the fall to the top: the new page
\* touches or overlaps the old one.
NoLineSkipped ==
    [][/\ PageTowardsYoungest => First(frame') =< frame.last + 1
       /\ PageTowardsOldest =>
            \/ frame'.last >= First(frame) - 1
            \/ FellToTop(First(frame) - 1)]_vars
=============================================================================
