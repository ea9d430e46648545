----------------------------- MODULE LineEditor -----------------------------
(***************************************************************************)
(* One editor of EE and the functions eecore.h offers on it, called in any *)
(* order: the pointers of LineList carry out the operations of TextList.   *)
(* A caller may hold on to a line that was freed since: the functions on   *)
(* ranges and marks refuse it, the functions on single lines do not and    *)
(* are called with lines of the editor only.                               *)
(***************************************************************************)
EXTENDS LineList

CONSTANTS
    Page,       \* the free lines of the editor, in the order they are taken
    File,       \* the lines of the file it is opened with
    Typed,      \* texts that are typed in
    MaxCalls    \* bound: calls after the editor is opened

\* Texts are made of the tokens of the file and of what is typed in.
Texts == BoundedSeq(UNION {ToSet(t) : t \in Typed \cup ToSet(File)}, WorkLrecl)

ASSUME EditorAssumption ==
    /\ Page \in Seq(Lines) /\ Page # <<>> /\ ToSet(Page) = Lines /\ IsInjective(Page)
    /\ File \in Seq(Texts) /\ Typed \subseteq Texts
    /\ WorkLrecl \in Nat \ {0}
    /\ MaxCalls \in Nat

VARIABLES
    r,         \* the editor
    starved,   \* some call found no free line
    calls,     \* calls so far
    doc        \* r without its pointers

vars == <<r, starved, calls, doc>>

\* The text, the current place and the places of the marks.
View(ed) ==
    [text |-> Content(ed), at |-> PlaceOf(ed, ed.cur),
     marks |-> [k \in MarkNos |-> IF ed.marks[k] = NULL THEN 0
                                  ELSE PlaceOf(ed, ed.marks[k])]]

Init ==
    /\ r = Opened(Page, File)
    /\ doc = View(r)
    /\ starved = FALSE
    /\ calls = 0

Call(new) ==
    /\ calls < MaxCalls
    /\ calls' = calls + 1
    /\ r' = [new EXCEPT !.oom = FALSE]
    /\ starved' = (starved \/ new.oom)
    /\ doc' = View(new)

Mine == ToSet(Chain(r))

\* What a caller may hold on to: a line of the list, or one that was freed.
Known == Mine \cup {l \in Lines : ~r.mine[l]}

-----------------------------------------------------------------------------
InsertAfterCall ==
    \E l \in Mine \cup {NULL}, txt \in Typed : Call(InsertLineAfter(r, l, txt))

InsertBeforeCall ==
    \E l \in Mine \cup {NULL}, txt \in Typed : Call(InsertLineBefore(r, l, txt))

InsertCall == \E txt \in Typed : Call(InsertLine(r, txt))

DeleteCall == \E l \in Mine : Call(DeleteLine(r, l))

UpdateCall == \E l \in Mine, txt \in Typed : Call(UpdateLine(r, l, txt))

DeleteRangeCall == \E a, b \in Known : Call(DeleteLineRange(r, a, b))

CopyRangeCall ==
    \E a, b \in Known, trg \in Known \cup {NULL}, before \in BOOLEAN :
        Call(CopyLineRange(r, a, b, r, trg, before))

\* Nobody moves a range into itself: eeprefix.c looks with isInLineRange().
MoveRangeCall ==
    \E a, b \in Known, trg \in Known \cup {NULL}, before \in BOOLEAN :
        /\ ~IsInLineRange(r, trg, a, b)
        /\ Call(MoveWithin(r, a, b, trg, before))

JoinCall ==
    \E l \in Mine, pos \in 0 .. WorkLrecl, force \in BOOLEAN :
        pos >= Len(r.text[l]) /\ Call(Join(r, l, pos, force))

SplitCall ==
    \E l \in Mine, pos \in 0 .. WorkLrecl :
        pos < Len(r.text[l]) /\ Call(Split(r, l, pos))

MarkCall ==
    \E l \in Known \cup {NULL, CurrentLine(r)}, k \in MarkNos : Call(SetLineMark(r, l, k))

\* m2bof, m2lstl, m2line, m2Mark, moveUp and moveDown
MoveCall ==
    \/ Call(MoveToBOF(r))
    \/ Call(MoveToLastLine(r))
    \/ \E l \in Known : Call(MoveToLine(r, l))
    \/ \E k \in MarkNos : r.marks[k] # NULL /\ Call(MoveToLine(r, r.marks[k]))
    \/ \E by \in {-2, -1, 1, 2} : Call(MoveBy(r, by))

Done == calls = MaxCalls /\ UNCHANGED vars

Next ==
    \/ InsertAfterCall \/ InsertBeforeCall \/ InsertCall \/ DeleteCall
    \/ UpdateCall \/ DeleteRangeCall \/ CopyRangeCall \/ MoveRangeCall
    \/ JoinCall \/ SplitCall \/ MarkCall \/ MoveCall \/ Done

Spec == Init /\ [][Next]_vars

-----------------------------------------------------------------------------
(* The editor as a text *)

Doc == INSTANCE TextList WITH
          Texts <- Typed \cup ToSet(File),
          text  <- doc.text, at <- doc.at, marks <- doc.marks

\* Whatever pointers are turned, a call of eecore does to the text, the
\* current line and the marks what one operation on a sequence of lines does,
\* or nothing (insline, inslina, delline, delrng, cprng, mvrng, edJoin, edSplit).
IsTextList == Doc!Spec

\* The list between the guard lines can be walked from both ends and is as
\* long as lineCount says; a line is in it or free, never both and, until a
\* call ran out of lines, never neither; and exactly the lines in the list
\* name this editor.  Every function that relinks sets four pointers.
Walkable ==
    LET walk == <<BOF>> \o Chain(r) \o <<EOF>>
    IN  /\ r \in EdType(Texts) /\ ~r.broken
        /\ Last(Follow(r, BOF)) = EOF
        /\ IsInjective(walk)
        /\ \A i \in 1 .. Len(walk) - 1 : r.prev[walk[i + 1]] = walk[i]
        /\ r.count = Len(Chain(r))
NoneLeaks ==
    LET free == FreeLines(r)
    IN  /\ IsInjective(free)
        /\ ToSet(free) \cap Mine = {}
        /\ ~starved => /\ ToSet(free) \cup Mine = Lines
                       /\ \A l \in Lines : r.mine[l] = (l \in Mine)
ChainIsSound == Walkable /\ NoneLeaks

\* Neither the current line nor a mark is ever a freed line (returnFreeLine
\* clears marks, delline and delrng move the current line away first).
NothingDangles ==
    /\ r.cur \in Mine \cup {BOF}
    /\ \A k \in MarkNos : r.marks[k] \in Mine \cup {NULL, BOF}

\* eecore.c 118 and eecore.h say of lineCurrentNo that it is the number of the
\* current line, 1-based with BOF = 0.
LineNoIsPlace == r.curNo = PlaceOf(r, r.cur)
=============================================================================
