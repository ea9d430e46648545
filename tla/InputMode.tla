------------------------------ MODULE InputMode ------------------------------
(***************************************************************************)
(* eemain.c: the two input modes of EE, each a loop of screen round trips  *)
(* of its own over the lines of one editor r.                              *)
(*                                                                         *)
(* Input mode puts a guard line and empty lines behind the current line,   *)
(* takes what is typed into them and removes the rest at its end.          *)
(* Programmer's input mode keeps one empty line to type in, and lets the   *)
(* user split, join and go elsewhere meanwhile.                            *)
(*                                                                         *)
(* m is what the loop remembers.  A round trip brings the lines typed over *)
(* as a function to their texts, the key, and the line and column of the   *)
(* cursor; lines are counted from the current one.                         *)
(***************************************************************************)
EXTENDS LineList

CONSTANT Above      \* lines shown above the current one

Guard == <<0>>      \* "--INPUTGUARD--"

Offset(r, l) == PlaceOf(r, l) - PlaceOf(r, r.cur)

\* The lines on the screen, with below of them behind the current one.
Visible(r, below) ==
    LET here == PlaceOf(r, r.cur)
    IN  {l \in ToSet(Chain(r)) : PlaceOf(r, l) \in here - Above .. here + below}

Typed(r, typed) ==
    [r EXCEPT !.text = [l \in Lines |-> IF l \in DOMAIN typed THEN typed[l] ELSE @[l]],
              !.modified = @ \/ DOMAIN typed # {}]

-----------------------------------------------------------------------------
(* doInputM() *)

\* Before each round trip: the empty lines, and where the cursor goes.
Framed(r, m) ==
    LET add[n \in 0 .. m.rows] == IF n = 0 THEN r ELSE InsertLineAfter(add[n - 1], m.cur, <<>>)
        new == add[m.rows]
    IN  [r |-> new,
         m |-> [m EXCEPT !.first = IF m.tab THEN @ ELSE IF r.curNo > 0 THEN NextLine(new, m.cur)
                                   ELSE FirstLine(new)]]

InputEntered(r, below) ==
    Framed(InsertLineAfter(r, CurrentLine(r), Guard),
           [kind |-> "input", cur |-> CurrentLine(r), was |-> r.modified, guard |-> r.firstFree,
            rows |-> below, first |-> NULL, tab |-> FALSE, tabRows |-> 0, tabLast |-> NULL,
            tabTyped |-> FALSE])

\* The one of two lines typed over that is further down.
Lower(r, a, b) == IF a = NULL \/ (b # NULL /\ Offset(r, a) < Offset(r, b)) THEN b ELSE a

LastTyped(r, typed) ==
    LET below == {l \in DOMAIN typed : Offset(r, l) > 0}
    IN  IF below = {} THEN NULL
        ELSE CHOOSE l \in below : \A k \in below : Offset(r, k) =< Offset(r, l)

\* TAB keys move the cursor; what was typed is remembered for the key that follows.
Tabbed(r, m, typed) ==
    LET last == LastTyped(r, typed)
    IN  [m EXCEPT !.was = @ \/ DOMAIN typed # {}, !.rows = 0, !.tab = TRUE,
                  !.tabRows = IF m.tab /\ @ > m.rows THEN @ ELSE m.rows,
                  !.tabLast = IF m.tab THEN Lower(r, @, last) ELSE last,
                  !.tabTyped = IF m.tab THEN @ ELSE DOMAIN typed # {}]

\* The lowest line typed into becomes the current one, and as many empty
\* lines are needed as it went down.
Taken(r, m, typed) ==
    LET last == IF m.tab THEN Lower(r, LastTyped(r, typed), m.tabLast) ELSE LastTyped(r, typed)
    IN  [m EXCEPT !.was = @ \/ DOMAIN typed # {},
                  !.cur = IF last = NULL THEN @ ELSE last,
                  !.rows = IF last # NULL THEN Offset(r, last) ELSE IF m.tab THEN m.tabRows ELSE 0,
                  !.tab = FALSE, !.tabRows = 0, !.tabLast = NULL, !.tabTyped = FALSE]

EndsInput(m, typed, key, at) ==
    \/ key = "PF03"
    \/ key = "ENTER" /\ DOMAIN typed = {} /\ ~(m.tab /\ m.tabTyped) /\ at = m.first

\* Mutant: the guard line itself is left.
GuardStays(r, m) ==
    LET behind == NextLine(r, m.cur)
    IN  [DeleteLineRange(r, behind, r.prev[m.guard]) EXCEPT !.modified = m.was]

\* The lines from behind the current one up to the guard go.
InputLeft(r, m) ==
    LET behind == NextLine(r, m.cur)
    IN  [DeleteLineRange(r, behind, m.guard) EXCEPT !.modified = m.was]

InputTurn(r, m, typed, key, at) ==
    LET new   == Typed(r, typed)
        taken == Taken(r, m, typed)
        moved == IF taken.cur = m.cur THEN new ELSE MoveToLine(new, taken.cur)
    IN  IF key = "TAB" THEN [r |-> new, m |-> Tabbed(r, m, typed), ends |-> FALSE]
        ELSE IF EndsInput(m, typed, key, at)
        THEN [r |-> InputLeft(moved, taken), m |-> taken, ends |-> TRUE]
        ELSE Framed(moved, taken) @@ [ends |-> FALSE]

-----------------------------------------------------------------------------
(* doPInpM() *)

\* The line to type in, behind the current one.
InputLine(r, m) ==
    LET new == r.firstFree
    IN  [r |-> MoveToLine(InsertLineAfter(r, CurrentLine(r), <<>>), new),
         m |-> [m EXCEPT !.cur = new, !.unused = TRUE]]

PInputEntered(r, at) ==
    InputLine(IF at = NULL THEN r ELSE MoveToLine(r, at),
              [kind |-> "pinput", cur |-> NULL, was |-> r.modified, unused |-> TRUE])

\* piSplitjoin(); needs says that the input line is gone or was split.
PSplitJoin(r, l, pos, force) ==
    IF pos < Len(r.text[l])
    THEN [needs |-> l = CurrentLine(r),
          r |-> IF l = CurrentLine(r) THEN MoveBy(Split(r, l, pos), 1) ELSE Split(r, l, pos)]
    ELSE IF l = r.prev[EOF] THEN [needs |-> FALSE, r |-> r]
    ELSE [needs |-> NextLine(r, l) = CurrentLine(r), r |-> Join(r, l, pos, force)]

PInputLeft(r, m) == [(IF m.unused THEN DeleteLine(r, m.cur) ELSE r) EXCEPT !.modified = m.was]

PInputTurn(r, m, typed, key, at, pos) ==
    LET had    == m.cur \in DOMAIN typed
        new    == Typed(r, typed)
        noted  == [m EXCEPT !.was = @ \/ DOMAIN typed # {}, !.unused = @ /\ ~had]
        stays  == [r |-> new, m |-> noted]
        split  == PSplitJoin(new, at, pos, key = "PF18")
        next   == CASE key = "TAB" -> stays
                    [] key = "PF10" /\ at \notin {NULL, m.cur} ->
                         InputLine(MoveToLine(IF had THEN new ELSE DeleteLine(new, m.cur), at), noted)
                    [] key \in {"PF06", "PF18"} /\ at # NULL ->
                         IF split.needs \/ had THEN InputLine(split.r, noted)
                         ELSE [r |-> split.r, m |-> noted]
                    [] OTHER ->
                         IF had \/ (DOMAIN typed \subseteq {m.cur} /\ at = m.cur)
                         THEN InputLine(new, noted) ELSE stays
    IN  IF key = "PF03" THEN [r |-> PInputLeft(new, noted), m |-> noted, ends |-> TRUE]
        ELSE next @@ [ends |-> FALSE]
=============================================================================
