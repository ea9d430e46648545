------------------------------- MODULE Editor -------------------------------
(***************************************************************************)
(* EE, the fullscreen editor: a ring of editors, each on a file, and the   *)
(* loop of eemain.c doEdit().  One round trip brings the prefix commands   *)
(* typed over the line numbers, in the order of the screen, and a command; *)
(* the prefix commands are done first, in two passes over all of them      *)
(* (single ones, then block ones), then the command.  A block operation    *)
(* may be given over several round trips, and its target may be in another *)
(* file: blockOps remembers the ends of the block as pointers meanwhile.   *)
(*                                                                         *)
(* Left out: overtyped text, shifts, the input modes, ranges written to    *)
(* and read from other files, searches and LRECL.  Memory that was freed   *)
(* with an editor ends the model in status "broken" when it is used, as    *)
(* does a null pointer that is followed.                                   *)
(***************************************************************************)
EXTENDS LineList

CONSTANTS
    Files,      \* the files there are
    First,      \* the file EE is called for
    Page,       \* the free lines a new editor gets
    Saved,      \* the lines of each file on disk
    UpLines, DownLines,   \* lines shown above and below the current one
    Typed,      \* the text that is typed in
    Scopes      \* bounds, one of which holds for a session: the prefix commands
                \* [c |-> letters, n |-> count or mark], the commands
                \* [c |-> name, n |-> operand], and how many are typed in all

ASSUME EditorAssumption ==
    /\ First \in Files
    /\ \A f \in Files : Len(Saved[f]) < Len(Page[f])
    /\ \A f, g \in Files : f # g => ToSet(Page[f]) \cap ToSet(Page[g]) = {}
    /\ UpLines \in Nat /\ DownLines \in Nat
    /\ \A s \in Scopes : s.inputs \in Nat

Closed == [closed |-> TRUE]
Nobody == "nobody"   \* no editor
Gone == "gone"       \* an editor that was freed
NoBlock == [src |-> Nobody, pos1 |-> NULL, pos2 |-> NULL, ends |-> 0, op |-> "/"]

VARIABLES
    eds,      \* the editor of each file, or Closed
    ring,     \* the open files, in the order of nextEd
    ed,       \* the file on the screen
    block,    \* blockOps
    disk,     \* the lines of each file on disk
    status,   \* "edit", "done" or "broken"
    scope,    \* the bounds of this session
    entered,  \* inputs so far
    kind      \* what the last round trip may do to lines: "delete", "move", "other"

vars == <<eds, ring, ed, block, disk, status, scope, entered, kind>>

Open == {f \in Files : eds[f] # Closed}

-----------------------------------------------------------------------------
(* The screen *)

Clip(n, low, high) == IF n < low THEN low ELSE IF n > high THEN high ELSE n

\* Lines strictly inside a complete block have a locked prefix.
Locked(r, q) ==
    /\ block.src = ed /\ block.ends = 2
    /\ LET p1 == PlaceOf(r, block.pos1)
           p2 == PlaceOf(r, block.pos2)
       IN  0 < p1 /\ p1 < q /\ q < p2

\* writeReadScreen(): the rows with a prefix, numbered on from lineCurrentNo.
\* The row above the first line has no line and the number 0.
Rows ==
    LET r  == eds[ed]
        p  == PlaceOf(r, r.cur)
        lo == Clip(p - UpLines, 1, Len(Chain(r)) + 1)
        hi == Clip(p + DownLines, 0, Len(Chain(r)))
    IN  SelectSeq(
            (IF p =< UpLines THEN <<[line |-> NULL, no |-> 0]>> ELSE <<>>) \o
            [q \in 1 .. hi - lo + 1 |->
                [line |-> Chain(r)[lo + q - 1], no |-> r.curNo + (lo + q - 1 - p)]],
            LAMBDA row : row.line = NULL \/ ~Locked(r, PlaceOf(r, row.line)))

\* The ways to type n prefix commands, at most two, in the order of the screen.
PrefixInputs(n) ==
    LET rows == Rows
        one(i) == {[line |-> rows[i].line, no |-> rows[i].no, c |-> pc.c, n |-> pc.n] :
                     pc \in {x \in scope.prefixCmds : ~(x.c = "*" /\ rows[i].line = NULL)}}
    IN  CASE n = 0 -> {<<>>}
          [] n = 1 -> UNION {{<<x>> : x \in one(i)} : i \in DOMAIN rows}
          [] n = 2 -> UNION {UNION {{<<x, y>> : x \in one(i), y \in one(j)} :
                                     j \in i + 1 .. Len(rows)} : i \in DOMAIN rows}

-----------------------------------------------------------------------------
(* processSinglePrefixCmds() *)

Least(a, b) == IF a < b THEN a ELSE b

Times(n, r, Op(_)) ==
    LET done[i \in 0 .. n] == IF i = 0 THEN r ELSE Op(done[i - 1])
    IN  done[n]

DeleteFrom(r, l, n) ==
    LET step(s) == [r |-> DeleteLine(s.r, s.line), line |-> NextLine(s.r, s.line)]
    IN  Times(IF n < 1 THEN 1 ELSE n, [r |-> r, line |-> l], step).r

\* How many lines a count stands for at the i-th prefix command.
LinesMeant(r, pfx, i) ==
    LET toEnd == r.count + 1 - pfx[i].no
        n     == Least(pfx[i].n, toEnd)
    IN  IF pfx[i].c = "D" /\ i < Len(pfx) THEN Least(n, pfx[i + 1].no - pfx[i].no) ELSE n

Repeat(r, l, n) ==
    LET next(x) == NextLine(r, x)
        last == Times(Clip(n, 1, n) - 1, l, next)
    IN  CopyLineRange(r, l, last, r, last, FALSE)

Single(r, pfx, i) ==
    LET p == pfx[i]
        blank(x) == InsertLineAfter(x, p.line, <<>>)
        same(x) == InsertLineAfter(x, p.line, r.text[p.line])
    IN  CASE p.c = "."  -> SetLineMark(r, p.line, p.n)
          [] p.c = "I"  -> Times(p.n, r, blank)
          [] p.c = "D"  -> DeleteFrom(r, p.line, LinesMeant(r, pfx, i))
          [] p.c = "\"" -> Repeat(r, p.line, LinesMeant(r, pfx, i))
          [] p.c = "*"  -> Times(p.n, r, same)
          [] OTHER      -> r

\* forceUpLineToVisible()
ForceVisible(r, l) ==
    LET up == PlaceOf(r, r.cur) - PlaceOf(r, l)
    IN  IF l = NULL \/ PlaceOf(r, l) < 1 \/ up =< UpLines THEN r
        ELSE MoveBy(r, UpLines - up)

\* The first one that places the cursor may also scroll, if it is an I.
Singles(r, pfx) ==
    LET done[i \in 0 .. Len(pfx)] ==
            IF i = 0 THEN r
            ELSE IF done[i - 1].oom \/ done[i - 1].broken THEN done[i - 1]
            ELSE Single(done[i - 1], pfx, i)
        new == done[Len(pfx)]
        i   == SelectInSeq(pfx, LAMBDA p : p.c \in {"I", "D", "\"", "*"})
    IN  IF new.oom \/ new.broken \/ i = 0 THEN new
        ELSE IF pfx[i].c # "I" \/ pfx[i].no >= r.curNo THEN new
        ELSE ForceVisible(new, pfx[i].line)

-----------------------------------------------------------------------------
(* processBlockPrefixCmd().  The steps of a round trip work on a record w   *)
(* of the variables that are handed on; w.skip is set when the command is   *)
(* not to be executed any more.                                             *)

Both == {"DD", "MM", "CC", "\"\""}
Alone == {"M", "C"}

\* The block as it stands with the prefix commands of this round trip.
Gather(r, b, pfx) ==
    LET take(st, p) ==
            LET line == IF p.line = NULL THEN FirstLine(r) ELSE p.line
            IN  IF p.c \in Both \cup Alone
                THEN [st EXCEPT !.clash = @ \/ st.op \notin {p.c, "/"},
                                !.op = IF st.clash \/ @ \notin {p.c, "/"} THEN @ ELSE p.c,
                                !.l1 = IF p.c \in Alone \/ @ = NULL THEN line ELSE @,
                                !.l2 = line,
                                !.ends = @ + IF p.c \in Alone THEN 2 ELSE 1]
                ELSE IF p.c \in {"P", "F"}
                THEN [st EXCEPT !.targets = @ + 1, !.trg = p.line, !.before = p.c = "P"]
                ELSE st
    IN  FoldLeft(take, [op |-> b.op, l1 |-> b.pos1, l2 |-> b.pos2, ends |-> b.ends,
                        targets |-> 0, trg |-> NULL, before |-> FALSE, clash |-> FALSE],
                 pfx)

\* Mutant: nobody looks where the target is.
NeverInside(r, st) == FALSE

TargetInside(r, st) == IsInLineRange(r, st.trg, st.l1, st.l2)

\* Remember the block for the next round trip.
Hold(w, st) ==
    LET r     == w.eds[w.ed]
        range == OrderLines(r, st.l1, st.l2)
        l1    == IF range = <<>> THEN st.l1 ELSE range[1]
        l2    == IF range = <<>> THEN st.l2 ELSE range[2]
        op    == IF l1 = l2 /\ st.ends = 2 /\ l1 = FirstLine(r)
                 THEN CASE st.op = "CC" -> "C" [] st.op = "MM" -> "M" [] OTHER -> st.op
                 ELSE st.op
    IN  [w EXCEPT !.block = [src |-> w.ed, pos1 |-> l1, pos2 |-> l2,
                             ends |-> st.ends, op |-> op]]

\* Mutant: the range is not deleted.
CopyAcross(w, src, st) ==
    [w EXCEPT !.eds[w.ed] =
        CopyLineRange(w.eds[src], st.l1, st.l2, @, st.trg, st.before)]

\* moveLineRange() between editors: a copy, then the range is deleted.
MoveAcross(w, src, st) ==
    LET trgEd == CopyLineRange(w.eds[src], st.l1, st.l2, w.eds[w.ed], st.trg, st.before)
    IN  [w EXCEPT !.eds[w.ed] = trgEd,
                  !.eds[src] = IF trgEd.oom \/ ~Placeable(@, st.l1, st.l2, trgEd, st.trg)
                               THEN @ ELSE DeleteLineRange(@, st.l1, st.l2)]

\* There is a block and a target for it.
Execute(w, st) ==
    LET src == IF w.block.src = Nobody THEN w.ed ELSE w.block.src
        r   == w.eds[w.ed]
    IN  IF src = Gone THEN [w EXCEPT !.broken = TRUE]
        ELSE IF st.op \in {"C", "CC"}
        THEN [w EXCEPT !.eds[w.ed] =
                CopyLineRange(w.eds[src], st.l1, st.l2, r, st.trg, st.before)]
        ELSE IF src = w.ed
        THEN [w EXCEPT !.eds[w.ed] = MoveWithin(r, st.l1, st.l2, st.trg, st.before)]
        ELSE MoveAcross(w, src, st)

\* An exception leaves blockOps as it is.
Finish(w) ==
    IF \E f \in Files : w.eds[f] # Closed /\ w.eds[f].oom THEN w
    ELSE [w EXCEPT !.block = NoBlock]

BlockCmd(w, pfx) ==
    LET r       == w.eds[w.ed]
        st      == Gather(r, w.block, pfx)
        interEd == w.block.ends = 2 /\ w.block.src # w.ed
        targets == IF st.ends < 2 THEN 0 ELSE st.targets
        refused == \/ st.clash \/ st.ends > 2 \/ st.targets > 1
                   \/ st.op \in {"DD", "\"\""} /\ st.targets > 0
                   \/ st.ends = 0
                   \/ targets = 1 /\ ~interEd /\ TargetInside(r, st)
    IN  IF refused THEN w
        ELSE IF st.op = "DD" /\ st.ends = 2
        THEN Finish([w EXCEPT !.eds[w.ed] = DeleteLineRange(r, st.l1, st.l2)])
        ELSE IF st.op = "\"\"" /\ st.ends = 2
        THEN Finish([w EXCEPT !.eds[w.ed] =
                        CopyLineRange(r, st.l1, st.l2, r, st.l2, FALSE)])
        ELSE IF targets = 1 THEN Finish(Execute(w, st))
        ELSE IF interEd THEN w
        ELSE Hold(w, st)

-----------------------------------------------------------------------------
(* xcPrfxs() *)

Oom(w) == \E f \in Files : w.eds[f] # Closed /\ w.eds[f].oom
Broken(w) == w.broken \/ \E f \in Files : w.eds[f] # Closed /\ w.eds[f].broken

\* The first of the prefix commands / moves the current line; with two of
\* them nothing else has placed the cursor, which lets the last one win.
ToSlash(r, pfx) ==
    LET slash == SelectSeq(pfx, LAMBDA p : p.c = "/")
    IN  IF slash = <<>> THEN r ELSE MoveToLine(r, slash[1].line)

\* RESET, and QUIT or QQUIT while there is something to reset, drop the
\* prefix commands and are used up by that.
IsReset(pfx, cmd) ==
    \/ cmd.c = "RESET"
    \/ cmd.c \in {"QUIT", "QQUIT"} /\ (block.op # "/" \/ pfx # <<>>)

ExecPrefixes(w, pfx, cmd) ==
    LET w1 == [w EXCEPT !.eds[w.ed] = Singles(@, pfx)]
        w2 == BlockCmd(w1, pfx)
    IN  IF IsReset(pfx, cmd) THEN [w EXCEPT !.block = NoBlock, !.skip = TRUE]
        ELSE IF Oom(w1) \/ Broken(w1) THEN [w1 EXCEPT !.skip = TRUE]
        ELSE IF Oom(w2) \/ Broken(w2) THEN [w2 EXCEPT !.skip = TRUE]
        ELSE [w2 EXCEPT !.eds[w.ed] = ToSlash(@, pfx)]

-----------------------------------------------------------------------------
(* Commands *)

\* getLineRange() and deleteLineRange() of DELETE n
DeleteLines(r, n) ==
    LET top  == r.curNo = 0
        r1   == IF top THEN MoveBy(r, 1) ELSE r
        m    == IF top THEN n - 1 ELSE n
        here == CurrentLine(r1)
        down(l) == IF NextLine(r1, l) = NULL THEN l ELSE NextLine(r1, l)
        up(l)   == IF PrevLine(r1, l) = NULL THEN l ELSE PrevLine(r1, l)
    IN  IF top /\ n = 1 THEN r
        ELSE IF here = NULL THEN r1
        ELSE IF m > 0 THEN DeleteLineRange(r1, here, Times(m - 1, here, down))
        ELSE DeleteLineRange(r1, Times(IF m < -1 THEN -m - 1 ELSE 0, here, up), here)

\* SPLTJOIN with the cursor in line l at place pos
SplitJoin(r, l, pos) ==
    IF pos < Len(r.text[l]) THEN Split(r, l, pos)
    ELSE IF l = r.prev[EOF] THEN r
    ELSE IF Own(r, l) THEN Join(r, l, pos, FALSE) ELSE r

LocateMark(r, k) ==
    MoveToLine(r, IF r.marks[k] = NULL THEN CurrentLine(r) ELSE r.marks[k])

\* Mutant: half a block is kept for the other editor.
KeepHalf(w, f) == [w EXCEPT !.ed = f]

\* switchToEditor() with swPrfxs(): half a block stays behind.
SwitchTo(w, f) ==
    [w EXCEPT !.ed = f,
              !.block = IF @.src # Nobody /\ f # w.ed /\ @.src # f /\ @.ends < 2
                        THEN NoBlock ELSE @]

NextEd(w) ==
    LET i == SelectInSeq(w.ring, LAMBDA f : f = w.ed)
    IN  w.ring[IF i = Len(w.ring) THEN 1 ELSE i + 1]

\* openFile(): the new editor comes next to the current one.
EditFile(w, f) ==
    LET i == SelectInSeq(w.ring, LAMBDA g : g = w.ed)
    IN  IF w.eds[f] # Closed THEN SwitchTo(w, f)
        ELSE SwitchTo([w EXCEPT !.eds[f] = Opened(Page[f], w.disk[f]),
                                !.ring = InsertAt(@, i + 1, f)], f)

\* closeFile(): the editor is freed before the next one is switched to.
CloseFile(w) ==
    LET rest == [w EXCEPT !.eds[w.ed] = Closed, !.ring = Remove(@, w.ed),
                          !.block.src = IF @ = w.ed /\ w.block.ends = 2 THEN Gone ELSE @]
    IN  IF NextEd(w) = w.ed THEN [rest EXCEPT !.done = TRUE]
        ELSE SwitchTo(rest, NextEd(w))

\* saveFile(): an empty text is written as one empty line.
Written(txts) == IF txts = <<>> THEN << <<>> >> ELSE txts

SaveFile(w) ==
    [w EXCEPT !.disk[w.ed] = Written(Content(w.eds[w.ed])),
              !.eds[w.ed].modified = FALSE]

Command(w, cmd) ==
    LET r == w.eds[w.ed]
    IN  IF w.skip THEN w
        ELSE CASE cmd.c = "INPUT"    -> [w EXCEPT !.eds[w.ed] = InsertLine(r, Typed)]
               [] cmd.c = "DELETE"   -> [w EXCEPT !.eds[w.ed] = DeleteLines(r, cmd.n)]
               [] cmd.c = "SPLTJOIN" -> [w EXCEPT !.eds[w.ed] = SplitJoin(r, cmd.line, cmd.n)]
               [] cmd.c = "MARK"     -> [w EXCEPT !.eds[w.ed] =
                                            SetLineMark(r, CurrentLine(r), cmd.n)]
               [] cmd.c = "LOCATE"   -> [w EXCEPT !.eds[w.ed] = LocateMark(r, cmd.n)]
               [] cmd.c = "TOP"      -> [w EXCEPT !.eds[w.ed] = MoveToBOF(r)]
               [] cmd.c = "BOTTOM"   -> [w EXCEPT !.eds[w.ed] = MoveToLastLine(r)]
               [] cmd.c = "NEXT"     -> [w EXCEPT !.eds[w.ed] = MoveBy(r, cmd.n)]
               [] cmd.c = "RINGNEXT" -> SwitchTo(w, NextEd(w))
               [] cmd.c = "EDIT"     -> EditFile(w, cmd.n)
               [] cmd.c = "SAVE"     -> SaveFile(w)
               [] cmd.c = "FILE"     -> CloseFile(SaveFile(w))
               [] cmd.c = "QUIT"     -> IF r.modified THEN w ELSE CloseFile(w)
               [] cmd.c = "QQUIT"    -> CloseFile(w)
               [] OTHER              -> w

-----------------------------------------------------------------------------
Init ==
    /\ eds = [f \in Files |-> IF f = First THEN Opened(Page[f], Saved[f]) ELSE Closed]
    /\ ring = <<First>>
    /\ ed = First
    /\ block = NoBlock
    /\ disk = Saved
    /\ status = "edit"
    /\ scope \in Scopes
    /\ entered = 0
    /\ kind = "other"

Nothing == [c |-> "none", n |-> 0]

\* The commands, with the places a cursor can be at for SPLTJOIN.
CmdInputs ==
    {c \in scope.cmds : c.c # "SPLTJOIN"} \cup
    {[c |-> "SPLTJOIN", n |-> pos, line |-> l] :
        l \in {Rows[i].line : i \in DOMAIN Rows} \ {NULL}, pos \in
            UNION {{c.n : c \in {x \in scope.cmds : x.c = "SPLTJOIN"}}}}

KindOf(pfx, cmd) ==
    LET letters == {pfx[i].c : i \in DOMAIN pfx}
    IN  IF letters \cap {"D", "DD"} # {} \/ cmd.c \in {"DELETE", "QQUIT"} THEN "delete"
        ELSE IF /\ letters \subseteq {"M", "MM", "P", "F", "/"}
                /\ block.op \in {"M", "MM", "/"} /\ cmd = Nothing THEN "move"
        ELSE "other"

\* One turn of the loop in doEdit()
RoundTrip(pfx, cmd) ==
    LET w0 == [eds |-> eds, ring |-> ring, ed |-> ed, block |-> block, disk |-> disk,
               skip |-> FALSE, done |-> FALSE, broken |-> FALSE]
    IN  /\ UNCHANGED scope
        /\ entered' = entered + Len(pfx) + IF cmd = Nothing THEN 0 ELSE 1
        /\ kind' = KindOf(pfx, cmd)
        /\ \E w \in {Command(ExecPrefixes(w0, pfx, cmd), cmd)} :
              /\ eds' = [f \in Files |-> IF w.eds[f] = Closed THEN Closed
                                         ELSE [w.eds[f] EXCEPT !.oom = FALSE]]
              /\ ring' = w.ring /\ ed' = w.ed /\ block' = w.block /\ disk' = w.disk
              /\ status' = IF Broken(w) THEN "broken"
                           ELSE IF w.done THEN "done" ELSE "edit"

Stop == (status # "edit" \/ entered = scope.inputs) /\ UNCHANGED vars

Next ==
    \/ /\ status = "edit"
       /\ \E n \in 0 .. Least(2, scope.inputs - entered) :
          \E pfx \in PrefixInputs(n),
             cmd \in (IF n = 0 THEN {} ELSE {Nothing}) \cup
                     (IF entered + n < scope.inputs THEN CmdInputs ELSE {}) :
                RoundTrip(pfx, cmd)
    \/ Stop

Spec == Init /\ [][Next]_vars

-----------------------------------------------------------------------------
Tokens(e, f) == IF e[f] = Closed THEN {} ELSE UNION {ToSet(t) : t \in ToSet(Content(e[f]))}

\* A text that was in an open file is still in one, or on disk, unless the
\* round trip contained a D, DD, DELETE or QQUIT: no block operation, with its
\* ends given over several round trips and files, loses a line.
NothingLost ==
    [][(kind' # "delete" /\ status' # "broken") =>
          UNION {Tokens(eds, f) : f \in Files}
             \subseteq UNION {Tokens(eds', f) \cup UNION {ToSet(t) : t \in ToSet(disk'[f])} :
                                 f \in Files}]_vars

\* All the lines of the open files.
Everything(e, open) == FlattenSeq([i \in DOMAIN open |-> Content(e[open[i]])])

\* A round trip of nothing but a move neither loses nor doubles a line, also
\* when it goes to another file and lines run out on the way (mvrng copies
\* and deletes).
MovesConserve ==
    [][(kind' = "move" /\ status' = "edit") =>
          ToBag(Everything(eds', ring')) = ToBag(Everything(eds, ring))]_vars

\* Half a block belongs to the file on the screen: its second end can only be
\* given there (swPrfxs drops it on a switch).
PartialBlockIsLocal == block.ends = 1 => block.src = ed /\ block.pos1 = block.pos2

\* A file that does not count as modified has the lines it has on disk, so
\* that QUIT loses nothing.
ModifiedIsHonest ==
    status # "broken" =>
        \A f \in Open : eds[f].modified \/ Written(Content(eds[f])) = Written(disk[f])
=============================================================================
