------------------------------ MODULE LineList ------------------------------
(***************************************************************************)
(* eecore.c: the lines of one editor.  They are chained in both directions *)
(* between the guard lines BOF and EOF; the lines not in use are chained   *)
(* through the same next pointers from firstFree, last freed first.  A     *)
(* line pointer stays valid storage when its line is freed, and names      *)
(* another line when it is taken again.                                    *)
(*                                                                         *)
(* An editor is a record r.  Each function of eecore.c that changes it is  *)
(* an operator from the record to the record.  Two flags stand for what    *)
(* ends a function early: oom for the exception raised when no line is     *)
(* left and none can be allocated, broken for a null pointer followed.     *)
(* The text of a line is a sequence of at most WorkLrecl tokens; blanks,   *)
(* case and the difference between file and work LRECL are left out.       *)
(***************************************************************************)
EXTENDS Integers, Sequences, FiniteSets, SequencesExt

CONSTANTS
    Lines,      \* the lines of the buffer pages of all editors
    MarkNos,    \* indices into lineMarks
    WorkLrecl   \* longest text of a line

NULL == "NULL"
BOF == "BOF"
EOF == "EOF"

ASSUME LinesAssumption == IsFiniteSet(Lines) /\ Lines \cap {NULL, BOF, EOF} = {}

Slots == Lines \cup {BOF, EOF}
Pointers == Slots \cup {NULL}

EdType(Texts) ==
    [next : [Slots -> Pointers], prev : [Slots -> Pointers],
     mine : [Slots -> BOOLEAN],   \* lineinfo names this editor
     text : [Lines -> Texts],
     firstFree : Lines \cup {NULL}, cur : Pointers, curNo : Int, count : Int,
     marks : [MarkNos -> Pointers], modified : BOOLEAN,
     oom : BOOLEAN, broken : BOOLEAN]

\* What a function of the list makes of r, called for each element of s in
\* turn; as a function of the place in s it can be reasoned about.
InTurn(step(_, _), r, s) ==
    LET after[i \in 0 .. Len(s)] == IF i = 0 THEN r ELSE step(after[i - 1], s[i])
    IN  after[Len(s)]

-----------------------------------------------------------------------------
(* Walking the chain *)

\* The slots met from l on, up to and including EOF or a null pointer.
Follow(r, l) ==
    LET walk[i \in 0 .. Cardinality(Lines) + 1] ==
            IF i = 0 THEN <<l>>
            ELSE LET met == walk[i - 1]
                 IN  IF Last(met) \in {EOF, NULL} THEN met
                     ELSE Append(met, r.next[Last(met)])
    IN  walk[Cardinality(Lines) + 1]

Chain(r) == Front(Follow(r, r.next[BOF]))
FreeLines(r) == IF r.firstFree = NULL THEN <<>> ELSE Front(Follow(r, r.firstFree))
Content(r) ==
    LET chain == Chain(r)
    IN  [i \in DOMAIN chain |-> r.text[chain[i]]]

\* Place of a slot in the chain, 0 for BOF.
PlaceOf(r, l) == SelectInSeq(Follow(r, BOF), LAMBDA x : x = l) - 1

\* lineNotOfThisEditor(), which tells a freed line by its empty lineinfo.
Own(r, l) == l # NULL /\ r.mine[l]

FirstLine(r) == IF r.next[BOF] = EOF THEN NULL ELSE r.next[BOF]
CurrentLine(r) == IF r.next[BOF] = EOF THEN NULL ELSE r.cur

NextLine(r, l) ==
    IF l = NULL THEN FirstLine(r)
    ELSE IF ~Own(r, l) \/ r.next[l] = EOF THEN NULL ELSE r.next[l]

PrevLine(r, l) ==
    IF ~Own(r, l) \/ r.prev[l] = BOF THEN NULL ELSE r.prev[l]

\* The lines a .. b of a range that is in order.
Between(r, a, b) ==
    LET walk == Front(Follow(r, a))
        last == SelectInSeq(walk, LAMBDA x : x = b)
    IN  IF last = 0 THEN walk ELSE SubSeq(walk, 1, last)

\* orderLines(): the range in order, or the empty sequence if it is invalid.
OrderLines(r, a, b) ==
    IF ~Own(r, a) \/ ~Own(r, b) THEN <<>>
    ELSE IF Contains(Follow(r, a), b) THEN <<a, b>> ELSE <<b, a>>

IsInLineRange(r, l, a, b) ==
    LET range == OrderLines(r, a, b)
    IN  Own(r, l) /\ range # <<>> /\ Contains(Between(r, range[1], range[2]), l)

-----------------------------------------------------------------------------
(* The current line *)

MoveToBOF(r) == [r EXCEPT !.cur = BOF, !.curNo = 0]
MoveToLastLine(r) == [r EXCEPT !.cur = r.prev[EOF], !.curNo = r.count]

MoveToLine(r, l) ==
    IF l \in {NULL, BOF} THEN MoveToBOF(r)
    ELSE IF l = EOF \/ PlaceOf(r, l) = -1 THEN MoveToLastLine(r)
    ELSE [r EXCEPT !.cur = l, !.curNo = PlaceOf(r, l)]

\* moveUp() and moveDown() count on from the number they find.
MoveBy(r, by) ==
    LET to == CHOOSE p \in 0 .. Len(Chain(r)) :
                 \/ p = PlaceOf(r, r.cur) + by
                 \/ p = 0 /\ PlaceOf(r, r.cur) + by < 0
                 \/ p = Len(Chain(r)) /\ PlaceOf(r, r.cur) + by > p
    IN  [r EXCEPT !.cur = Follow(r, BOF)[to + 1],
                  !.curNo = @ + to - PlaceOf(r, r.cur)]

\* recomputeCurrentLineNo() counts the guard line as the first one.
RecomputeNo(r) ==
    [r EXCEPT !.curNo = IF r.cur \in {NULL, BOF} THEN 0 ELSE PlaceOf(r, r.cur) + 1]

-----------------------------------------------------------------------------
(* Single lines *)

\* Mutant: the marks of a freed line stay.
MarksStay(r, l) ==
    [r EXCEPT !.mine[l] = FALSE, !.text[l] = <<>>, !.prev[l] = NULL,
              !.next[l] = r.firstFree, !.firstFree = l]

\* returnFreeLine()
FreeLine(r, l) ==
    [r EXCEPT !.marks = [k \in MarkNos |-> IF r.marks[k] = l THEN NULL ELSE r.marks[k]],
              !.mine[l] = FALSE, !.text[l] = <<>>, !.prev[l] = NULL,
              !.next[l] = r.firstFree, !.firstFree = l]

\* insertLineAfter(), with getFreeLine() and updateLine(); the new line is
\* the one that was r.firstFree.
InsertLineAfter(r, l, txt) ==
    LET new   == r.firstFree
        at    == IF l = NULL THEN BOF ELSE l
        after == r.next[at]
    IN  IF r.oom \/ new = NULL THEN [r EXCEPT !.oom = TRUE]
        ELSE IF after = NULL THEN [r EXCEPT !.broken = TRUE]
        ELSE [r EXCEPT !.firstFree = r.next[new], !.mine[new] = TRUE,
                       !.text[new] = txt, !.modified = TRUE,
                       !.next = [@ EXCEPT ![new] = after, ![at] = new],
                       !.prev = [@ EXCEPT ![after] = new, ![new] = at],
                       !.count = @ + 1,
                       !.curNo = IF Contains(Follow(r, after), r.cur) THEN @ + 1 ELSE @]

InsertLineBefore(r, l, txt) ==
    InsertLineAfter(r, IF l \in {NULL, BOF} THEN BOF ELSE r.prev[l], txt)

\* insertLine(): makes the new line current and leaves lineCurrentNo alone.
InsertLine(r, txt) ==
    LET new == InsertLineAfter(r, r.cur, txt)
    IN  IF new.oom \/ new.broken THEN new ELSE [new EXCEPT !.cur = r.firstFree]

\* Mutant: a deletion does not count as a modification.
DeletedSilently(r, l) ==
    IF l \in {NULL, BOF, EOF} THEN r
    ELSE IF NULL \in {r.next[l], r.prev[l]} THEN [r EXCEPT !.broken = TRUE]
    ELSE FreeLine(
           [r EXCEPT !.count = @ - 1,
                     !.cur = IF @ = l THEN r.prev[l] ELSE @,
                     !.curNo = IF Contains(Follow(r, l), r.cur) THEN @ - 1 ELSE @,
                     !.next[r.prev[l]] = r.next[l],
                     !.prev[r.next[l]] = r.prev[l]], l)

\* deleteLine()
DeleteLine(r, l) ==
    IF l \in {NULL, BOF, EOF} THEN r
    ELSE IF NULL \in {r.next[l], r.prev[l]} THEN [r EXCEPT !.broken = TRUE]
    ELSE FreeLine(
           [r EXCEPT !.count = @ - 1, !.modified = TRUE,
                     !.cur = IF @ = l THEN r.prev[l] ELSE @,
                     !.curNo = IF Contains(Follow(r, l), r.cur) THEN @ - 1 ELSE @,
                     !.next[r.prev[l]] = r.next[l],
                     !.prev[r.next[l]] = r.prev[l]], l)

UpdateLine(r, l, txt) == [r EXCEPT !.text[l] = txt, !.modified = TRUE]

\* edJoin() with the cursor at pos, behind the text of l.  The blanks up to
\* the cursor take their room; if too little is left for the follower nothing
\* happens, unless that is forced.
Join(r, l, pos, force) ==
    LET follower == r.next[l]
        more     == r.text[follower]
        room     == WorkLrecl - IF pos < WorkLrecl THEN pos ELSE Len(r.text[l])
        kept     == SubSeq(more, 1, IF room < Len(more) THEN room ELSE Len(more))
    IN  IF follower = EOF \/ (room < Len(more) /\ ~force) THEN r
        ELSE DeleteLine([r EXCEPT !.text[l] = @ \o kept], follower)

\* Mutant: the character before the split goes to both lines.
SplitTooEarly(r, l, pos) ==
    LET new == InsertLineAfter(r, l, SubSeq(r.text[l], pos, Len(r.text[l])))
    IN  IF pos = 0 THEN InsertLineBefore(r, l, <<>>)
        ELSE IF new.oom THEN new
        ELSE UpdateLine(new, l, SubSeq(r.text[l], 1, pos))

\* edSplit() at a place before the end of the text.
Split(r, l, pos) ==
    LET tail == SubSeq(r.text[l], pos + 1, Len(r.text[l]))
        new  == InsertLineAfter(r, l, tail)
    IN  IF pos = 0 THEN InsertLineBefore(r, l, <<>>)
        ELSE IF new.oom THEN new
        ELSE UpdateLine(new, l, SubSeq(r.text[l], 1, pos))

\* edSMark() with a valid letter
SetLineMark(r, l, k) ==
    IF l # NULL /\ ~Own(r, l) THEN r ELSE [r EXCEPT !.marks[k] = l]

-----------------------------------------------------------------------------
(* Ranges *)

\* Mutant: the walk that frees the lines of the range misses the last one.
LastNotFreed(r, from, to) ==
    LET range == OrderLines(r, from, to)
        head  == r.prev[range[1]]
        tail  == r.next[range[2]]
        gone  == Between(r, range[1], range[2])
        cut   == [r EXCEPT !.cur = IF Contains(gone, @) THEN head ELSE @,
                           !.next[head] = tail, !.prev[tail] = head,
                           !.modified = TRUE, !.count = @ - Len(gone)]
    IN  IF range = <<>> THEN r
        ELSE IF head = NULL THEN [r EXCEPT !.broken = TRUE]
        ELSE RecomputeNo(InTurn(FreeLine, cut, Front(gone)))

\* deleteLineRange(); cutting a range that starts at BOF follows its null
\* prev pointer.
DeleteLineRange(r, from, to) ==
    LET range == OrderLines(r, from, to)
        head  == r.prev[range[1]]
        tail  == r.next[range[2]]
        gone  == Between(r, range[1], range[2])
        cut   == [r EXCEPT !.cur = IF Contains(gone, @) THEN head ELSE @,
                           !.next[head] = tail, !.prev[tail] = head,
                           !.modified = TRUE, !.count = @ - Len(gone)]
    IN  IF range = <<>> THEN r
        ELSE IF head = NULL THEN [r EXCEPT !.broken = TRUE]
        ELSE RecomputeNo(InTurn(FreeLine, cut, gone))

\* copyRange() into the editor r of a sequence of texts, and the linking of
\* the new lines by copyLineRange().  Without enough free lines those taken
\* so far belong to no list.
Paste(r, txts, trg) ==
    LET n     == Len(txts)
        free  == FreeLines(r)
        some  == Len(free) < n
        new   == IF some THEN free ELSE SubSeq(free, 1, n)
        after == r.next[trg]
        taken == [r EXCEPT
                    !.firstFree = IF Len(free) =< n THEN NULL ELSE free[n + 1],
                    !.modified = @ \/ new # <<>>,
                    !.mine = [l \in Slots |-> @[l] \/ Contains(new, l)],
                    !.text = [l \in Lines |-> IF Contains(new, l)
                                 THEN txts[SelectInSeq(new, LAMBDA x : x = l)] ELSE @[l]],
                    !.prev = [l \in Slots |->
                                 IF l \in ToSet(new)
                                 THEN LET i == SelectInSeq(new, LAMBDA x : x = l)
                                      IN  IF i = 1 THEN trg ELSE new[i - 1]
                                 ELSE @[l]]]
    IN  IF some THEN [taken EXCEPT !.oom = TRUE]
        ELSE RecomputeNo([taken EXCEPT !.count = @ + n,
                                       !.prev[after] = new[n],
                                       !.next = [@ EXCEPT ![new[n]] = after,
                                                          ![trg] = new[1]]])

\* Is there something to copy or move, and a place to put it ?
Placeable(src, from, to, trgEd, trg) ==
    OrderLines(src, from, to) # <<>> /\ (trg = NULL \/ Own(trgEd, trg))

\* copyLineRange() from src to trgEd, which may be the same editor; the
\* result is the target editor.
CopyLineRange(src, from, to, trgEd, trg, before) ==
    LET range == OrderLines(src, from, to)
        lines == Between(src, range[1], range[2])
        at    == IF trg = NULL THEN BOF ELSE IF before THEN trgEd.prev[trg] ELSE trg
    IN  IF ~Placeable(src, from, to, trgEd, trg) THEN trgEd
        ELSE Paste(trgEd, [i \in DOMAIN lines |-> src.text[lines[i]]], at)

\* moveLineRange() within an editor: the range is cut out and linked again.
MoveWithin(r, from, to, trg, before) ==
    LET range == OrderLines(r, from, to)
        head  == r.prev[range[1]]
        tail  == r.next[range[2]]
        cut   == [r EXCEPT !.next = [@ EXCEPT ![head] = tail, ![range[2]] = NULL],
                           !.prev = [@ EXCEPT ![tail] = head, ![range[1]] = NULL],
                           !.modified = TRUE]
        at    == IF trg = NULL THEN BOF ELSE IF before THEN cut.prev[trg] ELSE trg
        after == cut.next[at]
    IN  IF ~Placeable(r, from, to, r, trg) THEN r
        ELSE IF head = NULL \/ at = NULL \/ after = NULL THEN [r EXCEPT !.broken = TRUE]
        ELSE RecomputeNo([cut EXCEPT !.prev = [@ EXCEPT ![after] = range[2], ![range[1]] = at],
                                     !.next = [@ EXCEPT ![range[2]] = after, ![at] = range[1]]])

-----------------------------------------------------------------------------
(* A new editor *)

\* mkEd() with the page of free lines, and insertFile() of the contents: a
\* line per record, each the current one in turn; openFile() then moves to BOF.
Opened(page, txts) ==
    LET empty == [next |-> [s \in Slots |->
                     IF s = BOF THEN EOF ELSE IF ~Contains(page, s) \/ s = Last(page) THEN NULL
                     ELSE page[SelectInSeq(page, LAMBDA x : x = s) + 1]],
                  prev |-> [s \in Slots |-> IF s = EOF THEN BOF ELSE NULL],
                  mine |-> [s \in Slots |-> s \in {BOF, EOF}],
                  text |-> [l \in Lines |-> <<>>],
                  firstFree |-> page[1], cur |-> BOF, curNo |-> 0, count |-> 0,
                  marks |-> [k \in MarkNos |-> NULL], modified |-> FALSE,
                  oom |-> FALSE, broken |-> FALSE]
    IN  [MoveToBOF(InTurn(InsertLine, empty, txts)) EXCEPT !.modified = FALSE]
=============================================================================
