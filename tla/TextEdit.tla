------------------------------- MODULE TextEdit -------------------------------
(***************************************************************************)
(* EE's operations on the text of one file: CHANGE, SHIFT, SPLTJOIN, the   *)
(* two line lengths, LOCATE and searches, marks, and the sort of its list  *)
(* screens.  Lines are known by a number that stays with them when they    *)
(* are relinked or copied to new pages (LineList has the pointers); a text *)
(* is a sequence of characters, numbers of which Blank is the smallest.    *)
(*                                                                         *)
(* A line may be longer than the working length: its end is hidden then,   *)
(* and lost with the next change of the line (eecore.h 218).               *)
(***************************************************************************)
EXTENDS Integers, SequencesExt

CONSTANTS
    Capital,      \* upper case of a character
    Files,        \* the texts the file may have at first
    Letters,      \* letters used as marks, 1 is A
    Modes,        \* [respect, upper]: the settings of CASE
    FileLrecl, MinLrecl, MaxLrecl,
    Changes,      \* [from, to, per, lines, confirm]: the CHANGE commands
    Shifts,       \* [by, left, count, mode]: the SHIFT commands
    Cursors,      \* columns of the cursor for SPLTJOIN
    Lengths,      \* the lengths for LRECL and WORKLRECL
    Targets,      \* lists of locations for LOCATE
    Orders,       \* lists of sort items [desc, offset, length]
    MaxCommands   \* bound

Blank == 0
Many == 9999
Chars == DOMAIN Capital

ASSUME TextAssumption ==
    /\ Blank \in Chars /\ Chars \subseteq Nat
    /\ Letters \subseteq 1 .. 26
    /\ 1 =< MinLrecl /\ MinLrecl =< FileLrecl /\ FileLrecl =< MaxLrecl
    /\ Cursors \subseteq Nat /\ Lengths \subseteq 0 .. MaxLrecl
    /\ MaxCommands \in Nat

VARIABLES
    lines,      \* [id, text]
    cur, no,    \* lineCurrent, 0 for BOF, and lineCurrentNo
    marks,      \* lineMarks by index
    opt,        \* [respect, upper, file, work]
    chg,        \* the CHANGE under way
    search,     \* searchPattern and searchUp
    out         \* what the user has been told: [op, ok, cut]; n counts commands

vars == <<lines, cur, no, marks, opt, chg, search, out>>

-----------------------------------------------------------------------------
(* Texts *)

Clip(t, n) == IF Len(t) =< n THEN t ELSE SubSeq(t, 1, n)
Blanks(n) == [i \in 1 .. n |-> Blank]
From(t, n) == SubSeq(t, n + 1, Len(t))
Lead(t) == IF \A i \in DOMAIN t : t[i] = Blank THEN Many
           ELSE Min({i \in DOMAIN t : t[i] # Blank}) - 1
Trim(t) == SubSeq(t, 1, Max({0} \cup {i \in DOMAIN t : t[i] # Blank}))

\* lineLength() and updateLine()
Seen(t) == Clip(t, opt.work)
Stored(t) == Clip(IF opt.upper THEN [i \in DOMAIN Trim(t) |-> Capital[t[i]]] ELSE Trim(t),
                  opt.work)

Alike(a, b) == a = b \/ (~opt.respect /\ Capital[a] = Capital[b])
MatchAt(t, what, off) ==
    off + Len(what) =< Len(t) /\ \A i \in DOMAIN what : Alike(t[off + i], what[i])

\* findStringInLine(): the first place at or after off, -1 if there is none.
Found(t, what, off) ==
    LET places == {k \in off .. Len(Seen(t)) : k < opt.work /\ MatchAt(Seen(t), what, k)}
    IN  IF places = {} THEN -1 ELSE Min(places)

-----------------------------------------------------------------------------
(* Lines and places *)

Place(id) == IF id = 0 THEN 0 ELSE CHOOSE p \in DOMAIN lines : lines[p].id = id
IdAt(p) == IF p = 0 THEN 0 ELSE lines[p].id
Fresh == 1 + Max({0} \cup {lines[p].id : p \in DOMAIN lines} \cup {cur})
Here == Place(cur)

MoveTo(p) == cur' = IdAt(p) /\ no' = p
Step(by) == cur' = IdAt(Here + by) /\ no' = no + by

MarkIndex(n) == IF n =< 9 THEN n - 1 ELSE IF n =< 18 THEN n - 2 ELSE n - 1

NoChange == [on |-> FALSE]
Told(op, ok, cut) == out' = [op |-> op, ok |-> ok, cut |-> cut, n |-> out.n + 1]
Ready == ~chg.on /\ out.n < MaxCommands

Init ==
    /\ \E f \in Files, mode \in Modes :
         /\ lines = [p \in DOMAIN f |-> [id |-> p, text |-> f[p]]]
         /\ opt = [respect |-> mode.respect, upper |-> mode.upper,
                   file |-> FileLrecl, work |-> FileLrecl]
    /\ cur = 0 /\ no = 0
    /\ marks = [i \in 0 .. 25 |-> 0]
    /\ chg = NoChange
    /\ search = [what |-> <<>>, up |-> FALSE]
    /\ out = [op |-> "none", ok |-> TRUE, cut |-> FALSE, n |-> 0]

-----------------------------------------------------------------------------
(* CHANGE *)

\* changeString() of the occurrence at k: the text, the place behind it.
Replaced(t, from, to, k) ==
    Stored(Clip(SubSeq(t, 1, k) \o to \o From(t, k + Len(from)), opt.work))
\* Mutant: the search goes on inside the text that was put in.
BehindFirst(to, k) == k + Min({1, Len(to), opt.work - k})
Behind(to, k) == k + Min({Len(to), opt.work - k})
Truncates(t, from, to) == Len(t) - Len(from) + Len(to) > opt.work

StartChange ==
    /\ Ready
    /\ \E c \in Changes :
         IF Here = 0 \/ c.lines =< 0 THEN Told("change", FALSE, FALSE) /\ UNCHANGED chg
         ELSE /\ chg' = [on |-> TRUE, c |-> c, at |-> Here, left |-> c.lines, off |-> 0,
                         done |-> 0, found |-> FALSE, cut |-> FALSE, lineCut |-> FALSE,
                         before |-> lines, orig |-> Here]
              /\ out' = [out EXCEPT !.op = "none"]
    /\ UNCHANGED <<lines, cur, no, marks, opt, search>>

\* The change goes on with the next line, or ends.
NextLine(ch) ==
    IF ch.left = 1 \/ ch.at = Len(lines)
      THEN /\ chg' = [ch EXCEPT !.on = FALSE]
           /\ Told("change", ch.found, ch.cut)
           /\ MoveTo(ch.orig)
      ELSE /\ chg' = [ch EXCEPT !.at = @ + 1, !.left = @ - 1, !.off = 0, !.done = 0,
                                !.lineCut = FALSE]
           /\ UNCHANGED <<out, cur, no>>

Text == Seen(lines[chg.at].text)
Occurrence == IF chg.c.from = <<>> THEN chg.off ELSE Found(Text, chg.c.from, chg.off)
More == chg.on /\ chg.done < chg.c.per /\ chg.off < opt.work /\ Occurrence >= 0
Empty == chg.c.from = <<>> /\ chg.c.to = <<>>

\* The next occurrence is changed; with CONFIRM the user said yes to it.
ChangeNext ==
    /\ More /\ ~Empty
    /\ lines' = [lines EXCEPT ![chg.at].text = Replaced(Text, chg.c.from, chg.c.to, Occurrence)]
    /\ chg' = [chg EXCEPT !.off = Behind(chg.c.to, Occurrence), !.done = @ + 1, !.found = TRUE,
                          !.lineCut = @ \/ Truncates(Text, chg.c.from, chg.c.to),
                          !.cut = @ \/ Truncates(Text, chg.c.from, chg.c.to)]
    /\ IF chg.c.confirm THEN MoveTo(chg.at) ELSE UNCHANGED <<cur, no>>
    /\ UNCHANGED <<marks, opt, search, out>>

\* The user skips it (and the rest of the line), or stops all changes.
Declined ==
    /\ More /\ chg.c.confirm
    /\ \E stop \in BOOLEAN :
         NextLine([chg EXCEPT !.found = TRUE, !.left = IF stop THEN 1 ELSE @])
    /\ UNCHANGED <<lines, marks, opt, search>>

LineDone ==
    /\ chg.on /\ (~More \/ Empty)
    /\ NextLine(chg)
    /\ UNCHANGED <<lines, marks, opt, search>>

-----------------------------------------------------------------------------
(* SHIFT *)

LeftBy(t, by) == IF Len(t) =< by THEN <<>> ELSE Stored(From(t, by))
RightBy(t, by) ==
    LET keep == Min({opt.work - by, Len(t)})
    IN  IF t = <<>> THEN t ELSE IF keep =< 0 THEN <<>> ELSE Stored(Blanks(by) \o Clip(t, keep))

\* How far each line of a block can go without losing something.
Room(left, p) == IF left THEN Lead(Seen(lines[p].text)) ELSE opt.work - Len(Seen(lines[p].text))

\* Mutant: the room of the last line of the block is not asked for.
NarrowestBut(left, block, by) == Min({by} \cup {Room(left, p) : p \in block \ {Max(block)}})
Narrowest(left, block, by) == Min({by} \cup {Room(left, p) : p \in block})

ShiftBlock(s, block) ==
    LET least == Narrowest(s.left, block, s.by)
        by(p) == CASE s.mode = "limit" -> Min({s.by, Room(s.left, p)})
                   [] s.mode = "trunc" -> s.by
                   [] s.mode = "check" -> IF least < s.by THEN 0 ELSE s.by
                   [] OTHER -> least
        shifted(p) == IF s.left THEN LeftBy(Seen(lines[p].text), by(p))
                      ELSE RightBy(Seen(lines[p].text), by(p))
        still == s.by = 0 \/ (s.mode \in {"check", "min"} /\ by(Min(block)) = 0)
    IN  /\ lines' = [p \in DOMAIN lines |->
                       IF p \in block /\ ~still THEN [lines[p] EXCEPT !.text = shifted(p)]
                       ELSE lines[p]]
        /\ Told("shift", ~(s.mode = "check" /\ least < s.by), s.mode = "trunc" /\ least < s.by)

\* The block goes from the current line to another one, counted by the number
\* the editor has for the current line.
Shift ==
    /\ Ready
    /\ \E s \in Shifts :
         LET other == Max({1, Min({no + s.count, Len(lines)})})
             ends  == {Here, IF s.count = 0 THEN Here ELSE other}
         IN  IF Here = 0 \/ ends \ DOMAIN lines # {}
               THEN Told("shift", FALSE, FALSE) /\ UNCHANGED lines
               ELSE ShiftBlock(s, Min(ends) .. Max(ends))
    /\ UNCHANGED <<cur, no, marks, opt, chg, search>>

-----------------------------------------------------------------------------
(* SPLTJOIN with the cursor in line p behind pos characters *)

Without(p) == SubSeq(lines, 1, p - 1) \o SubSeq(lines, p + 1, Len(lines))

Join(p, pos, force) ==
    LET t     == Seen(lines[p].text)
        next  == Seen(lines[p + 1].text)
        more  == IF Lead(next) = Many THEN <<>> ELSE From(next, Lead(next))
        start == IF pos < opt.work THEN t \o Blanks(pos - Len(t)) ELSE t
        fits  == Len(start) + Len(more) =< opt.work
        gone  == lines[p + 1].id
    IN  IF ~fits /\ ~force THEN Told("join", FALSE, FALSE) /\ UNCHANGED <<lines, cur, no, marks>>
        ELSE /\ lines' = [Without(p + 1) EXCEPT ![p].text = Clip(start \o more, opt.work)]
             /\ cur' = IF cur = gone THEN lines[p].id ELSE cur
             /\ no' = IF Here > p THEN no - 1 ELSE no
             /\ marks' = [i \in DOMAIN marks |-> IF marks[i] = gone THEN 0 ELSE marks[i]]
             /\ Told("join", TRUE, ~fits)

\* The new line is indented like the old one, or like the one before that.
Indent(p, pos) ==
    LET own   == Lead(Clip(Seen(lines[p].text), pos))
        above == {q \in 1 .. p - 1 : Seen(lines[q].text) # <<>>}
    IN  IF own # Many THEN own
        ELSE IF above = {} THEN 0
        ELSE Min({pos, Lead(lines[Max(above)].text), Len(lines[Max(above)].text)})

Rest(p, pos) == Blanks(Indent(p, pos)) \o From(Seen(lines[p].text), pos)

InsertedAt(p, t) ==
    SubSeq(lines, 1, p - 1) \o << [id |-> Fresh, text |-> t] >> \o From(lines, p - 1)

Split(p, pos) ==
    /\ lines' = IF pos = 0 THEN InsertedAt(p, <<>>)
                ELSE [InsertedAt(p + 1, Stored(Rest(p, pos))) EXCEPT
                        ![p].text = Stored(Clip(Seen(lines[p].text), pos))]
    /\ no' = IF Here >= (IF pos = 0 THEN p ELSE p + 1) THEN no + 1 ELSE no
    /\ Told("split", TRUE, FALSE)
    /\ UNCHANGED <<cur, marks>>

SplitJoin ==
    /\ Ready
    /\ \E p \in DOMAIN lines, pos \in Cursors, force \in BOOLEAN :
         IF pos < Len(Seen(lines[p].text)) THEN ~force /\ Split(p, pos)
         ELSE IF p = Len(lines) THEN Told("join", FALSE, FALSE) /\ UNCHANGED <<lines, cur, no, marks>>
         ELSE Join(p, pos, force)
    /\ UNCHANGED <<opt, chg, search>>

-----------------------------------------------------------------------------
(* Line lengths *)

WorkLrecl ==
    /\ Ready
    /\ \E n \in Lengths : opt' = [opt EXCEPT !.work = Max({1, Min({n, opt.file})})]
    /\ Told("worklrecl", TRUE, FALSE)
    /\ UNCHANGED <<lines, cur, no, marks, chg, search>>

\* silrecl() looks for the marks of each line in the list of those left: one
\* found leaves the list, and the one behind it is not looked at for this line.
\* What is left at the end is lost.
Carried ==
    LET set == {i \in DOMAIN marks : marks[i] # 0}
        unfound(left, line) ==
            LET one(s, i) == IF marks[i] = line.id /\ ~s.skip THEN [s EXCEPT !.skip = TRUE]
                             ELSE [left |-> Append(s.left, i), skip |-> FALSE]
            IN  FoldLeft(one, [left |-> <<>>, skip |-> FALSE], left).left
        lost == ToSet(FoldLeft(unfound, SetToSortSeq(set, <), lines))
    IN  [i \in DOMAIN marks |-> IF i \in lost THEN 0 ELSE marks[i]]

\* All lines go to new pages.  Without the memory for them everything is put
\* back but the marks.  What is compared for the report of truncated lines is
\* what shows of them at the new working length.
Lrecl ==
    /\ Ready
    /\ \E n \in Lengths :
         IF n < MinLrecl \/ n = opt.file
           THEN Told("lrecl", FALSE, FALSE) /\ UNCHANGED <<lines, cur, no, marks, opt>>
           ELSE \/ /\ marks' = [i \in DOMAIN marks |-> 0]
                   /\ Told("lrecl", FALSE, FALSE)
                   /\ UNCHANGED <<lines, cur, no, opt>>
                \/ \E work \in {Min({n, opt.work})} :
                   /\ opt' = [opt EXCEPT !.file = n, !.work = work]
                   /\ lines' = [p \in DOMAIN lines |->
                                  [lines[p] EXCEPT !.text = Stored(Clip(@, work))]]
                   /\ marks' = Carried
                   /\ MoveTo(Here)
                   /\ Told("lrecl", TRUE, n < opt.file /\
                             \E p \in DOMAIN lines : Len(Clip(lines[p].text, work)) > n)
    /\ UNCHANGED <<chg, search>>

-----------------------------------------------------------------------------
(* LOCATE, searches, marks *)

\* edFind(): the place of the next line with the text, 0 if there is none.
NextWith(at, what, up) ==
    LET range == IF up THEN 1 .. at - 1 ELSE at + 1 .. Len(lines)
        hits  == {p \in range : Found(lines[p].text, what, 0) >= 0}
    IN  IF hits = {} THEN 0 ELSE IF up THEN Max(hits) ELSE Min(hits)

Failed == [at |-> 0, no |-> 0, ok |-> FALSE]
Reached(from, p) == [at |-> p, no |-> from.no + p - from.at, ok |-> TRUE]

\* One location; [k, n] with a distance, a number or a mark, or [k, what].
After(from, loc) ==
    CASE loc.k = "relative" ->
           Reached(from, Max({0, Min({Len(lines), from.at + loc.n})}))
      [] loc.k = "absolute" ->
           LET p == Max({0, Min({loc.n, Len(lines)})}) IN [at |-> p, no |-> p, ok |-> TRUE]
      [] loc.k = "mark" ->
           LET p == Place(marks[MarkIndex(loc.n)])
           IN  IF p = 0 THEN Failed ELSE [at |-> p, no |-> p, ok |-> TRUE]
      [] loc.k \in {"pattern", "patternup"} ->
           LET p == NextWith(from.at, loc.what, loc.k = "patternup")
           IN  IF p = 0 THEN Failed ELSE Reached(from, p)
      [] OTHER -> Failed

\* Mutant: a failure leaves the editor where the locations before it led.
StaysThere(walk, i) == IF walk[i].ok THEN walk[i] ELSE walk[i - 1]
Arrival(walk, i) ==
    IF walk[i].ok THEN walk[i] ELSE [at |-> Here, no |-> Here, ok |-> FALSE]

Locate ==
    /\ Ready
    /\ \E target \in Targets :
         LET walk[i \in 0 .. Len(target)] ==
               IF i = 0 THEN [at |-> Here, no |-> no, ok |-> TRUE]
               ELSE IF walk[i - 1].ok THEN After(walk[i - 1], target[i]) ELSE walk[i - 1]
             ended == CHOOSE i \in DOMAIN walk :
                        IF walk[Len(target)].ok THEN i = Len(target)
                        ELSE ~walk[i].ok /\ walk[i - 1].ok
             seen  == {i \in 1 .. ended : target[i].k # "error"}
             alone == seen = {1} /\ target[1].k \in {"pattern", "patternup"}
         IN  /\ \E end \in {Arrival(walk, ended)} :
                  /\ cur' = IdAt(end.at) /\ no' = end.no
                  /\ Told("locate", walk[ended].ok, FALSE)
             /\ search' = IF alone THEN [what |-> target[1].what, up |-> target[1].k = "patternup"]
                          ELSE [search EXCEPT !.what = <<>>]
    /\ UNCHANGED <<lines, marks, opt, chg>>

SearchNext ==
    /\ Ready
    /\ \E turn \in BOOLEAN :
         LET up == search.up # turn
             p  == NextWith(Here, search.what, up)
         IN  /\ search' = [search EXCEPT !.up = up]
             /\ IF search.what = <<>> THEN Told("search", FALSE, FALSE) /\ UNCHANGED <<cur, no>>
                ELSE IF p = 0 THEN Told("search", FALSE, FALSE) /\ MoveTo(Here)
                ELSE Told("search", TRUE, FALSE) /\ Step(p - Here)
    /\ UNCHANGED <<lines, marks, opt, chg>>

\* MARK sets a mark to the current line; before the first line it clears it.
Mark ==
    /\ Ready
    /\ \/ \E n \in Letters, id \in {0, cur} : marks' = [marks EXCEPT ![MarkIndex(n)] = id]
       \/ marks' = [i \in DOMAIN marks |-> 0]
    /\ Told("mark", TRUE, FALSE)
    /\ UNCHANGED <<lines, cur, no, opt, chg, search>>

-----------------------------------------------------------------------------
(* sort() *)

\* Items that begin behind the working length are dropped, others are cut.
Items(order) ==
    LET cut == [i \in DOMAIN order |->
                  [order[i] EXCEPT !.length = Min({@, opt.work - order[i].offset})]]
    IN  SelectSeq(cut, LAMBDA item : item.offset < opt.work)

\* lineCompare(): behind its end a text counts as smaller than any character.
CharAt(t, i) ==
    LET c == IF opt.upper \/ ~opt.respect THEN Capital[t[i]] ELSE t[i]
    IN  IF i \in DOMAIN t THEN c + 1 ELSE 0
Compare(s, t, item) ==
    LET zone == item.offset + 1 .. item.offset + item.length
        diff == {i \in zone : CharAt(s, i) # CharAt(t, i)}
    IN  IF diff = {} THEN 0 ELSE IF CharAt(s, Min(diff)) < CharAt(t, Min(diff)) THEN -1 ELSE 1

MustSwap(s, t, items) ==
    LET diff == {i \in DOMAIN items : Compare(s, t, items[i]) # 0}
        res  == Compare(s, t, items[Min(diff)])
    IN  diff # {} /\ IF items[Min(diff)].desc THEN res < 0 ELSE res > 0

\* One pass over the list carries a line until it meets one that stays behind.
Pass(list, items) ==
    LET pass[i \in 1 .. Len(list)] ==
          IF i = 1 THEN [put |-> <<>>, carry |-> list[1]]
          ELSE LET before == pass[i - 1]
               IN  IF MustSwap(before.carry.text, list[i].text, items)
                     THEN [before EXCEPT !.put = Append(@, list[i])]
                     ELSE [put |-> Append(before.put, before.carry), carry |-> list[i]]
    IN  Append(pass[Len(list)].put, pass[Len(list)].carry)

SortLines ==
    /\ Ready
    /\ \E order \in Orders :
         LET items == Items(order)
             after[k \in 0 .. Len(lines)] == IF k = 0 THEN lines ELSE Pass(after[k - 1], items)
         IN  lines' = IF Len(lines) < 2 \/ items = <<>> THEN lines ELSE after[Len(lines)]
    /\ Told("sort", TRUE, FALSE)
    /\ UNCHANGED <<cur, no, marks, opt, chg, search>>

Next ==
    \/ StartChange \/ ChangeNext \/ Declined \/ LineDone \/ Shift \/ SplitJoin \/ WorkLrecl
    \/ Lrecl \/ Locate \/ SearchNext \/ Mark \/ SortLines

Spec == Init /\ [][Next]_vars

-----------------------------------------------------------------------------
(* Properties *)

\* What n changes make of a text, found in the text as it was.
Meant(t, from, to, n) ==
    LET rest[i \in 0 .. Len(t), k \in 0 .. n] ==
          IF i = Len(t) THEN <<>>
          ELSE IF k > 0 /\ MatchAt(t, from, i) THEN to \o rest[i + Len(from), k - 1]
          ELSE <<t[i + 1]>> \o rest[i + 1, k]
    IN  rest[0, n]

\* CHANGE replaces the occurrences a line had before, from left to right and
\* none inside the text it puts in, and touches no line outside its range -
\* unless the line got too long, which is told (CmdChange(), edRepl()).
ChangedAsMeant ==
    [][ chg.on /\ ~chg.c.confirm /\ chg.c.from # <<>> /\ (chg'.on => chg'.at # chg.at) =>
          LET old   == chg.before[chg.at].text
              meant == Meant(Seen(old), chg.c.from, chg.c.to, chg.c.per)
          IN  /\ \/ chg.lineCut
                 \/ lines[chg.at].text = IF chg.done = 0 THEN old ELSE Stored(meant)
              /\ \A p \in DOMAIN lines : p < chg.orig \/ p > chg.at => lines[p] = chg.before[p]
              /\ ~chg'.on => out'.cut = chg.cut ]_vars

\* Shifts, splits and joins lose nothing but blanks unless the user is told;
\* a block that is not shifted line by line keeps its shape (edShftl(),
\* edShftr(), edSplit(), edJoin()).
Flat(ls) ==
    LET all[p \in 0 .. Len(ls)] == IF p = 0 THEN <<>> ELSE all[p - 1] \o Seen(ls[p].text)
    IN  SelectSeq(all[Len(ls)], LAMBDA c : c # Blank)
Cased(t) == IF opt.upper THEN [i \in DOMAIN t |-> Capital[t[i]]] ELSE t
TextKept ==
    [][ out'.op \in {"shift", "split", "join"} /\ ~out'.cut =>
          Cased(Flat(lines')) = Cased(Flat(lines)) ]_vars

\* Every mark stays with its line until the line is gone or the mark is set
\* anew; only a change of LRECL that fails, or two marks on one line, lose it.
\* LRECL keeps the order and the current line, the sort is a stable one, and
\* a LOCATE that fails leaves the current line.
Ids(ls) == {ls[p].id : p \in DOMAIN ls}
InOrder(ls) == [p \in DOMAIN ls |-> ls[p].id]
MarksStay ==
    \A i \in DOMAIN marks : marks'[i] # marks[i] =>
        \/ out'.op = "mark"
        \/ marks'[i] = 0 /\ marks[i] \notin Ids(lines')
        \/ /\ marks'[i] = 0 /\ out'.op = "lrecl"
           /\ ~out'.ok \/ \E j \in DOMAIN marks : j < i /\ marks[j] = marks[i]
SortedStably ==
    out'.op = "sort" /\ lines' # lines =>
        /\ Ids(lines') = Ids(lines)
        /\ \E order \in Orders : \A p, q \in DOMAIN lines' : p < q =>
             LET s == lines'[p]
                 t == lines'[q]
             IN  /\ ~MustSwap(s.text, t.text, Items(order))
                 /\ MustSwap(t.text, s.text, Items(order)) \/ Place(s.id) < Place(t.id)
LinesStay ==
    [][ /\ MarksStay /\ SortedStably
        /\ (out'.op = "lrecl" => InOrder(lines') = InOrder(lines) /\ cur' = cur)
        /\ (out'.op = "locate" /\ ~out'.ok => cur' = cur) ]_vars
===============================================================================
