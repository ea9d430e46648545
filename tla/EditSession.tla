----------------------------- MODULE EditSession -----------------------------
(***************************************************************************)
(* A session of EE and the files it leaves on disk: the ring of editors,   *)
(* the commands that read, write and close files, the input modes and the  *)
(* rescue loop after the terminal was lost.                                *)
(*                                                                         *)
(* A file is written in steps (eecore.c writeToFile()): two files of the   *)
(* same filename, EE$OLD and EE$TMP, are dropped, the text goes to EE$TMP, *)
(* the old file is renamed to EE$OLD, EE$TMP to the file, and EE$OLD is    *)
(* erased.  An upset is a call of CMS that fails or the end of the virtual *)
(* machine, which leaves the disk as it is between two calls.              *)
(*                                                                         *)
(* A name is a pair of filename and filetype, all files are on one disk.   *)
(* A text is a sequence of lines, a line a sequence of words, numbers that *)
(* tell where they come from.  Memory never runs out here (LineEditor has  *)
(* that), and no line is cut to the record length (TextEdit has that).     *)
(***************************************************************************)
EXTENDS InputMode

CONSTANTS
    OnDisk,     \* the files and their texts at first
    Buffer,     \* the name PUT and GET have by default: PUT EE$BUF
    Binary,     \* a word of control characters
    Page,       \* the free lines of a new editor
    Handles,    \* bound: a range of numbers for the editors
    Scopes      \* bounds, one of which holds for a session: the commands, how
                \* many are entered, how many upsets there are, the rows of
                \* the screen below the current line, before and in input mode

\* A name is not one of those that writeToFile() uses beside the file's own.
Proper(f) == f = <<f[1], f[2]>> /\ f[2] \notin {"EE$OLD", "EE$TMP"}

ASSUME SessionAssumption ==
    /\ \A f \in DOMAIN OnDisk \cup {Buffer} : Proper(f)
    /\ \A f \in DOMAIN OnDisk : OnDisk[f] \in Seq(ToSet(OnDisk[f]))
    /\ \A s \in Scopes : \A c \in s.cmds :
          IF c.f = <<>> THEN c.c \notin {"EDIT", "PUT", "PUTD"} ELSE Proper(c.f)
    /\ Handles \subseteq Nat \ {0}

VARIABLES
    disk,       \* the files there are and their texts
    ee,         \* memory of EE: eds, the editors; ring; ed, the one on the
                \* screen, or None; count, which is fileCount
    job,        \* the file being written
    mode,       \* the input mode and its memory
    status,     \* "cms", "edit", "rescue", "broken"
    scope, entered, upsets,
    kept,       \* history: the versions of each file that may be found
                \* again, the one last written or a later attempt
    clobbered,  \* history: files whose only copies, left behind by an upset,
                \* were dropped for another file of the same filename
    trip        \* history: what the last step was and the words it may take away

vars == <<disk, ee, job, mode, status, scope, entered, upsets, kept, clobbered, trip>>

None == 0
Idle == [cmd |-> "none"]
NoMode == [kind |-> "none"]
OldOf(f) == <<f[1], "EE$OLD">>
TmpOf(f) == <<f[1], "EE$TMP">>
Without(g, f) == [x \in DOMAIN g \ {f} |-> g[x]]
With(g, f, v) == [x \in DOMAIN g \cup {f} |-> IF x = f THEN v ELSE g[x]]
Nothing == [step |-> "other", gone |-> {}]

Here == ee.eds[ee.ed]
Words(r) == UNION {ToSet(t) : t \in ToSet(Content(r))}
WordsIn(txts) == UNION {ToSet(t) : t \in ToSet(txts)}
Versions(f) == IF f \in DOMAIN kept THEN kept[f] ELSE {}

-----------------------------------------------------------------------------
(* The ring *)

At(e, h) == CHOOSE i \in DOMAIN e.ring : e.ring[i] = h
NextEd(e, h) == e.ring[IF At(e, h) = Len(e.ring) THEN 1 ELSE At(e, h) + 1]
PrevEd(e, h) == e.ring[IF At(e, h) = 1 THEN Len(e.ring) ELSE At(e, h) - 1]

Freed(e, h) ==
    [e EXCEPT !.eds = Without(@, h), !.ring = RemoveAt(@, At(e, h)), !.count = @ - 1]

\* closeFile(): the next editor of the ring comes on the screen.
Closed(e, h) == [Freed(e, h) EXCEPT !.ed = IF NextEd(e, h) = h THEN None ELSE NextEd(e, h)]

\* An editor of that name, looked for from the current one on.
OpenAs(e, f) ==
    LET i == At(e, e.ed)
        turned == SubSeq(e.ring, i, Len(e.ring)) \o SubSeq(e.ring, 1, i - 1)
        named  == {k \in DOMAIN turned : e.eds[turned[k]].name = f}
    IN  IF e.ed = None \/ named = {} THEN None ELSE turned[Min(named)]

\* insertFile(): control characters are replaced, and cannot be written back.
Read(txts) == [i \in DOMAIN txts |-> [k \in DOMAIN txts[i] |->
                 IF txts[i][k] = Binary THEN Binary + 1 ELSE txts[i][k]]]
IsBinary(txts) == Binary \in WordsIn(txts)

\* createEditor() with what was read of the file, next to the current one.
Linked(e, h, f, txts, sound) ==
    LET i == IF e.ed = None THEN 0 ELSE At(e, e.ed)
    IN  [e EXCEPT !.eds = With(@, h, [r |-> Opened(Page, Read(txts)), name |-> f,
                                      base |-> Content(Opened(Page, Read(txts))),
                                      binary |-> IsBinary(txts), sound |-> sound]),
                  !.ring = InsertAt(@, i + 1, h)]

Fresh == Min(Handles \ DOMAIN ee.eds)
Shown(e, h) == [e EXCEPT !.ed = h, !.count = @ + 1]

\* openFile(): a file that is open already only comes on the screen.
Opening(e, f) ==
    IF OpenAs(e, f) # None THEN [e EXCEPT !.ed = OpenAs(e, f)]
    ELSE Shown(Linked(e, Fresh, f, IF f \in DOMAIN disk THEN disk[f] ELSE <<>>, TRUE), Fresh)

\* CMS does not tell whether there is such a file; it fails to open the file,
\* which goes unnoticed; or it stops reading at some line, which leaves the
\* editor in the ring but neither counted nor on the screen.
FailedOpenings(e, f) ==
    IF OpenAs(e, f) # None THEN {}
    ELSE IF f \notin DOMAIN disk THEN {e}
    ELSE {e, Shown(Linked(e, Fresh, f, <<>>, FALSE), Fresh)} \cup
         {Linked(e, Fresh, f, SubSeq(disk[f], 1, n), FALSE) : n \in 0 .. Len(disk[f]) - 1}

NoMemory == [eds |-> [h \in {} |-> NoMode], ring |-> <<>>, ed |-> None, count |-> 0]

\* doEdit() ends when there is no editor on the screen, and EE with it.
Leaves(e) ==
    /\ ee' = IF e.ed = None THEN NoMemory ELSE e
    /\ status' = IF e.ed = None THEN "cms"
                 ELSE IF e.eds[e.ed].r.broken THEN "broken"
                 ELSE IF status = "cms" THEN "edit" ELSE status

-----------------------------------------------------------------------------
(* writeToFile(), a step for each call of CMS that changes the disk *)

Written(txts) == IF txts = <<>> THEN << <<>> >> ELSE txts

\* A binary file is not written at all.
Write(e, cmd, h, f, force, txts, range) ==
    IF e.eds[h].binary
    THEN /\ ee' = IF cmd = "EXIT" THEN [e EXCEPT !.ed = h] ELSE e
         /\ job' = Idle
    ELSE /\ ee' = e
         /\ job' = [cmd |-> cmd, h |-> h, name |-> f, force |-> force, text |-> Written(txts),
                    range |-> range, at |-> "drop EE$OLD", lines |-> 0, existed |-> FALSE,
                    result |-> 0]

GoTo(at) == job' = [job EXCEPT !.at = at] /\ UNCHANGED upsets
EndWith(result) == job' = [job EXCEPT !.at = "end", !.result = result]
Fails(result) == upsets > 0 /\ upsets' = upsets - 1 /\ EndWith(result)

Found(f, files) == f \in DOMAIN files /\ files[f] \in Versions(f)

Drop(d, at, next) ==
    /\ job.at = at
    /\ \/ /\ GoTo(next)
          /\ disk' = Without(disk, d)
          /\ clobbered' = clobbered \cup
               {f \in DOMAIN kept \ {job.name} :
                   /\ d \in DOMAIN disk /\ d \in {OldOf(f), TmpOf(f)}
                   /\ disk[d] \in kept[f] /\ ~Found(f, disk)}
       \/ Fails(2) /\ UNCHANGED <<disk, clobbered>>
    /\ UNCHANGED kept

DropOld == Drop(OldOf(job.name), "drop EE$OLD", "drop EE$TMP")
DropTmp == Drop(TmpOf(job.name), "drop EE$TMP", "look")

\* Mutant: the old file goes before the new one is written.
ErasesFirst ==
    /\ job.at = "look"
    /\ IF job.name \in DOMAIN disk /\ ~job.force THEN EndWith(1) /\ UNCHANGED disk
       ELSE /\ job' = [job EXCEPT !.at = "write", !.existed = FALSE]
            /\ disk' = Without(disk, job.name)
    /\ UNCHANGED <<upsets, kept, clobbered>>

Look ==
    /\ job.at = "look"
    /\ \/ /\ UNCHANGED upsets
          /\ IF job.name \in DOMAIN disk /\ ~job.force THEN EndWith(1)
             ELSE job' = [job EXCEPT !.at = "write", !.existed = job.name \in DOMAIN disk]
       \/ Fails(3)
    /\ UNCHANGED <<disk, kept, clobbered>>

\* The first line makes the file; what is there of it is erased on an error.
WriteLine ==
    /\ job.at = "write"
    /\ \/ /\ disk' = With(disk, TmpOf(job.name), SubSeq(job.text, 1, job.lines + 1))
          /\ job' = [job EXCEPT !.lines = @ + 1,
                                !.at = IF job.lines + 1 = Len(job.text) THEN "hide" ELSE @]
          /\ UNCHANGED upsets
       \/ Fails(5) /\ disk' = Without(disk, TmpOf(job.name))
    /\ UNCHANGED <<kept, clobbered>>

Renamed(from, to) == With(Without(disk, from), to, disk[from])

Hide ==
    /\ job.at = "hide"
    /\ \/ GoTo("show") /\ disk' = IF job.existed THEN Renamed(job.name, OldOf(job.name)) ELSE disk
       \/ job.existed /\ Fails(2) /\ UNCHANGED disk
    /\ kept' = With(kept, job.name, Versions(job.name) \cup {job.text})
    /\ UNCHANGED clobbered

Show ==
    /\ job.at = "show"
    /\ \/ GoTo("erase") /\ disk' = Renamed(TmpOf(job.name), job.name)
       \/ Fails(2) /\ UNCHANGED disk
    /\ UNCHANGED <<kept, clobbered>>

\* Whether EE$OLD could be erased is not looked at.
EraseOld ==
    /\ job.at = "erase"
    /\ EndWith(0)
    /\ \/ UNCHANGED upsets /\ disk' = Without(disk, OldOf(job.name))
       \/ upsets > 0 /\ upsets' = upsets - 1 /\ UNCHANGED disk
    /\ kept' = With(kept, job.name, {job.text})
    /\ UNCHANGED clobbered

WriteStep ==
    /\ job # Idle
    /\ DropOld \/ DropTmp \/ Look \/ WriteLine \/ Hide \/ Show \/ EraseOld
    /\ trip' = Nothing
    /\ UNCHANGED <<ee, mode, status, scope, entered>>

-----------------------------------------------------------------------------
(* What becomes of the editor when its file has been written, or not *)

\* edSave() and edWrFil()
Unmodified(e, h) ==
    [e EXCEPT !.eds[h] = [@ EXCEPT !.name = job.name, !.base = Content(e.eds[h].r),
                                   !.r.modified = FALSE]]

\* Mutant: FILE closes whatever the result is.
ClosesAnyway ==
    /\ job # Idle /\ job.at = "end" /\ job.cmd = "FILE"
    /\ Leaves(Closed(ee, job.h))
    /\ job' = Idle /\ trip' = Nothing
    /\ UNCHANGED <<disk, mode, scope, entered, upsets, kept, clobbered>>

EndSave ==
    /\ job # Idle /\ job.at = "end" /\ job.cmd \in {"SAVE", "FILE"}
    /\ Leaves(IF job.result # 0 THEN ee
              ELSE IF job.cmd = "FILE" THEN Closed(Unmodified(ee, job.h), job.h)
              ELSE Unmodified(ee, job.h))
    /\ job' = Idle /\ trip' = Nothing
    /\ UNCHANGED <<disk, mode, scope, entered, upsets, kept, clobbered>>

\* Mutant: PUTD deletes the lines whatever the result is.
DeletesAnyway ==
    /\ job # Idle /\ job.at = "end" /\ job.cmd \in {"PUT", "PUTD"}
    /\ Leaves(IF job.cmd = "PUT" THEN ee
              ELSE [ee EXCEPT !.eds[job.h].r = DeleteLineRange(@, job.range[1], job.range[2])])
    /\ job' = Idle /\ trip' = [step |-> "put", gone |-> {}]
    /\ UNCHANGED <<disk, mode, scope, entered, upsets, kept, clobbered>>

\* PUTD deletes the lines only when they have been written.
EndPut ==
    /\ job # Idle /\ job.at = "end" /\ job.cmd \in {"PUT", "PUTD"}
    /\ Leaves(IF job.cmd = "PUT" \/ job.result # 0 THEN ee
              ELSE [ee EXCEPT !.eds[job.h].r = DeleteLineRange(@, job.range[1], job.range[2])])
    /\ job' = Idle /\ trip' = [step |-> "put", gone |-> {}]
    /\ UNCHANGED <<disk, mode, scope, entered, upsets, kept, clobbered>>

\* closeAllFiles() stops at the first file that cannot be saved.
EndExit ==
    /\ job # Idle /\ job.at = "end" /\ job.cmd = "EXIT"
    /\ IF job.result # 0
       THEN ee' = [ee EXCEPT !.ed = job.h] /\ job' = Idle
       ELSE /\ ee' = Freed(Unmodified(ee, job.h), job.h)
            /\ job' = [cmd |-> "EXIT", at |-> "next", h |-> NextEd(ee, job.h)]
    /\ trip' = Nothing
    /\ UNCHANGED <<disk, mode, status, scope, entered, upsets, kept, clobbered>>

\* EXIT ends with the count of open files, not with the ring.
ExitNext ==
    /\ job # Idle /\ job.at = "next"
    /\ trip' = Nothing
    /\ IF ee.count = 0 THEN job' = Idle /\ Leaves([ee EXCEPT !.ed = None])
       ELSE /\ UNCHANGED status
            /\ LET e == ee.eds[job.h]
               IN  IF e.r.modified
                   THEN Write(ee, "EXIT", job.h, e.name, TRUE, Content(e.r), <<>>)
                   ELSE /\ ee' = Freed(ee, job.h)
                        /\ job' = [job EXCEPT !.h = NextEd(ee, job.h)]
    /\ UNCHANGED <<disk, mode, scope, entered, upsets, kept, clobbered>>

-----------------------------------------------------------------------------
(* Commands *)

Files == <<disk, kept, clobbered>>

\* In the editor, and some of them in the rescue loop.
Command(c, where) ==
    /\ job = Idle /\ mode = NoMode /\ status \in where /\ entered < scope.inputs
    /\ c \in scope.cmds
    /\ entered' = entered + 1
    /\ UNCHANGED <<mode, scope, clobbered>>

Quietly == job' = Idle /\ trip' = Nothing /\ UNCHANGED <<disk, kept, upsets>>

\* The command EDIT, and EE itself.
EditFile ==
    \E c \in scope.cmds :
        /\ Command(c, {"edit", "cms"}) /\ c.c = "EDIT"
        /\ Handles \ DOMAIN ee.eds # {}
        /\ \/ Leaves(Opening(ee, c.f)) /\ UNCHANGED upsets
           \/ /\ upsets > 0 /\ upsets' = upsets - 1
              /\ \E e \in FailedOpenings(ee, c.f) : Leaves(e)
        /\ job' = Idle /\ trip' = Nothing /\ UNCHANGED <<disk, kept>>

Ring ==
    \E c \in scope.cmds :
        /\ Command(c, {"edit", "rescue"}) /\ c.c \in {"RINGNEXT", "RINGPREV"}
        /\ Leaves([ee EXCEPT !.ed = IF c.c = "RINGNEXT" THEN NextEd(ee, @) ELSE PrevEd(ee, @)])
        /\ Quietly

\* getLineRange(): k lines from the current one on, or up to it.
LineRange(r, k) ==
    LET all  == Follow(r, BOF)
        here == PlaceOf(r, r.cur)
        last == Len(Chain(r))
        far  == IF k > 0 THEN here + k - 1 ELSE here + k + 1
        to   == IF far < 1 THEN 1 ELSE IF far > last THEN last ELSE far
    IN  IF last = 0 THEN <<>>
        ELSE IF k > 0 THEN <<all[here + 1], all[to + 1]>> ELSE <<all[to + 1], all[here + 1]>>

\* At the top of the file, by its number, the range starts with the next line.
Reached(r, n) == IF r.curNo = 0 /\ n # 1 THEN MoveBy(r, 1) ELSE r
RangeOf(r, n) ==
    IF r.curNo = 0 THEN (IF n = 1 THEN <<>> ELSE LineRange(Reached(r, n), n - 1))
    ELSE LineRange(r, n)

Changed(r) == Leaves([ee EXCEPT !.eds[ee.ed].r = r])

Line(c) ==
    LET r == Here.r
        range == RangeOf(r, c.n)
    IN  CASE c.c = "INPUT"  -> InsertLine(r, <<10 * entered + 10>>)
          [] c.c = "TOP"    -> MoveToBOF(r)
          [] c.c = "BOTTOM" -> MoveToLastLine(r)
          [] c.c = "DELETE" -> IF range = <<>> THEN Reached(r, c.n)
                               ELSE DeleteLineRange(Reached(r, c.n), range[1], range[2])

Edit ==
    \E c \in scope.cmds :
        /\ Command(c, {"edit"}) /\ c.c \in {"INPUT", "TOP", "BOTTOM", "DELETE"}
        /\ Changed(Line(c)) /\ job' = Idle /\ UNCHANGED <<disk, kept, upsets>>
        /\ trip' = Nothing

\* SAVE and FILE write over the file of the editor; under another name only
\* what is not there yet, unless that is forced (SSAVE and FFILE).
Save ==
    \E c \in scope.cmds :
        /\ \/ Command(c, {"edit", "rescue"}) /\ c.c = "FILE"
           \/ Command(c, {"edit"}) /\ c.c = "SAVE"
        /\ Write(ee, c.c, ee.ed, IF c.f = <<>> THEN Here.name ELSE c.f, c.f = <<>> \/ c.n = 1,
                 Content(Here.r), <<>>)
        /\ trip' = Nothing /\ UNCHANGED <<disk, kept, upsets, status>>

Put ==
    \E c \in scope.cmds :
        /\ Command(c, {"edit"}) /\ c.c \in {"PUT", "PUTD"}
        /\ LET r == Reached(Here.r, c.n)
               range == RangeOf(Here.r, c.n)
               e == [ee EXCEPT !.eds[ee.ed].r = r]
               texts == [i \in DOMAIN Between(r, range[1], range[2]) |->
                            r.text[Between(r, range[1], range[2])[i]]]
           IN  IF range = <<>> THEN ee' = e /\ job' = Idle
               ELSE Write(e, c.c, ee.ed, c.f, c.f = Buffer, texts, range)
        /\ trip' = Nothing /\ UNCHANGED <<disk, kept, upsets, status>>

\* insertFile() into the current editor, each line behind the one before.
Inserted(e, txts) ==
    [e EXCEPT !.binary = @ \/ IsBinary(txts),
              !.r = [InTurn(InsertLine, e.r, Read(txts)) EXCEPT !.modified = TRUE]]

\* Mutant: GETD erases the buffer whatever readFile() reports.
GetErasesAnyway ==
    \E c \in scope.cmds :
        /\ Command(c, {"edit"}) /\ c.c = "GETD" /\ c.f = Buffer
        /\ c.f \in DOMAIN disk
        /\ \E n \in 0 .. Len(disk[c.f]) :
              /\ n < Len(disk[c.f]) => upsets > 0
              /\ upsets' = IF n < Len(disk[c.f]) THEN upsets - 1 ELSE upsets
              /\ Leaves([ee EXCEPT !.eds[ee.ed] = Inserted(@, SubSeq(disk[c.f], 1, n))])
        /\ disk' = Without(disk, c.f) /\ kept' = Without(kept, c.f)
        /\ job' = Idle /\ trip' = [step |-> "get", gone |-> {}]

\* GETD erases the buffer when readFile() reports no error; it reports none
\* when the file cannot be opened.
Get ==
    \E c \in scope.cmds :
        /\ Command(c, {"edit"}) /\ c.c \in {"GET", "GETD"}
        /\ c.f \in DOMAIN disk
        /\ LET got(txts) == [ee EXCEPT !.eds[ee.ed] = Inserted(@, txts)]
               dropped == c.c = "GETD" /\ c.f = Buffer
               files(gone) == /\ disk' = IF gone THEN Without(disk, c.f) ELSE disk
                              /\ kept' = IF gone THEN Without(kept, c.f) ELSE kept
           IN  \/ /\ UNCHANGED upsets
                  /\ Leaves(got(disk[c.f])) /\ files(dropped)
                  /\ trip' = [step |-> "get", gone |-> {}]
               \/ /\ upsets > 0 /\ upsets' = upsets - 1
                  /\ \/ /\ Leaves(got(<<>>)) /\ files(dropped)
                        /\ trip' = [step |-> "get unopened", gone |-> {}]
                     \/ /\ \/ /\ \E n \in 0 .. Len(disk[c.f]) - 1 :
                                    Leaves(got(SubSeq(disk[c.f], 1, n)))
                              /\ files(FALSE)
                           \/ UNCHANGED <<ee, status>> /\ files(FALSE)
                        /\ trip' = [step |-> "get", gone |-> {}]
        /\ job' = Idle

Quit ==
    \E c \in scope.cmds :
        /\ Command(c, {"edit", "rescue"}) /\ c.c \in {"QUIT", "QQUIT"}
        /\ Leaves(IF c.c = "QUIT" /\ Here.r.modified THEN ee ELSE Closed(ee, ee.ed))
        /\ job' = Idle /\ UNCHANGED <<disk, kept, upsets>>
        /\ trip' = IF c.c = "QUIT" THEN Nothing ELSE [step |-> "drop", gone |-> {}]

QuitAll ==
    \E c \in scope.cmds :
        /\ Command(c, {"edit", "rescue"}) /\ c.c = "QQUIT ALL"
        /\ Leaves([ee EXCEPT !.ed = None])
        /\ job' = Idle /\ UNCHANGED <<disk, kept, upsets>>
        /\ trip' = [step |-> "drop", gone |-> {}]

Exit ==
    \E c \in scope.cmds :
        /\ Command(c, {"edit", "rescue"}) /\ c.c = "EXIT"
        /\ job' = [cmd |-> "EXIT", at |-> "next", h |-> ee.ed]
        /\ trip' = Nothing /\ UNCHANGED <<disk, kept, upsets, ee, status>>

-----------------------------------------------------------------------------
(* The input modes *)

Enter ==
    \E c \in scope.cmds :
        /\ job = Idle /\ mode = NoMode /\ status = "edit" /\ entered < scope.inputs
        /\ c \in scope.cmds /\ c.c \in {"INPUTMODE", "PINPUT"}
        /\ entered' = entered + 1
        /\ \E at \in IF c.c = "PINPUT" THEN Visible(Here.r, scope.rows) \cup {NULL} ELSE {NULL} :
              LET in == IF c.c = "PINPUT" THEN PInputEntered(Here.r, at)
                        ELSE InputEntered(Here.r, scope.rows)
              IN  Changed(in.r) /\ mode' = in.m
        /\ job' = Idle /\ trip' = Nothing
        /\ UNCHANGED <<disk, kept, upsets, scope, clobbered>>

\* What may be typed over the lines of the screen: at most two of them, in
\* programmer's input one besides the input line.
Typings(r, lines) ==
    {[l \in over |-> <<10 * entered + PlaceOf(r, l)>>] :
        over \in {{}} \cup {{l} : l \in lines} \cup
                 {{l, k} : l \in lines, k \in IF mode.kind = "input" THEN lines ELSE {mode.cur}}}

\* Where the cursor may be, as far as the key heeds it: the line, the column.
Cursors(r, lines, key) ==
    IF mode.kind = "input" THEN {mode.first, NULL} \X {0}
    ELSE CASE key \in {"PF06", "PF18"} -> (lines \cup {NULL}) \X {0, 1}
           [] key \in {"TAB", "PF03"} -> {NULL} \X {0}
           [] OTHER -> (lines \cup {NULL}) \X {0}

Came(typed) == UNION {ToSet(typed[l]) : l \in DOMAIN typed}
Overtyped(r, typed) == UNION {ToSet(r.text[l]) : l \in DOMAIN typed}

Behind(r, l) == UNION {ToSet(r.text[k]) : k \in {x \in ToSet(Chain(r)) : PlaceOf(r, x) >= PlaceOf(r, l)}}

\* Something was typed on the guard or below it, where the screen shows more
\* lines than the input mode counted.
PastGuard(r, m, typed) == PlaceOf(r, Taken(r, m, typed).cur) >= PlaceOf(r, m.guard)

\* What a forced join cuts off: words of the follower that have no room.
CutOff(r, l, pos) ==
    IF l = NULL \/ NextLine(r, l) = NULL \/ pos < Len(r.text[l]) THEN {}
    ELSE ToSet(r.text[NextLine(r, l)]) \ ToSet(Join(r, l, pos, TRUE).text[l])

\* What the user takes away: what is typed over or cut off, and the guard.
TakenAway(r, typed, key, at, pos) ==
    {0} \cup (Overtyped(r, typed) \ Came(typed)) \cup
    IF mode.kind = "pinput" /\ key = "PF18" THEN CutOff(Typed(r, typed), at, pos) ELSE {}

\* What goes besides: the guard and what stands behind it, where something was
\* typed on it or past it; the input line of programmer's input, where the
\* key takes it for unused because nothing was typed into it this time.
GoesBesides(r, m, typed, key) ==
    IF m.kind = "input"
    THEN IF PastGuard(r, m, typed) THEN Behind(Typed(r, typed), m.guard) ELSE {}
    ELSE IF key \in {"PF03", "PF10"} /\ m.cur \notin DOMAIN typed THEN ToSet(r.text[m.cur])
    ELSE {}

Mode ==
    /\ mode # NoMode /\ entered < scope.inputs /\ entered' = entered + 1
    /\ \E r \in {Here.r} : \E lines \in {Visible(r, scope.shown)} : \E key \in scope.keys :
       \E typed \in Typings(r, lines), cursor \in Cursors(r, lines, key) :
       \E next \in {IF mode.kind = "input" THEN InputTurn(r, mode, typed, key, cursor[1])
                    ELSE PInputTurn(r, mode, typed, key, cursor[1], cursor[2])} :
          /\ Changed(next.r)
          /\ mode' = IF next.ends THEN NoMode ELSE next.m
          /\ trip' = [step |-> IF next.ends /\ mode.kind = "input" /\ ~PastGuard(r, mode, typed)
                              THEN "left" ELSE "typed",
                      came |-> Came(typed),
                      gone |-> TakenAway(r, typed, key, cursor[1], cursor[2]),
                      besides |-> GoesBesides(r, mode, typed, key)]
    /\ UNCHANGED <<disk, kept, upsets, scope, clobbered, job>>

\* The round trip of an input mode fails: the loop is left as it stands.
ModeLost ==
    /\ mode # NoMode
    /\ mode' = NoMode /\ trip' = Nothing
    /\ UNCHANGED <<disk, ee, job, status, scope, entered, upsets, kept, clobbered>>

-----------------------------------------------------------------------------
(* The terminal is lost, the virtual machine ends *)

Lost ==
    /\ status = "edit" /\ mode = NoMode /\ job = Idle
    /\ status' = "rescue" /\ trip' = Nothing
    /\ UNCHANGED <<disk, ee, job, mode, scope, entered, upsets, kept, clobbered>>

\* An unknown command of the rescue loop is looked up in vain and called.
UnknownRescue ==
    /\ status = "rescue" /\ job = Idle
    /\ status' = "broken" /\ trip' = Nothing
    /\ UNCHANGED <<disk, ee, job, mode, scope, entered, upsets, kept, clobbered>>

Crash ==
    /\ status # "cms" /\ upsets > 0
    /\ upsets' = upsets - 1
    /\ status' = "cms" /\ ee' = NoMemory /\ job' = Idle /\ mode' = NoMode
    /\ trip' = [step |-> "drop", gone |-> {}]
    /\ UNCHANGED <<disk, scope, entered, kept, clobbered>>

Init ==
    /\ disk = OnDisk
    /\ ee = NoMemory /\ job = Idle /\ mode = NoMode /\ status = "cms"
    /\ scope \in Scopes /\ entered = 0 /\ upsets = scope.upsets
    /\ kept = [f \in DOMAIN OnDisk |-> {OnDisk[f]}]
    /\ clobbered = {} /\ trip = Nothing

Next ==
    \/ WriteStep \/ EndSave \/ EndPut \/ EndExit \/ ExitNext
    \/ EditFile \/ Ring \/ Edit \/ Save \/ Put \/ Get \/ Quit \/ QuitAll \/ Exit
    \/ Enter \/ Mode \/ ModeLost \/ Lost \/ UnknownRescue \/ Crash

Spec == Init /\ [][Next]_vars

-----------------------------------------------------------------------------
\* After one upset - a call of CMS that fails, or the end of the virtual
\* machine between any two - each file is still there in the version last
\* written or in a later one, under its own name, EE$OLD or EE$TMP, unless
\* another file of the same filename was written since (writeToFile() drops
\* both names first).
SavedSurvives ==
    job = Idle =>
        \A f \in DOMAIN kept \ clobbered :
            kept[f] = {} \/ Found(f, disk)
            \/ \E d \in {OldOf(f), TmpOf(f)} : d \in DOMAIN disk /\ disk[d] \in kept[f]

\* An editor that FILE, QUIT or EXIT closes has its text on disk under the
\* name it is filed as, or is as it was read or written last; not so what was
\* read with an error, or closed by an EXIT that counts such a file.  (What
\* programmer's input only splits or joins does not count as modified; the
\* scopes with the input modes close nothing.)
ClosedIsSaved ==
    [][trip'.step # "drop" =>
          \A h \in DOMAIN ee.eds \ DOMAIN ee'.eds :
              LET e == ee.eds[h]
                  f == IF job # Idle /\ job.at = "end" THEN job.name ELSE e.name
              IN  \/ Content(e.r) = e.base
                  \/ f \in DOMAIN disk' /\ disk'[f] = Written(Content(e.r))
                  \/ ~e.sound \/ ee.count # Len(ee.ring)]_vars

TakenIsInFile ==
    job.h \in DOMAIN ee'.eds =>
        Words(ee.eds[job.h].r) \ Words(ee'.eds[job.h].r) \subseteq
            IF job.name \in DOMAIN disk' THEN WordsIn(disk'[job.name]) ELSE {}
BufferInEditor ==
    \A f \in DOMAIN disk \ DOMAIN disk' :
        WordsIn(Read(disk[f])) \subseteq Words(ee'.eds[ee'.ed].r)

\* Lines that PUTD takes out of a file are in the file it wrote, whatever call
\* of CMS failed on the way; and GETD erases the buffer only when all of its
\* lines are in the editor, also when reading stops midway.  It does not hold
\* of a buffer that cannot even be opened: insertFile() takes it for empty,
\* GETD erases it (step "get unopened").
MovedIsKept ==
    [][/\ (job # Idle /\ trip'.step = "put") => TakenIsInFile
       /\ trip'.step = "get" => BufferInEditor]_vars

Keeps(but) == (Words(Here.r) \cup trip'.came) \ but \subseteq Words(ee'.eds[ee'.ed].r)
RoundTrip == trip'.step \in {"typed", "left"}

\* A round trip of an input mode keeps what was typed and every line that the
\* user does not type over or cut off by a forced join; leaving input mode
\* takes the guard line along.  It does not hold in the three cases in which
\* the code deletes text (GoesBesides): lines behind the guard once something
\* was typed on it or past it, an input line that a join has filled, and one
\* that was typed in an earlier round trip, with PF10.
InputIsKept ==
    [][RoundTrip =>
          /\ Keeps(trip'.gone \cup trip'.besides)
          /\ trip'.step = "left" =>
                 mode.guard \notin ToSet(Chain(ee'.eds[ee'.ed].r))]_vars
=============================================================================
