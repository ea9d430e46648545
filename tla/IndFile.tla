------------------------------- MODULE IndFile -------------------------------
(***************************************************************************)
(* IND$FILE (ind$file.c, ind$scrn.c): one run of the program, which sends  *)
(* a file to the terminal (GET), takes one from it (PUT) or tries out the  *)
(* codes of a file (TST), panel by panel.                                  *)
(*                                                                         *)
(* Each panel is a round trip: it is written, the terminal does what it    *)
(* says and answers with a key.  An upset is a write or a read of the      *)
(* screen that fails, a key other than ENTER, an answer that is no answer  *)
(* to the panel, or a call of CMS for the file that fails.                 *)
(*                                                                         *)
(* frameSeq is left out: an answer to another panel is the outcome "other".*)
(***************************************************************************)
EXTENDS IndCode

CONSTANTS
    Requests,   \* the commands that may be entered
    Records,    \* what the file on the host may be: there, recs
    Texts,      \* what the file on the terminal may be
    MaxRecord,  \* 255 in the code: the longest record that can be sent
    FrameSize,  \* 1909 in the code: the codes of a panel
    Upsets      \* bound

ASSUME TransferAssumption ==
    /\ MaxRecord \in Nat \ {0} /\ Upsets \in Nat
    \* What a panel leaves of the last record fits into the next one.
    /\ FrameSize \in Nat /\ FrameSize >= 2 * (MaxRecord + 2)
    /\ \A q \in Requests : q.lrecl \in 1 .. MaxRecord /\ q.recfm \in {"V", "F"}

VARIABLES
    req,    \* the command
    tables, \* the tables of characters
    disk,   \* the file on the host: there, recs
    job,    \* pc; code and then of a status that is sent; open; next, the
            \* record read next
    conv,   \* out and in, the quadrants; codes, encoded or still to decode;
            \* buf, at, len: io_buffer, where the next character goes there,
            \* currLineLen; segmented; why a record is written
    scr,    \* lock on the screen, "never", "held" or "released"; acked
    term,   \* the terminal: got, the codes of data panels; left, the codes
            \* it still has to send; told, the final statuses
    upsets,
    hist    \* history: before, the file as it was; lost, a round trip had no
            \* answer; refused, the terminal did not confirm a status; bad, a
            \* code meant nothing; mistaken, data were taken for the end;
            \* untold, a status never reached the screen; errors of TST

vars == <<req, tables, disk, job, conv, scr, term, upsets, hist>>

Ack == "HOST_ACK"
Complete == "XFER_COMPLETE"
AbortFile == "ABORT_FILE"
AbortXmit == "ABORT_XMIT"
EndOfFile == <<"*", "z">>

Go(pc) == job' = [job EXCEPT !.pc = pc]
SendStatus(code, then) == job' = [job EXCEPT !.pc = "status", !.code = code, !.then = then]
Close(pc) == job' = [job EXCEPT !.pc = pc, !.open = FALSE]
Upset == upsets > 0 /\ upsets' = upsets - 1
NoUpset == UNCHANGED upsets

-----------------------------------------------------------------------------
(* do_screen_io() *)

Outcome == [unwritten |-> -2, broken |-> -2, timeout |-> -1, enter |-> 0,
            retransmit |-> 1, resync |-> 2, abort |-> 3, other |-> 4]

\* Mutant: only a transfer that is complete gives the screen back.
OnlyWhenComplete(code) == code = Complete
Releases(code) == code # Ack

\* The screen is locked once; the last status gives it back, whatever comes.
RoundTrip(o, releases, acked) ==
    /\ IF o = "enter" THEN NoUpset ELSE Upset
    /\ scr' = [acked |-> acked,
               lock |-> IF releases /\ (o # "unwritten" \/ scr.lock # "never") THEN "released"
                        ELSE IF o # "unwritten" /\ scr.lock = "never" THEN "held"
                        ELSE scr.lock]

Lost(o) == hist.lost \/ Outcome[o] < 0

\* sendStatus(), which acknowledges first if that was not done before; nobody
\* looks at its result.
Status ==
    /\ job.pc = "status"
    /\ \E o \in DOMAIN Outcome :
          IF ~scr.acked /\ job.code # Ack
          THEN /\ RoundTrip(o, FALSE, Outcome[o] = 0)
               /\ Go(IF Outcome[o] = 0 THEN "status" ELSE job.then)
               /\ hist' = [hist EXCEPT !.lost = Lost(o), !.refused = @ \/ Outcome[o] > 0,
                                       !.untold = @ \/ Outcome[o] # 0]
               /\ UNCHANGED term
          ELSE /\ RoundTrip(o, Releases(job.code), TRUE)
               /\ Go(job.then)
               /\ hist' = [hist EXCEPT !.lost = Lost(o), !.untold = @ \/ o = "unwritten"]
               /\ term' = IF o = "unwritten" \/ job.code = Ack THEN term
                          ELSE [term EXCEPT !.told = Append(@, job.code)]
    /\ UNCHANGED <<req, tables, disk, conv>>

\* sendData(): nothing is ever sent again.  A terminal that was told of an end
\* takes no more.
SendData(frame, after) ==
    \E o \in DOMAIN Outcome :
        /\ RoundTrip(o, FALSE, scr.acked)
        /\ hist' = [hist EXCEPT !.lost = Lost(o)]
        /\ term' = IF o = "enter" /\ term.told = <<>> THEN [term EXCEPT !.got = @ \o frame] ELSE term
        /\ IF Outcome[o] < 0 THEN Close("end")
           ELSE IF Outcome[o] > 0 THEN SendStatus(AbortXmit, "close")
           ELSE job' = after

CloseFile ==
    /\ job.pc = "close" /\ Close("end")
    /\ UNCHANGED <<req, tables, disk, conv, scr, term, upsets, hist>>

-----------------------------------------------------------------------------
(* main() *)

Files == <<disk, conv, scr, term, upsets, hist>>
Testing == req.op = "TST" /\ ~req.remote

\* Only the program of the terminal is told, not the user who tests.
Tell(code, then) == IF Testing THEN Go(then) ELSE SendStatus(code, then)

Main ==
    /\ job.pc = "main"
    /\ IF req.args # "ok"
       THEN /\ IF req.args = "option" \/ req.remote THEN SendStatus(AbortXmit, "end") ELSE Go("end")
            /\ UNCHANGED tables
       ELSE IF req.mecaff # "ok" THEN Go("end") /\ UNCHANGED tables
       ELSE /\ tables' = LoadTranslationDeltas(LoadTranslationDeltas(tables, "DEFAULT"), req.map)
            /\ IF req.op \in {"PUT", "GET"} \/ Testing THEN Go(req.op)
               ELSE IF req.remote THEN SendStatus(AbortXmit, "end") ELSE Go("end")
    /\ UNCHANGED <<req, Files>>

-----------------------------------------------------------------------------
(* GET and TST *)

\* openFile() for reading
OpenRead ==
    /\ job.pc \in {"GET", "TST"}
    /\ \/ /\ disk.there /\ \A i \in DOMAIN disk.recs : Len(disk.recs[i]) =< MaxRecord
          /\ NoUpset
          /\ job' = IF Testing THEN [job EXCEPT !.pc = "test", !.open = TRUE]
                    ELSE [job EXCEPT !.pc = "status", !.code = Ack, !.then = "read", !.open = TRUE]
       \/ /\ ~disk.there \/ \E i \in DOMAIN disk.recs : Len(disk.recs[i]) > MaxRecord
          /\ NoUpset /\ Tell(AbortXmit, "end")
       \/ disk.there /\ Upset /\ Tell(AbortXmit, "end")
    /\ UNCHANGED <<req, tables, disk, conv, scr, term, hist>>

\* readRecord() and get_convert().  An error is told at once, and then the
\* transfer goes on as at the end of the file.
Read ==
    /\ job.pc = "read"
    /\ \/ /\ job.next > Len(disk.recs) /\ NoUpset /\ Close("rest") /\ UNCHANGED conv
       \/ /\ job.next =< Len(disk.recs) /\ NoUpset
          /\ \E sent \in {GetConvert(tables, req.ascii, conv.out,
                                     ReadRecord(req.ascii, req.crlf, disk.recs[job.next]))} :
                /\ conv' = [conv EXCEPT !.out = sent.q, !.codes = @ \o sent.codes]
                /\ job' = [job EXCEPT !.next = @ + 1,
                              !.pc = IF Len(conv'.codes) > FrameSize THEN "send" ELSE "read"]
       \/ /\ Upset /\ UNCHANGED conv
          /\ \E code \in {AbortFile, AbortXmit} : SendStatus(code, "rest")
    /\ UNCHANGED <<req, tables, disk, scr, term, hist>>

\* Mutant: what was sent is not taken from the front of the buffer.
FromFirst(codes) == codes
AfterFrame(codes) == SubSeq(codes, FrameSize + 1, Len(codes))

\* A panel at most for each record.
SendFrame ==
    /\ job.pc = "send"
    /\ SendData(SubSeq(conv.codes, 1, FrameSize), [job EXCEPT !.pc = "read"])
    /\ conv' = [conv EXCEPT !.codes = AfterFrame(@)]
    /\ UNCHANGED <<req, tables, disk>>

\* The file is closed, also after an error, before the rest is sent, which
\* fits into one panel.
SendRest ==
    /\ job.pc = "rest"
    /\ \/ job.open /\ Close("rest") /\ NoUpset /\ UNCHANGED <<scr, term, hist>>
       \/ ~job.open /\ conv.codes = <<>> /\ Go("eof") /\ NoUpset /\ UNCHANGED <<scr, term, hist>>
       \/ ~job.open /\ conv.codes # <<>> /\ SendData(conv.codes, [job EXCEPT !.pc = "eof"])
    /\ UNCHANGED <<req, tables, disk, conv>>

SendEof ==
    /\ job.pc = "eof"
    /\ SendData(EndOfFile, [job EXCEPT !.pc = "status", !.code = Complete, !.then = "end"])
    /\ UNCHANGED <<req, tables, disk, conv>>

\* do_test(), which stops at an error of the file.
Test ==
    /\ job.pc = "test" /\ Close("end")
    /\ \/ NoUpset /\ hist' = [hist EXCEPT !.errors = TestErrors(tables, req.ascii, req.crlf, disk.recs)]
       \/ Upset /\ UNCHANGED hist
    /\ UNCHANGED <<req, tables, disk, conv, scr, term>>

-----------------------------------------------------------------------------
(* PUT *)

Erased == IF req.append THEN disk ELSE [there |-> FALSE, recs |-> <<>>]

\* openFile() for writing: the old file goes before anything has come.
OpenWrite ==
    /\ job.pc = "PUT"
    /\ \/ /\ NoUpset /\ disk' = Erased
          /\ job' = [job EXCEPT !.pc = "status", !.code = Ack, !.then = "receive", !.open = TRUE]
       \/ Upset /\ disk' \in {disk, Erased} /\ SendStatus(AbortXmit, "end")
    /\ UNCHANGED <<req, tables, conv, scr, term, hist>>

\* What the terminal answers with: some of its codes, or what is typed into
\* the panel, or nothing, by a user who presses ENTER there, all that is left
\* when the terminal does not take part any more.
Answers ==
    IF term.told # <<>> THEN {<<>>}
    ELSE IF term.left = <<>> THEN {EndOfFile}
    ELSE {SubSeq(term.left, 1, n) : n \in 1 .. IF Len(term.left) < FrameSize THEN Len(term.left) ELSE FrameSize}
Typed == {<<>>, <<"?">>}

\* The test of process_put() for the panel that ends the file, and the buffer
\* that rcv_data() leaves at NULL when no data came.
IsEnd(codes) == codes = <<>> \/ (Len(codes) = 2 /\ (codes[1] = "*" \/ codes[2] = "z"))

\* receiveData() between two panels
Receive ==
    /\ job.pc = "receive" \/ (job.pc = "convert" /\ conv.codes = <<>>)
    /\ \/ \E codes \in Answers \cup (IF upsets > 0 THEN Typed ELSE {}) :
             /\ RoundTrip(IF codes \in Answers THEN "enter" ELSE "broken", FALSE, scr.acked)
             /\ term' = IF codes \in Typed THEN term
                        ELSE [term EXCEPT !.left = SubSeq(@, Len(codes) + 1, Len(@))]
             /\ conv' = [conv EXCEPT !.codes = codes, !.at = conv.len]
             /\ hist' = [hist EXCEPT !.mistaken = @ \/ (IsEnd(codes) /\ (term.left # <<>> \/ codes = <<>>))]
             /\ Go(IF IsEnd(codes) THEN "last" ELSE "convert")
       \/ \E o \in DOMAIN Outcome \ {"enter"} :
             /\ RoundTrip(o, FALSE, scr.acked)
             /\ hist' = [hist EXCEPT !.lost = Lost(o)]
             /\ IF Outcome[o] < 0 THEN Close("end") ELSE SendStatus(AbortXmit, "close")
             /\ UNCHANGED <<term, conv>>
    /\ UNCHANGED <<req, tables, disk>>

\* put_convert(), code by code.  A tab counts, but nothing is put for it.
Convert ==
    /\ job.pc = "convert" /\ conv.codes # <<>>
    /\ \E d \in {Decoded(tables, req.ascii, conv.in, Head(conv.codes))} :
       \E grows \in {IF d.k \in {"put", "tab"} THEN 1 ELSE 0} :
          /\ conv' = [conv EXCEPT
                !.codes = Tail(@), !.len = @ + grows,
                !.in = IF d.k = "quadrant" THEN d.c ELSE @,
                !.buf = IF d.k = "put" THEN [@ EXCEPT ![conv.at + 1] = d.c] ELSE @,
                !.at = IF d.k = "put" THEN @ + 1 ELSE @,
                !.why = IF d.k = "line" THEN "line" ELSE IF grows = 1 THEN "full" ELSE @]
          /\ IF d.k = "bad" THEN Close("end")
             ELSE Go(IF d.k = "line" \/ (grows = 1 /\ conv.len + 1 >= req.lrecl) THEN "write" ELSE "convert")
          /\ hist' = [hist EXCEPT !.bad = @ \/ d.k = "bad"]
    /\ UNCHANGED <<req, tables, disk, scr, term, upsets>>

\* writeRecord().  After an error at the end of a line the rest of the panel
\* is still taken, after one in a full record it is not; more panels are
\* asked for in either case.
Write ==
    /\ job.pc = "write"
    /\ LET rec == WriteRecord(req.ascii, req.recfm, req.lrecl, SubSeq(conv.buf, 1, conv.len))
           done == [conv EXCEPT !.len = 0, !.at = 0,
                       !.buf = [i \in DOMAIN @ |-> IF i =< Len(rec) THEN rec[i] ELSE @[i]],
                       !.segmented = @ \/ (conv.why = "full" /\ req.ascii)]
       IN  \/ /\ NoUpset
              /\ disk' = [there |-> TRUE, recs |-> Append(disk.recs, rec)]
              /\ conv' = done
              /\ Go(IF conv.why = "last" THEN "complete" ELSE "convert")
           \/ /\ Upset /\ UNCHANGED disk
              /\ conv' = IF conv.why = "full" THEN [done EXCEPT !.codes = <<>>] ELSE done
              /\ SendStatus(AbortXmit, IF conv.why = "last" THEN "close" ELSE "convert")
    /\ UNCHANGED <<req, tables, scr, term, hist>>

WriteLast ==
    /\ job.pc = "last"
    /\ IF conv.len > 0 THEN Go("write") /\ conv' = [conv EXCEPT !.why = "last"]
       ELSE Go("complete") /\ UNCHANGED conv
    /\ UNCHANGED <<req, tables, disk, scr, term, upsets, hist>>

PutComplete ==
    /\ job.pc = "complete"
    /\ job' = [job EXCEPT !.pc = "status", !.code = Complete, !.then = "end", !.open = FALSE]
    /\ UNCHANGED <<req, tables, Files>>

-----------------------------------------------------------------------------
Init ==
    /\ req \in Requests /\ tables = BaseTables
    /\ disk \in Records
    /\ job = [pc |-> "main", code |-> Ack, then |-> "end", open |-> FALSE, next |-> 1]
    /\ conv = [out |-> NoQuadrant, in |-> NoQuadrant, codes |-> <<>>,
               buf |-> [i \in 1 .. MaxRecord + 1 |-> "null"], at |-> 0, len |-> 0,
               segmented |-> FALSE, why |-> "line"]
    /\ scr = [lock |-> "never", acked |-> FALSE]
    /\ \E text \in IF req.op = "PUT" THEN Texts ELSE {<<>>} :
          term = [text |-> text, left |-> GetConvert(BaseTables, FALSE, NoQuadrant, text).codes,
                  got |-> <<>>, told |-> <<>>]
    /\ upsets = Upsets
    /\ hist = [before |-> disk, lost |-> FALSE, refused |-> FALSE, bad |-> FALSE,
               mistaken |-> FALSE, untold |-> FALSE, errors |-> {}]

Next ==
    \/ Main \/ Status \/ CloseFile
    \/ OpenRead \/ Read \/ SendFrame \/ SendRest \/ SendEof \/ Test
    \/ OpenWrite \/ Receive \/ Convert \/ Write \/ WriteLast \/ PutComplete

Spec == Init /\ [][Next]_vars

-----------------------------------------------------------------------------
(* Properties *)

\* What codes stand for, the last panel left out.
Meaning(codes) ==
    LET one(s, c) == IF c \in Names THEN [s EXCEPT !.q = c]
                     ELSE [s EXCEPT !.text = Append(@, MapOf(s.q)[c])]
    IN  FoldLeft(one, [q |-> NoQuadrant, text |-> <<>>], codes).text

\* The file on the host as the terminal should have it.
Sent ==
    FlattenSeq([i \in DOMAIN disk.recs |->
        [k \in DOMAIN ReadRecord(req.ascii, req.crlf, disk.recs[i]) |->
            LET c == ReadRecord(req.ascii, req.crlf, disk.recs[i])[k]
            IN  IF req.ascii THEN tables.toTerm[Shown(c)] ELSE c]])

\* The file on the terminal as the host should have it: the lines of a text,
\* of other data as many characters in each record as it takes.
Lines(text) ==
    LET one(s, c) == IF c = "lf" THEN Append(s, <<>>) ELSE [s EXCEPT ![Len(s)] = Append(@, c)]
        all == FoldLeft(one, << <<>> >>, SelectSeq(text, LAMBDA c : c # "cr"))
    IN  IF Last(all) = <<>> THEN Front(all) ELSE all
Chunks(text) ==
    [i \in 1 .. (Len(text) + req.lrecl - 1) \div req.lrecl |->
        SubSeq(text, (i - 1) * req.lrecl + 1,
               IF i * req.lrecl < Len(text) THEN i * req.lrecl ELSE Len(text))]
Stored(line) ==
    WriteRecord(req.ascii, req.recfm, req.lrecl,
        [k \in DOMAIN line |-> IF ~req.ascii \/ line[k] = "null" THEN line[k]
                               ELSE IF line[k] = "ctl" THEN "dot"
                               ELSE IF line[k] = "tab" THEN "blank" ELSE tables.toHost[line[k]]])
Arrived ==
    LET new == IF req.ascii THEN Lines(term.text) ELSE Chunks(term.text)
    IN  (IF req.append THEN hist.before.recs ELSE <<>>) \o [i \in DOMAIN new |-> Stored(new[i])]

\* When the first the terminal is told of the end is that the transfer is
\* complete, then it is: the file arrived as it was sent, whatever panel
\* failed or was answered with another key (process_get(), process_put()).
\* Not so when data were taken for the end, and for a text with tabs or
\* lines as long as LRECL, or when an error could not be shown.
CompleteIsWhole ==
    term.told # <<>> /\ term.told[1] = Complete =>
        \/ req.op = "GET" /\ Meaning(SubSeq(term.got, 1, Len(term.got) - Len(EndOfFile))) = Sent
        \/ req.op = "PUT" /\ disk.recs = Arrived
        \/ hist.mistaken \/ hist.untold \/ conv.segmented
        \/ req.ascii /\ "tab" \in ToSet(term.text)

\* TST finds fault only with a text whose characters are unprintable, or
\* mapped to one that is not mapped back (do_test()).
TestIsFair ==
    \A rec \in hist.errors :
        \E c \in ToSet(rec) : req.ascii /\ (c \notin Graphic \/ tables.toHost[tables.toTerm[c]] # c)

TransferIsTrue == CompleteIsWhole /\ TestIsFair

\* The program ends with the file closed, the terminal told and the screen
\* given back, whatever failed - unless a panel got no answer, the terminal
\* refused the first one, or a code meant nothing (process_put() then says
\* nothing), or there never was a terminal to tell.
EndIsTold ==
    job.pc = "end" =>
        /\ ~job.open
        /\ \/ term.told # <<>> /\ scr.lock = "released"
           \/ hist.lost \/ hist.refused \/ hist.bad
           \/ scr.lock = "never" /\ (~req.remote \/ req.mecaff # "ok")
=============================================================================
