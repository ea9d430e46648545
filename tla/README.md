# MECAFF in TLA+

MECAFF is an external console for VM/370: a Java proxy that sits between a 3270
terminal and the host, simulates the console of a virtual machine towards the
host and draws a scrolling console of its own on the terminal, and lets CMS
programs take over the whole screen.  On the CMS side a C library (`fsio`), an
editor (`EE`) and a file transfer program use that service.  This directory
holds TLA+ models of it, the TLC runs that check them, and proofs.

Source paths below are relative to `src/java/src/dev/hawala/vm370/` (Java) and
`src/cms/` (C).  PROJECT.json lists runs, mutations, the code lines of every
definition, hazards, findings and theorems.

## 1. Inventory

### 1.1 Components

| Component | State | Operations |
|---|---|---|
| `ebcdic/EbcdicTextPipeline` | queue and free list of nodes, `running`, the thread's `currLine` and `counter` | `appendLine`, `hasBacklog`, `shutdown`; `run` with `getQueueHead`, `dequeueHead`, callback `pipelineDrained` |
| `LineBuffer` | lines with rows and attribute; visible frame (`lastVisible`, `countVisible`, `rowsVisible`) | `append`, `clearUplines`, four pagings, `updateLastLineFlags` |
| `Vm3270Console` | `consoleState`, flow mode, rows left before More, lines since the last user action, "fullscreen overwritten", backlog, drain flag, session countdown; fullscreen receive buffer (complete, locked), timeout, grace period, lock | `appendHostLine`, `setInputState`, `endCurrentSession`, `acquireFullScreen`, `writeFullscreen`, `mayReadFullScreen`, `readFullScreen`, `setFsLockTimeoutValue`, `transferCompleted`, `processBytesFromTerminal`, timer ticks |
| `Tn3270StreamFilter` | CP's console state as last seen, CLEAR handshake, `inHolding`, last input sent, pending bytes | parses the host's data stream, feeds the pipelines, answers MORE with ENTER or CLEAR, sends inputs when CP takes them |
| `Tn3215StreamFilter` | partial line, drain guard | the same on a line-mode connection, with one host thread |
| `Base3270And3215NegotiatingStreamFilter`, `BaseStreamFilter`, `StreamDrain`, `Mecaff` | sockets, threads, negotiated options, list of active filters | negotiation, reader threads, close |
| `transport/*` | byte buffers, encoder and decoder positions, the pending fullscreen request | encode and decode chunks, dispatch of encoded commands |
| `stream3270/*`, `EbcdicHandler`, `Ebcdic` | buffers only | orders, addresses, code tables |
| `fsio.c` | what is known of the terminal (tested, connected, local, session), poll mode and the buffer of a combined write and read on a terminal CP drives itself | `__qtrm`, `__fswr`, `__fsrd`, `__fsrdp`, `__fscncl`, `__fslkto`, attribute and PF-key calls; `encodeInt`, `decodeData` and the like; `d58_*` |
| `fs3270.c` | buffers only | builds and parses screens |
| `eecore.c`, `eecmds.c`, `eeprefix.c`, `eescrn.c`, `eelist.c`, `eemain.c` | doubly linked list of lines, current line, marks, line lengths, case options, block prefixes, ring of editors, input modes | line editing, block moves, change, shift, split and join, locate, sort; reading, PUT and GET, saving with its renames; input and programmer's input; the rescue loop |
| `ind$file.c`, `ind$denc.c`, `ind$scrn.c` | the file, current quadrant each way, buffer of codes, record under way, lock on the screen | GET, PUT and TST, panel by panel; statuses; map files |
| `Log`, helpers in assembler, small tools | - | output, supervisor calls |

### 1.2 How they interact

For a 3270 connection five threads meet in one console:

    terminal --> reader T->H --> console --> pipeline T->H --> host
    host --> reader H->T --> filter --+--> pipeline H->T --> console --> terminal
                                      +--> console (prompts, fullscreen calls, session end)
    ticker (1/10 s) --> console

Every console method runs inside the console's monitor, but three of them wait
in it (`appendHostLine` and `endCurrentSession` in the More state,
`acquireFullScreen` while the user confirms output), and `setInputState` works
out the new state before it takes the monitor.  The pipeline's methods are
synchronized one by one; the line at its head is read without the lock.  With a
3215 connection the host's reader calls the console itself and there is no
output pipeline.

### 1.3 What is hard

* sleeping in the More state without a timeout: every path that makes room has
  to wake the sleepers, and what they restore afterwards may be out of date;
* the screen has two owners, the console and a fullscreen program, and output,
  prompts, inputs, timeouts, grace periods and session ends arrive in any order;
* a read has to be answered once, by the input or by the timer;
* nodes of the pipeline are recycled while one thread reads them and another
  compares them by identity;
* the frame of visible lines is kept by arithmetic on a list that loses lines at
  its old end;
* the handshake with CP (MORE, HOLDING, CLEAR) is driven by three threads;
* a CMS program reads its answers as lines of the virtual console, where a line
  the user typed can take the place of one, and nobody matches them to calls;
* the editor saves a file in five steps on disk, of which any may be the last;
* the input modes put lines of their own into the text and count lines of the
  screen to take them out again;
* a transfer goes on after some errors and ends without a word after others.

PROJECT.json `hazards` gives each one with its line and the property for it.

## 2. Plan

| # | Modules | Model | State |
|---|---|---|---|
| 1 | `LineFifo`, `TextPipeline`, `TextPipeline_proofs` | a pipeline and its abstract specification | checked, proved |
| 2 | `LineBuffer`, `LineBuffer_proofs` | the visible frame | checked, proved |
| 3 | `Console`, `Console_proofs` | the console's state machine | checked, proved (safety) |
| 4 | `Filter3270`, `Filter3270_proofs` | the MORE, HOLDING, CLEAR handshake with CP, with the output pipeline's thread | checked, proved (safety) |
| 5 | `TextList`, `LineList`, `LineEditor`, `LineEditor_proofs` | EE's list of lines and what it promises | checked, proved |
| 6 | `Editor` | EE's round trips: prefix commands, block operations across files, ring, save and close | checked |
| 7 | `InputMode`, `EditSession`, `EditSession_proofs` | reading, saving, PUT and GET step by step with failures and the end of the virtual machine; ring, input modes, rescue loop | checked; saving and closing proved |
| 8 | `FsCodec`, `Diag58`, `FsApi`, `FsApi_proofs` | the C side of writes, reads, polls, cancels and locks against the console's answers, and on a terminal of CP's | checked, proved (safety) |
| 9 | `IndCode`, `IndFile`, `IndFile_proofs` | a file transfer, panel by panel, with its error ends | checked; its end proved |
| 10 | `TextEdit` | EE's commands on the text of a file | checked |

The modules that are proved about have constants with assumptions, one action per
operation, and no `RECURSIVE`.  What has no theorem is named at the end of section 6.

## 3. The models

### 3.1 `TextPipeline`, `LineFifo`

A pipeline hands lines from a producer to the thread that shows them.  `queue`
and `free` are the two lists of nodes, `text` what a node holds; `pc`,
`currLine` and `counter` belong to `run()`, `ask` holds the locals of a call of
`hasBacklog()`, `running` is the volatile flag; `appended`, `delivered` and
`dequeued` are history.  An action is one synchronized method or the code
between two of them: the line at the head is read after the lock is given up, so
any number of `AppendLine` may happen between `Poll`, `Deliver` and
`DequeueHead`.  A sink or source that throws ends the thread (`Fail`).
`LineFifo` has two sequences, lines put in and lines taken out, one a prefix of
the other.

### 3.2 `LineBuffer`

The lines kept for the screen and the frame shown, `lastVisible`,
`countVisible`, `rowsVisible`.  A text is the number of rows it takes and its
attribute.  Actions are the public operations the console calls; each includes
`recomputeVisibleFrame`.

### 3.3 `Console`

`con` is the record of the console's fields for serial output (`state` is
`consoleState`, `remaining` the rows left before More, `backlog`,
`overwritten`, `drain`, `ticks` of the countdown, `waiting` the threads asleep
in the monitor), `fs` the one for fullscreen input (receive buffer, `timeout`,
`grace`, the lock).  `thread` says where the pipeline's thread and the host's
reader are inside a method that waits, with the locals they keep there; the
terminal's reader and the ticker never wait, so each of their calls is one
action.  `prog` is what the program on the host waits for.  Every method of the
console is one action, cut where it calls `wait()`: after a thread sleeps in the
More state it restores the state it found, in an action of its own
(`LeavesMore`).  `setInputState` computes the new state before it takes the
monitor, hence `InputState` and `SetInputState`.  The fullscreen program is the
environment: it writes, reads with any timeout, cancels, asks for a lock, in the
order `EncodedTransport` lets through.  `hist.upset` records that a state was restored
or reset over a fullscreen state, `hist.cancelled` that a locked read was cancelled; the
properties name them where the code's promise does not hold.  With a 3215 connection
(`Pipelined = FALSE`) the host's reader itself shows the lines.

Left out: `close()`, texts of PF keys, the history's contents, attributes, the
drawing.  Lines take one row.  A serial input arrives whole, as the code assumes
(`Vm3270Console.java` 827).

### 3.4 `Filter3270`

`reader` parses what CP sends, `pipe` is the output pipeline's thread with its
callback `pipelineDrained`, and the user may send a line at any moment; CP is at
the other end of one channel in each direction (`toCp`, `fromCp`).  `vmstate`,
`clearState` and `inHolding` are the filter's fields, `cp` CP's console state and
page.  The reader treats a change of CP's state in three blocks
(`VmStateArrived`; `HasBacklog` with `HoldVmOutput`, or `ClearVmOutput`;
`VmStateUpdated`), which are steps of their own.  `pipelineDrained` may be called
with a queue that has been filled since.  CP is external and modelled from what the
filter expects of it: MORE when the page is full, HOLDING after ENTER, running
after CLEAR.  CP's own timeout in MORE, NOT ACCEPTED, and the parsing of data
streams are left out.  Showing a line takes no confirmation here: that the console
lets a waiting thread go on is `Console`'s business.

### 3.5 `LineList`, `TextList`, `LineEditor`

`LineList` is a library of operators on the record of one editor: `next`, `prev`
and `lineinfo` of each line, the free list, the current line and its number, the
count, the marks.  One operator stands for one function of `eecore.c`, down to
the order in which lines leave and enter the free list, since a stale pointer
names whatever line was taken last.  Two loops of the code are recursive functions
over an index, so that a proof can use them: `Follow`, a walk along `next`, and
`InTurn`, one function called for each element of a sequence.  A null pointer followed sets `broken`, the
exception of an allocation that fails sets `oom`; how the function leaves the
record in that case is modelled as well.  `LineEditor` calls them in any order,
on lines of the list and on freed ones where the function looks for that.
`TextList` is what `eecore.h` promises: a sequence of lines, a current line and
marks, without a pointer.

### 3.6 `Editor`

The loop of `eemain.c doEdit`.  A round trip is one action, as nothing can happen
between its parts: the prefix commands of the screen in two passes (single, then
block), the placing of the current line, and the command.  `block` is `blockOps`:
two pointers kept between round trips, possibly while another file is on the
screen.  The rows that take a prefix and the line numbers of the prefix commands
are those `writeReadScreen` shows; the numbers come from `lineCurrentNo` and can
be wrong, which is modelled.  Freed editors and null pointers end the model in
the status "broken"; about what follows such a state the properties say nothing.

Left out here: the commands on a text (`TextEdit`), GET, PUT and saving as steps,
and the input modes (`EditSession`).  Overtyping calls `updateLine` on visible
lines before anything else, as in `LineEditor` and in `InputMode`.

### 3.7 `FsCodec`, `Diag58`, `FsApi`

`FsCodec` is how numbers and bytes travel as printable characters; `Base` and
`Digits` (16 and 8 in the code) are parameters, a character is its digit and
whether its alphabet says it is the last.  `FsApi` is a program that calls
`fsio.c`: `api` is what the library knows of the terminal, `job` the call under
way, `stack` the lines sent to the virtual machine and not read yet.  A call asks
for the terminal first if it must (`AskTerminal`, `ReadTerminal`), then throws away
the lines on the stack and writes its command (`SendRequest`), then reads until it
has its answer, which for an input are chunks.  `con` and `rcv` are the console cut
down to what decides on its answers: its encoder with the chunks it still has to
send, the read that waits, the grace period, the lock, and the buffer for input.
`Handled` is the console's treatment of a command line, `VmReadAnswered` what it
does when the host asks for input.  `Diag58` is the other half of `fsio.c`, for a
terminal of CP's own: poll mode, the combined write and read IND$FILE uses, and
the second look after an attention.  `job.n` and `Answer(k, body).n` are history:
which call a line was sent for.

### 3.8 `TextEdit`

The commands on a text: CHANGE, occurrence by occurrence, with the questions of
CONFIRM; SHIFT in its four modes; SPLTJOIN; LRECL and WORKLRECL; LOCATE with its
list of locations and the search; MARK; and the sort of list screens.  Lines are
numbers that stay with them, so that marks and stability can be spoken of; a text
is a sequence of small numbers.  `opt` is the record of settings, `chg` the locals
of `CmdChange` between two occurrences.  `lineCurrentNo` is `no`; the sort leaves
it stale, as the code does.

### 3.9 `InputMode`, `EditSession`

`InputMode` has the loops `doInputM` and `doPInpM` as operators on an editor of
`LineList` and on `m`, what the loop remembers: the guard line and the number of
empty lines of the one, the input line and whether it is unused of the other.
`EditSession` is EE from its start on CMS to its end: `ee` is its memory (editors,
ring, the one on the screen, `fileCount`), `disk` what survives it.  `writeToFile`
is a step for each call of CMS that changes the disk; commands that only change
memory are one action.  An upset is a failing call, at any of its places, or the
end of the virtual machine.  `FailedOpenings` has the three ways in which reading
a file can fail.  `Lost` and `UnknownRescue` are the loss of the terminal and the
rescue loop on the virtual console.

### 3.10 `IndCode`, `IndFile`

`IndCode` is the translation: quadrants and letters, the tables changed by map
files, records stripped and filled, and the test of TST.  `IndFile` is a run of the
program.  A panel is a round trip with one of eight outcomes, from "not written" to
"an answer to something else"; `Status` is `sendStatus`, which acknowledges first
when that was not done; GET collects codes until a panel is full, PUT decodes them
one by one (`Convert`) and writes records as they fill (`Write`).  `term` is the
program at the other end: what it has still to send, what it got, what it was told.
`frameSeq` is left out; an answer to another panel is the outcome "other".

## 4. Runs

| Run | Distinct states | Shows |
|---|---|---|
| `text_pipeline` | 67,802 | nodes are never confused, `hasBacklog` is right when it says TRUE, the pipeline is a FIFO, every line is delivered |
| `line_buffer` | 10,540 | the frame stays inside the buffer, paging skips no line |
| `console_3270` | 1,534,992 | the safety properties of the console |
| `console_3215` | 142,918 | inputs in two packets, draining interrupts; nobody is stuck in the More state, a lock that holds lines back is left |
| `filter_3270` | 262,030 | one CLEAR at a time, a bounded backlog, CP never left stopped, every line shown |
| `line_list` | 14,323 | the pointers stay a list, nothing leaks or dangles, the list implements `TextList` |
| `line_list_lineno` | to the finding | the finding below |
| `editor` | 37,945 | no block operation loses or doubles a line, half a block stays in its file, "not modified" is true |
| `fs_api` | 29,379 | an answer is read by the call it was sent for, an input arrives whole or with an error, a screen is never mixed of two writes, an input reported as available stays, polls return |
| `text_edit` | 412,278 | CHANGE does what it means to the lines it names, shifts, splits and joins lose nothing untold, marks stay with their lines, LRECL keeps order and current line, the sort is a stable one |
| `edit_session` | 366,915 | what was saved survives one upset at any step; a closed file is on disk; lines PUTD takes out are in the file it wrote; GETD erases a buffer it opened only when all of it is in the editor; a round trip of an input mode keeps what was typed and what the user left alone, but for the cases named in section 5 |
| `ind_file` | 112,491 | a transfer that is called complete is whole, a test finds fault only where there is some, the terminal is told of the end and the screen given back |

### Bounds, and why they are enough

* Pipeline (`Node`, `MaxLines`, `IdlePolls`, `BacklogTries`): three lines need at
  most three nodes, so nodes are freed and filled again while `hasBacklog` looks;
  two texts show a swap; both counters pass their limits (the code has larger
  ones and does nothing else with them).
* Line buffer (`RowsInPage`, `MaxSize`): four rows are the smallest page the
  constructor admits; lines of one to four rows, so a line fits with its neighbour,
  does not, or fills the page; the sixth line makes the buffer drop its oldest.
* Console (`OutZoneRows`, `MaxLines`, `MaxSessions`, `SessionTicks`, `Timeouts`,
  `GracePeriods`): on three rows a line is written with and without entering More;
  two lines go directly, through the backlog, or one each way; a timeout of one
  tick, a grace period of one tick and a countdown of one tick end before or after
  any other step, and 99 is "no timeout".  One session ends, and both threads may
  wait at once.
* Filter (`PageLines`, `MaxLines`, `MaxWarns`, `MaxInputs`): four pages of two
  lines, so a CLEAR can be late for its own stop and early for the next, and the
  page after that shows what a stop answered twice leads to; CP locks the screen
  once by itself; one input at any moment.
* Line list (`Lines`, `MaxCalls`, `MarkNos`, `WorkLrecl`): four lines, three in use,
  so a copy may run out of lines; three calls free a line, take it again and use an
  old pointer to it; a line of two tokens can be split, and joined too long.
* Editor (`Scopes`, `UpLines`, `DownLines`, the files): three inputs of every kind,
  and five of the block commands, which is what a block needs that is named, held,
  taken to the other file and given a target there.  The second file has room for two
  lines, so a move into it may fail.  A round trip brings at most two prefix commands.
* Fullscreen API (`MaxCalls`, `MaxDisturbances`, `ChunkSize`, `Requests`, `Base`,
  `Digits`): three calls are a read cut off, a call between, and a read that could
  meet what is left; one typed line or one new session comes at any moment.  An
  input of one byte and one of three take two chunks of two, the last of them empty
  or not, and fit into the buffer of a caller or not.  Numbers of four binary digits
  run from -8 to 7; -4 is "cancel" and 7 "no timeout".
* Texts (`MaxCommands`, `FileLrecl`, `Files`, `Letters`): four commands reach a mark
  set, the line moved or cut and the mark used; texts of up to four characters in
  lines of four, three or one, so every command can run out of room.  One file has an
  empty line.  Two modes differ in both settings of CASE.
* Session (`Scopes`, `OnDisk`, `Handles`): five inputs in each of five scopes, with
  one upset in the two that write and read files: open, change, save, fail, save
  again.  Two files share EE$OLD and EE$TMP, one is binary.  Input mode is tried with
  as many lines on the screen as it counts and with one more, which the code's
  arithmetic allows.
* Transfer (`Quadrants`, `MaxRecord`, `FrameSize`, `Upsets`): three quadrants of five
  letters, two of which share a character; records of up to three characters and
  panels of ten codes, enough for any one record, as in the code (1909 against
  257 characters of two codes at most); a file fills a panel and leaves a rest.  Two upsets, as the status of the first is itself a round trip.

### Fairness

`TextPipeline`: weak fairness of the pipeline's thread and of a call of
`hasBacklog` that has begun; both are Java threads that wait for nothing but their
own sleeps.  `console_3215`: a notified sleeper goes on (weak, a thread of the JVM),
and a user who is asked to confirm output again and again presses ENTER at some
time (strong, as other inputs come between); the timer ticks (weak, a thread that
only sleeps and waits for the monitor).  `Filter3270`: CP, the reader and the
pipeline's thread go on (weak); never that an ordinary input is made.  `FsApi`: the
program goes on, the host asks for the input it has not got, and the timer of a read
ends (weak); never that a key is pressed.

## 5. Findings and known divergences

`line_list_lineno`: `eecore.h` and `eecore.c` 118 call `lineCurrentNo` the number of
the current line.  It is one too high after any operation on a range, and not
counted by `insertLine` at the top; the numbers on the screen and the counts of the
prefix commands D and " follow it.

Other states the models reach and that surprised us; the properties are stated so
that they say what holds besides.

*Console and filter.*
* `recomputeVisibleFrame` (`LineBuffer.java` 269) confuses a scan that ended at index 0
  because the next line did not fit with one that reached the top; after "display the
  youngest added line" (192-194) the page can show the oldest.
* A thread that leaves the More state restores the state it found
  (`Vm3270Console.java` 454) over a `PwRead` set meanwhile; the password typed next is
  echoed and remembered, against 74 "(without passwords)".  The ENTER that leaves the
  More state sets `Running` as well (894), over a prompt that has come meanwhile.
* The countdown after a session is not stopped by ENTER (1312), against 236-238, and
  then sets `Running` over a fullscreen state; in flow mode it runs although no More
  state was entered.
* The cancel of a read that has a lock (641-648) stops both timers and leaves
  `fsLockedToFs` set: lines are then held back although "the fs-read-timeout" that line
  86 waits for is over.  `LockEnds` and `LockIsLeft` except it.
* A read is not answered when the screen was overwritten between question and start
  (624); the program then waits for a key.
* Between `vmStateArrived` and `vmStateUpdated` the pipeline's thread can answer one
  HOLDING twice (`Tn3270StreamFilter.java` 708); the second CLEAR confirms a later MORE
  early, and from then on more than two pages may be on their way to the console.  That
  came out of the proof of `BacklogBounded`, which excepts it; three pages were too few
  to show it.

*Fullscreen API.*
* After a typed line has cut off a transfer, the callback of that transfer is still
  armed and clears the next input, even one already reported as available.
* On a terminal of CP's, `__fscncl` does nothing, poll mode is left only by asking for
  the terminal anew, and a write in poll mode returns 0 without writing when an input
  waits.

*Editor, texts.*
* `getMarkIndex` (`eecore.c` 1652-1654) maps I and J to one mark.
* `silrecl` never reports truncation, against `eecore.h` 229, as the working length is
  lowered (2049) before the lengths are compared (2103); it drops the second of two
  marks on one line, and all marks when memory runs out.
* "04=Skip this match" of CONFIRM skips the rest of the line; `edFind` does not look at
  its limit line; the sort leaves `lineCurrentNo` as it was; `CmdLrecl` may use an
  unset variable.
* The text behind the working length is lost with the next change, as `eecore.h` 218
  says.
* The target of a block whose file was closed by FILE or QQUIT names freed memory
  (`eeprefix.c` 678, `eecmds.c` 333); DELETE with a wrong `lineCurrentNo` at the top cuts
  a range that begins at BOF.

*Editor, files.*
* A file that cannot be opened for reading counts as empty: GETD then erases the buffer
  with nothing inserted.  A read error leaves a part of the file in the ring, uncounted,
  and an EXIT can end before it is asked for.
* EE$OLD and EE$TMP of another file of the same filename are dropped, even by a SAVE
  that is refused; after a failed rename the protection "File already exists" is void
  for the next attempt.
* Two upsets can lose a file: one between two renames leaves it as EE$OLD only, the
  next write begins by dropping EE$OLD, and a second upset ends that write.  Hence the
  assumption `OneUpset` of the theorem.
* Two editors of the ring can get one name by SAVE under a new one.
* Input mode can show more lines than it counts: the guard can be typed over, and what
  is deleted then includes lines behind it.  A session lost in an input mode leaves
  guard and empty lines in the text, and FILE in the rescue loop saves them.
* Programmer's input: PF10 after TAB deletes a typed line; joining into the unused input
  line and leaving deletes what was joined; a split or join alone does not count as a
  change, so QUIT drops it.
* An unknown command of the rescue loop is called through a null pointer.

*Transfer.*
* The end of a file is tested with "and" where "or" is meant: a panel of two codes that
  begins with "*" or ends with "z" ends the file as complete, and so does an answer
  without data.
* A code that means nothing ends PUT without a status, and a lost round trip ends
  without a status or the release of the screen.
* A write error at the end of a line is told, and PUT then goes on; a read error is
  told, and GET then sends the rest, the end of file and "complete".
* A tab counts in the length of a record but nothing is put for it; a line of exactly
  LRECL characters is followed by an empty record.
* PUT erases the old file before anything has come; a request to send a panel again ends
  the transfer.

## 6. Proofs

TLAPS checks the eight modules `*_proofs` for all values of the constants that meet
the named assumptions.  Each has an invariant `IInv`, shown to hold at first, to be
kept by every action, and to imply the properties.

*Pipeline.*  `NodesSafe` and the FIFO property are not inductive: that the line
handed out without the lock is the line at the head needs the relation of the lists
to what was appended and delivered (`Contents`), and `hasBacklog`, which compares
nodes by identity, is right only because a node it saw is either still the head or
has left the queue, since only the caller itself appends (`Looks`).  With `Counters`
these make the inductive `IInv`.  `ImplementsFifo` maps every step to a step of
`LineFifo` or a stutter.  The types (`TypeCorrect`) are proved and not run.

*Console.*  `IInv == TypeOK /\ NoLostWakeup /\ Reading /\ Ordered /\
DrainsOnLineModeOnly`.  `Reading` is the group that belongs to a program's read:
that it is answered once, that its input is frozen while on its way and its screen
untouched are one invariant, as a read clears the timers the others rest on; it is
strengthened by three facts no run lists, that no grace period runs during a read
(`GraceIsOff`), that a lock has a period to end it (`LockHasPeriod`), and that the
host's reader is not waiting for the screen during a read (`NoReadInCycle`).
`Ordered` adds that no line on the screen is younger than the last one that arrived.
Lemmas state what each method does to the console's fields (`ConsumeProps`,
`EnterMoreProps`, `LeaveMoreProps`, `AppendHostLineProps`); the proof that a step
preserves the invariant has a part per action.  `OneAnswerPerRead`
and `FSInUntouched` hold except after an upset, a state restored or reset over a fullscreen
state (section 5).  `LockEnds` says of every lock that holds lines back that a timer is
counting down, or that the program still waits in a read without a timeout which the user
can answer; that no timer runs for the largest value is part of the statement.  It excepts
a locked read that was cancelled (`hist.cancelled`, section 5), and an
upset only for the read without a timeout.  That the timer then ends the lock is the
liveness property `LockIsLeft`.

*Line buffer.*  `FrameOK` is inductive with the types of the lines.  The work is in
the scan of `recomputeVisibleFrame`: the frame is the longest run of lines that ends
where it should and fits, or has fallen to the top (`FilledUpwards`, `AtTop`), which
needs that the rows of a run grow with its length.  `YoungestOrTop` (proved
only; no run lists it, as it admits what line 269 gets wrong) and `NoLineSkipped` are
action properties that follow from that.

*Filter.*  `OneClear` needs no history.  `BacklogBounded` needs the whole handshake
(`Handshake`): whether a page is flowing, the reader is asking the pipeline, CP is
held, or a CLEAR or the screen it erased is under way decides what records may be on
their way (`FlowFrom`, `Erased`) and what the pipeline's thread may do; then
`Outstanding` counts the lines that are shown late against the page CP is writing.
Once CP has locked the screen by itself, or one HOLDING was answered twice, none of
that holds, and the theorem says nothing.

*Fullscreen API.*  A call discards what it finds on the stack before it asks, so
without typed lines everything under way belongs to the call that reads, and its
last line ends it (`Orderly`); a typed line makes a call end early, and then only
chunks of an earlier transfer may come between (`Disturbed`).  `ScreenWhole` follows
from `Calling`: what the console has got of a write and what the library still has to
send make up the write, as long as both talk about one fullscreen state.
`ReportedInputStays` rests on `Keeping`: whom the user sits at and what fsio.c found out
about it (`Linked`); that no line under way tells of a session newer than the console's
(`Sessions`); that what DIAG X'58' reported is still in the display (`OnScreen`); and,
while nobody has typed, that the callback belongs to the transfer that is under way and
that a poll's answer "input" on the stack means an input that is complete and not locked
(`Undisturbed`).  `InputsAreWhole` has the invariant `Using`: a call whose read the
console still owes an answer has got nothing (`Open`); once the call has used up an
input, what is under way to it is the rest of the lines that carry this input, in their
order, unless a typed line comes first, which ends the call (`Flow`).  Both rest on the
codec: `decodeInt()` finds the number that `encodeInt()` wrote as far as the digits go
(`NumberArrives`), so return codes arrive as they are, and a session never as a newer
one (`CodesArrive`).

*Transfer.*  Each way out of the program either told the terminal the end and released
the screen, or lost the round trip, had its file refused or met a bad code
(`EndsTold`); `Final` keeps the acknowledgement of a panel from counting as an end,
`ClosedInTime` follows the file.

*Saving a file.*  `Editors` says that the ring has each editor once, that `fileCount`
is off by one at most, and that what is being written belongs to an editor.  `Saved`
says of the disk, for each step of `writeToFile`, which of the three names holds which
version (`OwnSafe`), that every other file is found (`OthersSafe`), and that before the
upset all files are under their own names (`Whole`).  The texts that are edited take
no part there: the operators of `LineList` that change them are not expanded.

*Closing a file.*  `ClosedStaysSaved` adds the invariant `Filed`: an editor that does
not count as modified has the text it was read or written with (`Intact`); what SAVE,
FILE and EXIT are writing is the text of their editor, which nothing changes meanwhile
(`Filing`); and when a write has ended well, the file is there and is that text
(`Landed`).  `Intact` is kept because each function of the list either leaves `next`
and the texts alone or sets `modified` (`Follows`): one lemma for each (`Moves`,
`Inserts`, `DeletesRange`, `AllTurns`).  For `Intact` of a new editor the history `base`
is what its list holds after reading, which is the file unless the page of free lines
was too short.  The hypothesis `ModesCloseNothing` is needed: a split or a join in
programmer's input does not set `modified`, and QUIT then drops it (section 5); so no
session has both an input mode and FILE, QUIT or EXIT, as in the scopes of the run.

*Lines of an editor.*  `IInv` says that there are a numbering `w` of the lines in the
list and one, `f`, of the free lines, such that `next` and `prev` lead from each to its
neighbour (`Chained`, `Stacked`), that the two have no line in common and all lines
between them unless a call ran out of lines, and what `lineinfo`, the count, the
current line and the marks say of them (`Holds`).  Every relinking is then one of four
changes of a numbering: a stretch taken out (`CutLinks`), a stretch put in
(`SpliceLinks`), the first lines taken from the free ones (`StackPop`), one put back
(`StackPush`); one lemma per function of `eecore.c` (`DeleteKeeps`, `PasteKeeps`,
`MoveKeeps`, ...) shows that its assignments are such changes.  While `delrng` frees a
range one line after the other, the lines still to be freed are in neither list, and a
mark may be on one of them: `KeptBut` allows that, and `FreeAll` ends it.

*The list is a text.*  `PointersAreAText` is the refinement: `LineEditor` implements
`TextList`, which knows no pointer, with the texts in the order of the chain, the place
of the current line and the places of the marks for its state.  The invariant adds to
`IInv` that `doc` is that view (`View`).  A call is looked at through the numberings of
`IInv`: each row of the new text is the row `w[i]` of the old one, or one with a new
text, or new (`Tracks`), so that what a cut (`Cut`) or a splice (`Spliced`) of the
numbering does to places is what `TextList` says of a place (`Where`) when rows were
taken out or put in.  One lemma for each call shows that what is seen of its result is
one the operation of `TextList` may give, or that nothing of it is seen (`CallMay`), and
`StepIsAllowed` makes a step of `TextList` of that.  A copy that runs out of lines has
copied the first of them, which `TextList` allows too.

The library's induction theorems take an operator as a parameter, which the provers
cannot instantiate; where a loop is involved (`Follow`, `InTurn`, the scan of the line
buffer) the proofs take the least place at which it goes wrong (`LeastNumber`, from
`WFMin`) and derive a contradiction.

*Assumptions.*  The named `ASSUME`s of the modules, which the runs evaluate: at least
two rows and positive timers for the console, four rows for the line buffer, `NoNode`
is no node; `ApiAssumption` gives the requests and streams of programs their types;
`SessionAssumption` says that no file is called EE$OLD or EE$TMP and each is a sequence of
lines; `CodecAssumption` that there are more than eight numbers; `LinesAssumption` that the
lines are finitely many and not one of the guard lines; `EditorAssumption` that the
page of free lines has each once and texts are no longer than a line.  `SavedIsFound`
and `ClosedStaysSaved` assume `OneUpset` besides, the latter also `ModesCloseNothing`.

*Only model-checked:* every liveness property (`EveryLineDelivered`, `MoreIsLeft`,
`LockIsLeft`, `HostGoesOn`, `LinesShown`, `PollsReturn`), since fairness and ENABLED are out of the
prover's reach; the four properties of `Editor` (`PartialBlockIsLocal`,
`ModifiedIsHonest`, `NothingLost`, `MovesConserve`), whose prefix commands go through
operators that take an operator (`Times`, `FoldLeft`), and the last two compare the
texts of several files as bags and sets; the properties of `TextEdit`, whose commands are
functions on the contents of a text; `MovedIsKept` and `InputIsKept`, which would need the lists of all editors sound and long enough while they
are read and changed; and `TransferIsTrue`, as
what the translations of `IndCode` compute is a recursion over data.

## 7. Not modelled

* Sockets, reader threads, negotiation and the list of active filters
  (`BaseStreamFilter`, `Base3270And3215NegotiatingStreamFilter`, `StreamDrain`, `Mecaff`):
  mostly calls of the Java library whose outcomes are arbitrary; what remains is
  sequential setup.  That a filter whose connection ended is not taken from the list
  (`BaseStreamFilter.java` 130) is a hazard without a property.
* `transport/ByteBuffer` and the byte level of the encoders, whose effect is in
  `FsCodec` and `FsApi`.  The test of `ensureSpace` is a hazard without a property: it
  depends on sizes of Java arrays that nothing else in a model tells apart.
* The 3270 data stream: orders, addresses, colours and the fixed array for an
  incomplete record (`Tn3270StreamFilter.java` 436).  `lastInputlineSent`, written by three
  threads (773), is left out of `Filter3270` with the echo it serves.
* Of the console: `close()`, PF-key texts, the history's contents, attributes, drawing,
  and rows of more than one line; a serial input arrives whole.
* Of `fsio.c`: the attributes' values and version queries (their answers are modelled as
  one kind), and the layout of messages.  `fs3270.c` builds and parses buffers.
* Of EE: the layout of the screen and its display options, tabs, profiles, help, macros
  of PF keys, the file list apart from its sort, and messages.  These change what is
  shown or which command runs, not the text.
* Of IND$FILE: the drawing of the panels, the checksum (computed and not looked at), and
  lengths below zero.
* Assembler helpers (one supervisor call each), `Log`, `Ebcdic` and the small test tools.
