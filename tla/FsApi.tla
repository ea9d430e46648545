-------------------------------- MODULE FsApi --------------------------------
(***************************************************************************)
(* fsio.c, the fullscreen API of CMS programs, talking to a MECAFF console *)
(* (or, by Diag58, to the terminal itself).  A call writes a command line  *)
(* and reads the line that answers it from the virtual console: the same   *)
(* way the lines a user types come in, so such a line can take the place   *)
(* of an answer.  The answers wait in the console's encoder until the host *)
(* asks for input (VM READ).                                               *)
(*                                                                         *)
(* The console's side is cut down to what decides on its answers; the      *)
(* module Console has the whole of it.                                     *)
(***************************************************************************)
EXTENDS FsCodec, Diag58

CONSTANTS
    Requests,    \* the calls a program may make
    ChunkSize,   \* bytes in one chunk, either way
    Grace,       \* fsrdGracePeriod
    Terminals,   \* which terminals there are: {"mecaff", "diag58"}
    MaxCalls, MaxDisturbances    \* bounds; a typed line or a new session disturbs

\* The calls fsio.c offers; __qtrm2() is one with __qtrm(), and what __fsgp()
\* sets is the constant Grace.
ApiFunctions ==
    {"qtrm", "qtrmpf", "strmat", "strmpf", "fswr", "fsrd", "fsrdp", "fscncl", "fslkto",
     "fsqvrs", "fssfm"}

ASSUME ApiAssumption ==
    /\ ChunkSize \in Nat \ {0} /\ Grace \in Nat
    /\ Terminals \subseteq {"mecaff", "diag58"}
    /\ MaxCalls \in Nat /\ MaxDisturbances \in Nat
    /\ <<>> \notin Inputs /\ Inputs \subseteq Seq(Nat)
    /\ \A r \in Requests :
          r.fn \in ApiFunctions /\ r.data \in Seq(Nat) /\ r.t \in Int /\ r.room \in Nat

VARIABLES
    terminal,   \* what the user sits at
    api,        \* [tested, connected, diag58, sid]: what fsio.c knows
    con,        \* the console: its encoder, state and terminal
    rcv,        \* its buffer for fullscreen input
    prompt,     \* the host will ask for input for the read that waits
    stack,      \* lines sent to the virtual machine that it has not read yet
    typed       \* lines the user has typed: [made, underway]

vars == <<terminal, api, con, rcv, prompt, stack, typed, d58, tube, job, last>>

ServedBy(fn) == IF fn = "fsrd" \/ fn = "fscncl" THEN "fsrdp" ELSE fn
Asks(fn) == fn \in {"qtrmpf", "strmat", "strmpf"}

IdleJob == [fn |-> "none", cmd |-> "W", data |-> <<>>, t |-> 0, room |-> 0, pc |-> "idle",
            got |-> <<>>, used |-> <<>>, n |-> 0]
FreshConsole(sid) ==
    [sid |-> sid, fs |-> FALSE, over |-> TRUE, grace |-> FALSE, wants |-> <<>>,
     waits |-> <<>>, chunks |-> <<>>, callback |-> FALSE, lock |-> 0, toFs |-> FALSE,
     part |-> <<>>, shown |-> <<>>]
NothingReceived == [data |-> <<>>, complete |-> FALSE, locked |-> TRUE]

Init ==
    /\ terminal \in Terminals
    /\ api = [tested |-> FALSE, connected |-> FALSE, diag58 |-> FALSE, sid |-> -1]
    /\ con = FreshConsole(0)
    /\ rcv = NothingReceived
    /\ prompt = FALSE
    /\ stack = <<>>
    /\ typed = [made |-> 0, underway |-> 0]
    /\ job = IdleJob
    /\ last = [fn |-> "none", rc |-> 0, got |-> <<>>, used |-> <<>>, told |-> FALSE]
    /\ D58Init

-----------------------------------------------------------------------------
(* The console takes a command line: isEncodedFsCommand() *)

Answer(k, body) == [k |-> k, body |-> body, n |-> job.n]
AnswerTo(asked, k, body) == [k |-> k, body |-> body, n |-> asked.n]

\* Mutant: what is left of the stream before is kept.
AcquiredKept(c, cmd) ==
    IF cmd \in {0, 3} /\ c.over /\ ~c.fs
      THEN [c EXCEPT !.chunks = <<Answer("W", EncodeInt(1))>>]
      ELSE [c EXCEPT !.chunks = <<Answer("W", EncodeInt(0))>>, !.fs = TRUE]

\* Tries to become the owner of the screen; a Write needs the screen it left.
Acquired(c, cmd) ==
    IF cmd \in {0, 3} /\ c.over /\ ~c.fs
      THEN [c EXCEPT !.chunks = <<Answer("W", EncodeInt(1))>>, !.part = <<>>]
      ELSE [c EXCEPT !.chunks = <<Answer("W", EncodeInt(0))>>, !.part = <<>>, !.fs = TRUE]

\* writeFullscreen() ignores what comes from somebody who is not the owner.
Shown(c, stream) ==
    IF c.fs THEN [c EXCEPT !.part = stream, !.shown = stream, !.over = FALSE]
    ELSE [c EXCEPT !.part = stream]

Handled(c, k, body) ==
    CASE k = "T" -> [c EXCEPT !.chunks = <<Answer("T", EncodeInt(c.sid))>>]
      [] k \in {"t", "C"} -> [c EXCEPT !.chunks = <<Answer(k, EncodeInt(0))>>]
      [] k = "W" ->
           LET sid == DecodeInt(body)
               cmd == DecodeInt(sid.rest)
           IN  IF sid.val # c.sid
                 THEN [c EXCEPT !.chunks = <<Answer("W", EncodeInt(2))>>, !.part = <<>>]
                 ELSE Acquired(c, cmd.val)
      [] k = "f" -> [c EXCEPT !.part = @ \o DecodeData(body, Len(body) + 1).data]
      [] k = "F" -> Shown(c, c.part \o DecodeData(body, Len(body) + 1).data)
      [] k = "I" ->
           LET sid     == DecodeInt(body)
               timeout == DecodeInt(sid.rest)
           IN  IF sid.val # c.sid THEN [c EXCEPT !.chunks = <<Answer("E", EncodeInt(2))>>]
               ELSE IF c.over THEN [c EXCEPT !.chunks = <<Answer("E", EncodeInt(1))>>]
               ELSE [c EXCEPT !.wants =
                          <<[t |-> IF timeout.ok THEN timeout.val ELSE NoTimeout, n |-> job.n]>>]
      [] k = "&" ->
           LET t == DecodeInt(body).val
           IN  [c EXCEPT !.lock = t, !.toFs = @ /\ t > 0, !.fs = @ /\ t > 0]
      [] OTHER -> c

-----------------------------------------------------------------------------
(* The console answers: VM READ, the input, the timer *)

\* A line sent to the host waits there until the program reads one.
Sends(line) == stack' = Append(stack, line)
Reading == job.pc \in {"probe", "answer", "rest"}

\* prepareFullScreenInputTransfer(): at least two chunks, the last one of
\* which may be empty.
Transfer(asked, bytes) ==
    LET len   == Len(bytes)
        full  == IF len =< ChunkSize THEN 1 ELSE (len - 1) \div ChunkSize
        size  == IF len =< ChunkSize THEN 1 ELSE ChunkSize
        piece(i) == SubSeq(bytes, (i - 1) * size + 1, i * size)
    IN  [i \in 1 .. full + 1 |->
            IF i =< full THEN AnswerTo(asked, "i", EncodeData(piece(i)))
            ELSE AnswerTo(asked, "I", EncodeData(SubSeq(bytes, full * size + 1, len)))]

\* sendEncodedData(): with the last chunk, transferCompleted() is called back
\* if a transfer has asked for it, even one that was cut off by a later call.
\* Then lines that had to wait take the screen, if any.
SendNextChunk ==
    LET done == con.callback /\ Len(con.chunks) = 1
    IN  /\ Sends(Head(con.chunks))
        /\ \E lines \in {FALSE, done /\ ~con.toFs} :
             con' = [con EXCEPT !.chunks = Tail(@), !.callback = @ /\ ~done,
                                !.fs = @ /\ (~done \/ con.toFs), !.over = @ \/ lines]
        /\ rcv' = IF done THEN [rcv EXCEPT !.data = <<>>, !.complete = FALSE] ELSE rcv
        /\ UNCHANGED job

\* sendFullScreenInput() of c: the first chunk is sent, the others are kept.
SendsInput(c, asked, bytes) ==
    LET chunks == Transfer(asked, bytes)
    IN  /\ con' = [c EXCEPT !.chunks = Tail(chunks), !.callback = TRUE, !.wants = <<>>,
                            !.waits = <<>>, !.grace = c.toFs]
        /\ Sends(Head(chunks))
        /\ job' = IF Reading /\ asked.n = job.n THEN [job EXCEPT !.used = bytes] ELSE job

\* writeFsReadStateTo()
SendsState(c, asked, rc) ==
    /\ con' = [c EXCEPT !.chunks = <<>>, !.wants = <<>>]
    /\ Sends(AnswerTo(asked, "E", EncodeInt(rc)))

Prepared == IF rcv.locked THEN [data |-> <<>>, complete |-> FALSE, locked |-> FALSE] ELSE rcv

\* readFullScreen(timeout), which gives no answer once the screen was lost.
ReadFullScreen(asked) ==
    LET timeout   == asked.t
        available == rcv.complete /\ ~rcv.locked
        empty(c) == [c EXCEPT !.waits = <<>>, !.grace = TRUE]
    IN  /\ rcv' = IF con.over THEN rcv
                  ELSE IF timeout >= 0 /\ available THEN [rcv EXCEPT !.locked = TRUE]
                  ELSE Prepared
        /\ \/ con.over /\ con' = [con EXCEPT !.wants = <<>>] /\ UNCHANGED <<stack, job>>
           \/ /\ ~con.over /\ timeout = Cancel
              /\ SendsState([con EXCEPT !.waits = <<>>, !.grace = FALSE, !.fs = FALSE,
                                        !.over = TRUE], asked, 4)
              /\ UNCHANGED job
           \/ /\ ~con.over /\ timeout # Cancel /\ timeout < 0
              /\ SendsState(empty(con), asked, IF available THEN 0 ELSE 4)
              /\ UNCHANGED job
           \/ ~con.over /\ timeout >= 0 /\ available /\ SendsInput(con, asked, rcv.data)
           \/ ~con.over /\ timeout = 0 /\ ~available /\ SendsState(empty(con), asked, 4) /\ UNCHANGED job
           \/ /\ ~con.over /\ timeout > 0 /\ ~available
              /\ con' = [con EXCEPT !.waits = <<asked>>, !.grace = FALSE, !.fs = TRUE,
                                    !.toFs = con.lock > 0 /\ con.lock = timeout,
                                    !.wants = <<>>]
              /\ UNCHANGED <<stack, job>>

\* Mutant: chunks are sent before a read that was asked for is looked at.
ChunksFirst ==
    \/ con.chunks # <<>> /\ SendNextChunk
    \/ con.wants # <<>> /\ con.chunks = <<>> /\ ReadFullScreen(Head(con.wants))
    \/ con.wants = <<>> /\ con.chunks = <<>> /\ UNCHANGED <<con, rcv, stack, job>>

\* The host is at a read and has no line, so the filter gets a VM READ: a read
\* that was asked for is started, or a chunk is sent, or the user is prompted.
VmReadAnswered ==
    \/ con.wants # <<>> /\ ReadFullScreen(Head(con.wants))
    \/ con.wants = <<>> /\ con.chunks # <<>> /\ SendNextChunk
    \/ con.wants = <<>> /\ con.chunks = <<>> /\ UNCHANGED <<con, rcv, stack, job>>

VmRead ==
    /\ Reading /\ stack = <<>> /\ prompt
    /\ prompt' = FALSE
    /\ VmReadAnswered
    /\ UNCHANGED <<terminal, api, typed, d58, tube, last>>

\* A fullscreen input arrives whole; it is dropped while one is kept already.
InputArrives ==
    /\ con.fs /\ ~rcv.complete
    /\ \E input \in Inputs :
         IF con.waits # <<>>
           THEN /\ rcv' = [data |-> input, complete |-> TRUE, locked |-> TRUE]
                /\ SendsInput(con, Head(con.waits), input)
           ELSE /\ rcv' = [data |-> input, complete |-> TRUE, locked |-> FALSE]
                /\ UNCHANGED <<con, stack, job>>
    /\ UNCHANGED <<terminal, api, typed, prompt, d58, tube, last>>

\* onTimerTick()
TimesOut ==
    /\ con.waits # <<>> /\ Head(con.waits).t # NoTimeout
    /\ SendsState([con EXCEPT !.waits = <<>>, !.grace = TRUE], Head(con.waits), 3)
    /\ UNCHANGED <<terminal, api, rcv, typed, prompt, d58, tube, job, last>>

\* The grace period ends: lines that had to wait take the screen, if any.
GraceEnds ==
    /\ con.grace
    /\ \E lines \in BOOLEAN :
         con' = [con EXCEPT !.grace = FALSE, !.toFs = FALSE, !.fs = FALSE,
                            !.over = @ \/ lines]
    /\ UNCHANGED <<terminal, api, rcv, stack, typed, prompt, d58, tube, job, last>>

\* The user disconnects and comes back with another console, which is shown
\* the VM READ of a read that still waits.
NewSession ==
    /\ terminal = "mecaff" /\ con.sid + typed.made < MaxDisturbances
    /\ con' = FreshConsole(con.sid + 1)
    /\ rcv' = NothingReceived
    /\ prompt' = Reading
    /\ UNCHANGED <<terminal, api, stack, typed, d58, tube, job, last>>

\* A line is typed while the console is on the screen; it reaches the host
\* later.
UserTypes ==
    /\ terminal = "mecaff" /\ ~con.fs /\ con.sid + typed.made < MaxDisturbances
    /\ typed' = [made |-> typed.made + 1, underway |-> typed.underway + 1]
    /\ UNCHANGED <<terminal, api, con, rcv, stack, prompt, d58, tube, job, last>>

LineArrives ==
    /\ typed.underway > 0
    /\ typed' = [typed EXCEPT !.underway = @ - 1]
    /\ Sends([k |-> "typed", body |-> <<>>, n |-> 0])
    /\ UNCHANGED <<terminal, api, con, rcv, prompt, d58, tube, job, last>>

-----------------------------------------------------------------------------
(* fsio.c: asking who is there *)

\* Every call asks first as long as no console has answered.
Call ==
    /\ job.pc = "idle" /\ job.n < MaxCalls
    /\ \E r \in Requests :
         /\ ~(r.fn = "qtrmpf" /\ r.t \notin 1 .. 24)
         /\ job' = [IdleJob EXCEPT
                      !.fn = r.fn, !.cmd = r.cmd, !.data = r.data, !.room = r.room,
                      !.n = job.n + 1,
                      !.t = IF ServedBy(r.fn) # "fsrdp" THEN r.t
                            ELSE IF r.fn = "fscncl" THEN Cancel
                            ELSE IF r.fn = "fsrd" THEN NoTimeout
                            ELSE IF r.room = 0 \/ r.t < 0 THEN QueryOnly ELSE r.t,
                      !.pc = CASE r.fn = "fscncl" /\ api.diag58 -> "idle"
                               [] r.fn # "qtrm" /\ api.tested /\ api.connected -> "request"
                               [] OTHER -> "ask"]
    /\ UNCHANGED <<terminal, api, con, rcv, prompt, stack, typed, d58, tube, last>>

\* checkConnectedTerminal() and what __qtrm2() makes of it
AskTerminal ==
    /\ job.pc = "ask"
    /\ IF terminal = "diag58"
         THEN /\ api' = [api EXCEPT !.tested = TRUE, !.connected = TRUE, !.diag58 = TRUE]
              /\ D58Query
              /\ IF job.fn = "qtrm" THEN Return(OK) ELSE Goto("request") /\ UNCHANGED last
              /\ UNCHANGED <<con, prompt, stack>>
         ELSE /\ api' = [api EXCEPT !.tested = TRUE, !.diag58 = FALSE]
              /\ stack' = <<>>
              /\ prompt' = TRUE
              /\ con' = Handled(con, "T", <<>>)
              /\ Goto("probe")
              /\ UNCHANGED <<last, d58, tube>>
    /\ UNCHANGED <<terminal, rcv, typed>>

\* CMSconsoleRead() takes a line; the next read is prompted for anew.
Line == Head(stack)
Reads ==
    /\ stack # <<>>
    /\ stack' = Tail(stack)
    /\ prompt' = TRUE

\* The answer to T.  The call goes on, or fails in a way of its own.
CheckFailed ==
    CASE ServedBy(job.fn) \in {"fsrdp", "fswr"} -> 3
      [] job.fn = "fslkto" -> 0
      [] OTHER -> 1

ReadTerminal ==
    /\ job.pc = "probe" /\ Reads
    /\ LET sid == DecodeInt(Line.body)
       IN  IF Line.k = "T" /\ sid.ok
             THEN /\ api' = [api EXCEPT !.connected = TRUE, !.sid = sid.val]
                  /\ IF job.fn = "qtrm" THEN Return(OK)
                     ELSE Goto("request") /\ UNCHANGED last
             ELSE Return(CheckFailed) /\ UNCHANGED api
    /\ UNCHANGED <<terminal, con, rcv, typed, d58, tube>>

-----------------------------------------------------------------------------
(* fsio.c: the calls *)

Code(cmd) == CASE cmd = "W" -> 0 [] cmd = "EW" -> 1 [] cmd = "EWA" -> 2 [] cmd = "EAU" -> 3

\* The command line of the call.
\* Mutant: the query for data is sent without its timeout of 0.
SentUnlessZero == job.t # NoTimeout /\ job.t # 0
TimeoutSent == job.t # NoTimeout
Command ==
    CASE job.fn = "fswr" ->
           [k |-> "W", body |-> EncodeInts(<<api.sid, Code(job.cmd), Len(job.data)>>)]
      [] ServedBy(job.fn) = "fsrdp" ->
           [k |-> "I", body |-> EncodeInts(IF TimeoutSent THEN <<api.sid, job.t, Grace>>
                                           ELSE <<api.sid>>)]
      [] job.fn = "qtrmpf" -> [k |-> "t", body |-> EncodeInt(job.t)]
      [] job.fn \in {"strmat", "strmpf"} -> [k |-> "C", body |-> EncodeInt(job.t)]
      [] job.fn = "fslkto" -> [k |-> "&", body |-> EncodeInt(job.t)]
      [] OTHER -> [k |-> "|", body |-> EncodeInt(job.t)]

Unsupported == job.fn = "fswr" /\ job.cmd \notin {"W", "EW", "EWA", "EAU"}

\* drainStack() and WRITE; two commands are not answered.
SendRequest ==
    /\ job.pc = "request" /\ ~api.diag58
    /\ d58' = [d58 EXCEPT !.fast = @ /\ ServedBy(job.fn) \notin {"fsrdp", "fswr"}]
    /\ IF job.fn = "fsqvrs" THEN Return(OK) /\ UNCHANGED <<con, prompt, stack>>
       ELSE IF Unsupported THEN Return(4) /\ UNCHANGED <<con, prompt, stack>>
       ELSE /\ \E line \in {Command} : con' = Handled(con, line.k, line.body)
            /\ stack' = <<>>
            /\ prompt' = TRUE
            /\ IF job.fn \in {"fslkto", "fssfm"} THEN Return(OK)
               ELSE Goto("answer") /\ UNCHANGED last
    /\ UNCHANGED <<terminal, api, rcv, typed, tube>>

D58Request ==
    /\ job.pc = "request" /\ api.diag58
    /\ \/ job.fn = "fswr" /\ D58Write
       \/ ServedBy(job.fn) = "fsrdp" /\ D58Read
       \/ /\ job.fn \notin {"fswr", "fsrd", "fsrdp", "fscncl"}
          /\ Return(IF job.fn \in {"fslkto", "fsqvrs"} THEN OK ELSE 1)
          /\ UNCHANGED <<d58, tube>>
    /\ UNCHANGED <<terminal, api, con, rcv, prompt, stack, typed>>

\* The answer of a write: the chunks follow if the screen was granted.
WriteAnswer ==
    /\ job.pc = "answer" /\ job.fn = "fswr" /\ Reads
    /\ LET rc == DecodeInt(Line.body).val
       IN  IF Line.k = "W" /\ rc = 0
             THEN job' = [job EXCEPT !.pc = "chunks", !.got = job.data]
                  /\ UNCHANGED last
             ELSE Return(IF Line.k = "W" /\ rc = 1 THEN 1
                         ELSE IF Line.k = "W" /\ rc = 2 THEN 3 ELSE 2)
    /\ UNCHANGED <<terminal, api, con, rcv, typed, d58, tube>>

WriteChunk ==
    /\ job.pc = "chunks"
    /\ IF Len(job.got) > ChunkSize
         THEN /\ \E chunk \in {EncodeData(SubSeq(job.got, 1, ChunkSize))} :
                   con' = Handled(con, "f", chunk)
              /\ job' = [job EXCEPT !.got = SubSeq(@, ChunkSize + 1, Len(@))]
              /\ UNCHANGED last
         ELSE /\ \E chunk \in {EncodeData(job.got)} : con' = Handled(con, "F", chunk)
              /\ Return(OK)
    /\ UNCHANGED <<terminal, api, rcv, prompt, stack, typed, d58, tube>>

\* The answers of the other calls.
SettingAnswer ==
    /\ job.pc = "answer" /\ Asks(job.fn) /\ Reads
    /\ Return(IF Line.k = Command.k /\ DecodeInt(Line.body).ok THEN OK ELSE 2)
    /\ UNCHANGED <<terminal, api, con, rcv, typed, d58, tube>>

\* The answer of a read: how it ended, or the first chunk of the input.
StateMeant(rc) ==
    CASE rc = 0 -> INPUT_AVAILABLE [] rc = 3 -> TIMEDOUT [] rc = 4 -> NO_INPUT
      [] rc = 2 -> 3 [] OTHER -> 1

\* Mutant: of an input that does not fit, what fits is returned.
ChunkClipped(data) ==
    IF Line.k = "i" THEN job' = [job EXCEPT !.got = @ \o data.data] /\ UNCHANGED last
    ELSE ReturnWith(OK, job.got \o data.data)

InputChunk(data) ==
    IF Line.k = "i"
      THEN /\ job' = [job EXCEPT !.got = @ \o data.data,
                                           !.pc = IF data.ok THEN @ ELSE "rest"]
           /\ UNCHANGED last
      ELSE IF data.ok THEN ReturnWith(OK, job.got \o data.data) ELSE Return(5004)

ReadAnswer ==
    /\ job.pc = "answer" /\ ServedBy(job.fn) = "fsrdp" /\ Reads
    /\ LET first == job.got = <<>>
       IN  CASE Line.k = "typed" -> Return(IF first THEN 2 ELSE 3004)
             [] Line.k = "E" -> Return(IF first THEN StateMeant(DecodeInt(Line.body).val)
                                       ELSE 4004)
             [] Line.k \in {"i", "I"} ->
                  InputChunk(IF Line.body = <<>> THEN [ok |-> TRUE, data |-> <<>>]
                             ELSE DecodeData(Line.body, job.room - Len(job.got)))
             [] OTHER -> Return(4004)
    /\ UNCHANGED <<terminal, api, con, rcv, typed, d58, tube>>

\* After a chunk that did not fit, the others are read and thrown away.
ReadRest ==
    /\ job.pc = "rest" /\ Reads
    /\ CASE Line.k = "typed" -> Return(1004)
         [] Line.k = "i" -> UNCHANGED <<job, last>>
         [] OTHER -> Return(2004)
    /\ UNCHANGED <<terminal, api, con, rcv, typed, d58, tube>>

Program ==
    \/ Call \/ AskTerminal \/ ReadTerminal \/ SendRequest \/ D58Request \/ WriteAnswer
    \/ WriteChunk \/ SettingAnswer \/ ReadAnswer \/ ReadRest
    \/ job.pc = "idle" /\ api.diag58 /\ Fast58
       /\ UNCHANGED <<terminal, api, con, rcv, prompt, stack, typed, job, last>>
    \/ (TimerEnds \/ AttentionEnds \/ ReadModified) /\ UNCHANGED <<terminal, api, con, rcv, prompt, stack, typed>>

Environment ==
    \/ VmRead \/ InputArrives \/ TimesOut \/ GraceEnds \/ NewSession \/ UserTypes \/ LineArrives
    \/ /\ terminal = "diag58" /\ (UserKeys \/ AttentionMissed)
       /\ UNCHANGED <<terminal, api, con, rcv, prompt, stack, typed>>

Next == Program \/ Environment

\* The program runs, the host asks for input, the timer ticks; nobody has to
\* press a key.
Spec ==
    /\ Init /\ [][Next]_vars
    /\ WF_vars(Program) /\ WF_vars(VmRead) /\ WF_vars(TimesOut)

-----------------------------------------------------------------------------
(* Properties *)

\* The line a call is about to read as its answer was sent for this call
\* (CMSconsoleRead() tells answers by their letter only).  When a typed line
\* has taken the place of an answer, it can be an answer to an earlier
\* fullscreen read, but to no other call.
AnswerIsCurrent ==
    Reading /\ stack # <<>> =>
        \/ Head(stack).k = "typed"
        \/ Head(stack).n = job.n
        \/ typed.made > 0 /\ Head(stack).k \in {"E", "i", "I"}

\* A read that has used up an input returns all its bytes, or an error: an
\* input longer than the buffer of the caller is never cut silently
\* (decodeData() in inner_fsrdp()).
InputWhole == last.used # <<>> => last.got = last.used \/ last.rc > 0

\* The console only ever shows a stream as a program wrote it: chunks of two
\* writes are not mixed, and what was begun before the console was replaced is
\* not finished on the new one (__fswr(), isEncodedFsCommand()).
Streams == {r.data : r \in {x \in Requests : x.fn = "fswr"}}
ScreenWhole == con.shown \in Streams \cup {<<>>}

\* An input that was reported as available is still there for the next read,
\* whatever was written in between (fsio.h, FSRDP_RC_INPUT_AVAILABLE).  When a
\* typed line has cut off a transfer this is not so: the call back of the old
\* transfer then clears the new input.
KeptInput == IF api.diag58 THEN tube.keyed # <<>> ELSE rcv.complete /\ ~rcv.locked
AvailableStays ==
    last.told /\ (job.pc = "idle" \/ job.fn = "fswr") =>
        KeptInput \/ typed.made > 0 \/ (~api.diag58 /\ con.sid # api.sid)

\* A read that does not wait for the user without limit (__fsrdp() with a
\* timeout or as a query, __fscncl()).
BoundedRead == job.fn \in {"fsrdp", "fscncl"} /\ job.pc # "idle" /\ job.t # NoTimeout

\* Such a read returns by itself, unless the screen was lost before the
\* console got to it, or the console was replaced meanwhile.
PollsReturn == BoundedRead ~> job.pc = "idle" \/ con.over \/ con.sid # api.sid
================================================================================
