------------------------------- MODULE Console -------------------------------
(***************************************************************************)
(* Vm3270Console.java: the console between the 3270 terminal and the host. *)
(* Four threads call it, every method body holds the console's monitor:    *)
(*   pipe     delivers output lines (appendHostLine) and may wait in More; *)
(*   host     handles what the host sends (setInputState, the fullscreen   *)
(*            calls, endCurrentSession) and may wait, too;                 *)
(*   the terminal's reader hands in what the user typed;                   *)
(*   the ticker runs onTimerTick (1/10 s) and onSessionTick (1 s).         *)
(* With a 3270 connection pipe and host are two threads (Pipelined); with  *)
(* a 3215 connection they are one, and the interrupt keys drain output.    *)
(*                                                                         *)
(* Host output lines are numbered, each takes one screen row.  The program *)
(* on the host is modelled by what it waits for (prog), as the functions   *)
(* of cms/fsio.c drive the encoded transport.                              *)
(***************************************************************************)
EXTENDS Integers, Sequences

CONSTANTS
    OutZoneRows,  \* rows of the output area
    Pipelined,    \* BOOLEAN: 3270 connection, lines have a thread of their own
    MaxLines,     \* bound on the lines the host writes
    MaxSessions,  \* bound on the ends of a VM session
    SessionTicks, \* 3 in the code: seconds from its end to the reset
    SplitInputs,  \* BOOLEAN: fullscreen input may arrive in two packets
    Timeouts,     \* the positive timeouts programs use, in 1/10 s
    GracePeriods, \* the grace periods they use
    NoTimeout     \* FsRcvNOTIMEOUT, the largest there is

ASSUME RowsAssumption == OutZoneRows \in Nat /\ OutZoneRows >= 2
ASSUME ConnectionAssumption == Pipelined \in BOOLEAN /\ SplitInputs \in BOOLEAN
ASSUME BoundsAssumption == MaxLines \in Nat /\ MaxSessions \in Nat
ASSUME TicksAssumption == SessionTicks \in Nat \ {0}
ASSUME TimersAssumption == /\ Timeouts \subseteq Nat \ {0}
                           /\ GracePeriods \subseteq Nat \ {0}
                           /\ NoTimeout \in Nat \ {0}
                           /\ \A t \in Timeouts : t =< NoTimeout

VARIABLES
    con,    \* the console's fields for serial output
    fs,     \* its fields for fullscreen input
    thread, \* where the threads "pipe" and "host" are
    prog,   \* what the program on the host waits for
    typed,  \* TRUE while the terminal has sent only the first part of an input
    hist    \* history: lines arrived, sessions ended; upset, once a state was
            \* restored or reset over a fullscreen state; cancelled, from the
            \* cancel of a locked read to the next read that is not refused

vars == <<con, fs, thread, prog, typed, hist>>

Threads == {"pipe", "host"}
FsStates == {"FSIn", "FSOut"}
ReadStates == {"VmRead", "CpRead", "PwRead"}
States == {"Initial", "Running", "More"} \cup ReadStates \cup FsStates

\* Where a thread is, with the local variables it keeps there.
Idle == [at |-> "idle"]
InMore(old, next) == [at |-> "more", old |-> old, next |-> next]
First(new) == [at |-> "first", new |-> new]
Setting(new) == [at |-> "set", new |-> new]
InCycle(left) == [at |-> "cycle", left |-> left]

Cancel == -2     \* -42424242 in the code
Query == -1      \* any other negative timeout
WaitCycles == 2

Init ==
    /\ con = [state |-> "Initial", flow |-> FALSE, remaining |-> OutZoneRows,
              since |-> FALSE, overwritten |-> TRUE, backlog |-> <<>>,
              consuming |-> FALSE, drain |-> FALSE, ticks |-> 0,
              waiting |-> {}, shown |-> <<>>]
    /\ fs = [data |-> "empty", complete |-> FALSE, locked |-> TRUE,
             timeout |-> -1, period |-> -1, grace |-> -1,
             lockValue |-> 0, toFs |-> FALSE]
    /\ thread = [t \in Threads |-> Idle]
    /\ prog = "none"
    /\ typed = FALSE
    /\ hist = [arrived |-> 0, sessions |-> 0, upset |-> FALSE, cancelled |-> FALSE]

-----------------------------------------------------------------------------
(* What the methods do to the console's fields *)

Redrawn(c) == [c EXCEPT !.overwritten = TRUE]
Notified(c) == [c EXCEPT !.waiting = {}]

\* consumeFsBacklog(): lines that came in during fullscreen are shown as far
\* as the page has room for them, and then the user must confirm them.
ConsumeFsBacklog(c) ==
    LET room == IF c.remaining > 1 THEN c.remaining - 1 ELSE 0
        n == IF room < Len(c.backlog) THEN room ELSE Len(c.backlog)
        d == [c EXCEPT !.state = "Running", !.consuming = FALSE]
    IN  IF n = 0 THEN d
        ELSE Redrawn([d EXCEPT !.state = "More", !.consuming = TRUE,
                               !.shown = @ \o SubSeq(c.backlog, 1, n),
                               !.backlog = SubSeq(@, n + 1, Len(@)),
                               !.remaining = @ - n,
                               !.since = TRUE])

\* checkForEnterMoreState() by thread t, up to its wait().
EnterMore(c, t, added) ==
    IF c.flow \/ c.state = "Initial" THEN c
    ELSE LET d == [c EXCEPT !.remaining = @ - added, !.since = @ \/ added > 0]
         IN  IF d.remaining >= 2 THEN d
             ELSE Redrawn([d EXCEPT !.state = "More", !.waiting = @ \cup {t}])

\* checkForLeaveMoreState() after an echo of that many rows, 0 for no echo.
EchoCounted(echoed) == OutZoneRows - (echoed - 1)
RowsLeft(echoed) == IF echoed > 1 THEN OutZoneRows - (echoed - 1) ELSE OutZoneRows

Answered(c, echoed) ==
    ConsumeFsBacklog([c EXCEPT !.remaining = RowsLeft(echoed), !.since = FALSE])

NobodyTold(c, echoed) == Answered(c, echoed)
LeaveMore(c, echoed) == Notified(Answered(c, echoed))

\* When appendHostLine() keeps a line back for later.
KeepsBackIfOwned == con.state \in FsStates \/ fs.toFs
KeepsBack == con.state \in FsStates \/ con.backlog # <<>> \/ fs.toFs

\* appendHostLine() by thread t: the text is one numbered line, or none for
\* the console's own empty line.
AppendHostLine(t, text) ==
    IF KeepsBack THEN [con EXCEPT !.backlog = @ \o text]
    ELSE IF con.drain THEN con
    ELSE EnterMore(Redrawn([con EXCEPT !.shown = @ \o text]), t, 1)

\* Thread t goes on with next, from inside wait() if it has to wait.
GoOn(t, next) ==
    thread' = [thread EXCEPT ![t] = IF t \in con'.waiting THEN InMore(con.state, next)
                                                           ELSE next]

-----------------------------------------------------------------------------
(* Output lines and the More state *)

\* A 3215 connection has a single thread for everything the host sends.
Free(t) == /\ thread[t] = Idle
           /\ Pipelined \/ \A u \in Threads : thread[u] = Idle

\* On a 3215 connection a line cancels the request of a fullscreen read.
HostLine ==
    /\ Free("pipe")
    /\ hist.arrived < MaxLines
    /\ hist' = [hist EXCEPT !.arrived = @ + 1]
    /\ con' = AppendHostLine("pipe", <<hist.arrived + 1>>)
    /\ GoOn("pipe", Idle)
    /\ prog' = IF prog = "wanted" /\ ~Pipelined THEN "hung" ELSE prog
    /\ UNCHANGED <<fs, typed>>

\* The rest of checkForEnterMoreState() in a thread that was notified: wait
\* again, or restore the state found on entry, whatever it is by now.
LeavesMore(t) ==
    /\ thread[t].at = "more" /\ t \notin con.waiting
    /\ IF con.remaining < 2
         THEN /\ con' = [con EXCEPT !.waiting = @ \cup {t}]
              /\ UNCHANGED <<thread, hist>>
         ELSE /\ con' = Redrawn([con EXCEPT !.state = thread[t].old])
              /\ thread' = [thread EXCEPT ![t] = @.next]
              /\ hist' = [hist EXCEPT !.upset = @ \/ con.state \in FsStates
                                                   \/ thread[t].old \in FsStates]
    /\ UNCHANGED <<fs, prog, typed>>

-----------------------------------------------------------------------------
(* The host: states of the VM, end of a session *)

\* setInputState(): the new state is worked out before the monitor is taken.
\* A prompt is not a state when it asks for a fullscreen read or for the next
\* chunk of an input (handleHostString, lines 291-302).
InputState(s) ==
    /\ Free("host")
    /\ \/ s = "Running"
       \/ s = "PwRead" /\ prog \in {"none", "password"}
       \/ s \in {"VmRead", "CpRead"} /\ prog \in {"none", "hung", "waiting"}
    /\ prog' = IF s = "PwRead" THEN "password" ELSE IF prog = "password" THEN "none"
                                                                         ELSE prog
    /\ LET new == IF s = "Running" /\ con.state = "More" THEN "More" ELSE s
       IN  thread' = [thread EXCEPT !["host"] =
                        IF con.state = "Initial" THEN First(new) ELSE Setting(new)]
    /\ UNCHANGED <<con, fs, typed, hist>>

FirstLine ==
    /\ thread["host"].at = "first"
    /\ con' = AppendHostLine("host", <<>>)
    /\ GoOn("host", Setting(thread["host"].new))
    /\ UNCHANGED <<fs, prog, typed, hist>>

SetInputState ==
    /\ thread["host"].at = "set"
    /\ LET new == thread["host"].new
       IN  con' = IF con.state \in FsStates \cup {new} THEN con
                  ELSE IF new \notin ReadStates THEN Redrawn([con EXCEPT !.state = new])
                  ELSE Redrawn(Notified([con EXCEPT !.state = new, !.drain = FALSE,
                                                    !.remaining = OutZoneRows]))
    /\ thread' = [thread EXCEPT !["host"] = Idle]
    /\ UNCHANGED <<fs, prog, typed, hist>>

\* endCurrentSession(TRUE): what ran in the session is gone, but a prompt that
\* follows still starts a read it asked for, or takes chunks meant for it.
EndCurrentSession ==
    /\ Free("host")
    /\ con.state # "Initial" /\ hist.sessions < MaxSessions
    /\ hist' = [hist EXCEPT !.sessions = @ + 1,
                            !.upset = @ \/ con.state \in FsStates \/ prog # "none"]
    /\ prog' = IF prog = "fetching" \/ (prog = "wanted" /\ Pipelined) THEN prog ELSE "none"
    /\ con' = Redrawn(EnterMore([con EXCEPT !.remaining = 0, !.ticks = SessionTicks],
                                "host", 0))
    /\ GoOn("host", Idle)
    /\ UNCHANGED <<fs, typed>>

-----------------------------------------------------------------------------
(* The host: fullscreen calls *)

ProgramMayCall == Free("host") /\ prog = "none" /\ con.state # "Initial"

\* acquireFullScreen(): granted, refused, or the user has to confirm the
\* output on the screen first.
AcquireFullScreen(requiresPrevious) ==
    LET owned == con.state \in FsStates
        lost == requiresPrevious /\ (con.overwritten \/ con.since)
    IN  /\ ProgramMayCall
        /\ IF owned \/ lost \/ ~con.since
             THEN /\ con' = [con EXCEPT !.flow = FALSE,
                                        !.state = IF owned \/ lost THEN @ ELSE "FSOut"]
                  /\ prog' = IF owned \/ ~lost THEN "acquired" ELSE "none"
                  /\ UNCHANGED thread
             ELSE /\ con' = Redrawn([con EXCEPT !.flow = FALSE, !.state = "More"])
                  /\ thread' = [thread EXCEPT !["host"] = InCycle(WaitCycles)]
                  /\ UNCHANGED prog
        /\ UNCHANGED <<fs, typed, hist>>

\* One turn of its loop, 20 ms later at the most.
MoreCycle ==
    /\ thread["host"].at = "cycle"
    /\ LET left == thread["host"].left
       IN  IF con.state = "More" \/ left > 1
             THEN /\ thread' = [thread EXCEPT !["host"] =
                                  InCycle(IF con.state = "More" THEN WaitCycles ELSE left - 1)]
                  /\ UNCHANGED <<con, prog>>
             ELSE /\ thread' = [thread EXCEPT !["host"] = Idle]
                  /\ con' = [con EXCEPT !.state = "FSOut"]
                  /\ prog' = "acquired"
    /\ UNCHANGED <<fs, typed, hist>>

WriteFullscreen ==
    /\ Free("host") /\ prog = "acquired"
    /\ con' = IF con.state \in FsStates
                THEN [con EXCEPT !.overwritten = FALSE, !.since = FALSE]
                ELSE con
    /\ prog' = "none"
    /\ UNCHANGED <<fs, thread, typed, hist>>

\* setFsLockTimeoutValue()
SetFsLockTimeoutValue(value) ==
    /\ ProgramMayCall
    /\ fs' = [fs EXCEPT !.lockValue = value, !.toFs = @ /\ value > 0]
    /\ con' = IF value < 1 THEN ConsumeFsBacklog(con) ELSE con
    /\ UNCHANGED <<thread, prog, typed, hist>>

SetFlowMode(flowMode) ==
    /\ ProgramMayCall
    /\ con' = [con EXCEPT !.flow = flowMode]
    /\ UNCHANGED <<fs, thread, prog, typed, hist>>

\* A change of the visual attributes calls redrawScreen() in any state.
RedrawScreen ==
    /\ ProgramMayCall
    /\ con' = Redrawn(con)
    /\ UNCHANGED <<fs, thread, prog, typed, hist>>

\* mayReadFullScreen(): refused if the screen was overwritten, else the read
\* follows with the next prompt.
MayReadFullScreen ==
    /\ ProgramMayCall
    /\ ~con.overwritten
    /\ prog' = "wanted"
    /\ UNCHANGED <<con, fs, thread, typed, hist>>

\* readFullScreen(): what was received after the last transfer counts.
InputAvailable == fs.complete /\ ~fs.locked
Prepared == IF fs.locked
              THEN [fs EXCEPT !.data = "empty", !.complete = FALSE, !.locked = FALSE]
              ELSE fs
GraceForgotten == -1
GraceAfterInput == IF fs.toFs THEN fs.period ELSE -1

StaysUnlocked == [Prepared EXCEPT !.timeout = -1, !.grace = GraceAfterInput]
SentAtOnce == [Prepared EXCEPT !.timeout = -1, !.grace = GraceAfterInput, !.locked = TRUE]

GraceRunsOn(timeout, gracePeriod) ==
    [Prepared EXCEPT !.timeout = timeout, !.period = gracePeriod,
                     !.toFs = fs.lockValue > 0 /\ fs.lockValue = timeout]
Waiting(timeout, gracePeriod) ==
    [Prepared EXCEPT !.timeout = timeout, !.period = gracePeriod, !.grace = -1,
                     !.toFs = fs.lockValue > 0 /\ fs.lockValue = timeout]

ReadFullScreen(timeout, gracePeriod) ==
    /\ Free("host") /\ prog = "wanted"
    /\ \/ con.overwritten                          \* no answer at all
          /\ prog' = "hung"
          /\ UNCHANGED <<con, fs>>
       \/ ~con.overwritten /\ timeout = Cancel
          /\ fs' = [Prepared EXCEPT !.timeout = -1, !.grace = -1]
          /\ con' = Redrawn(ConsumeFsBacklog(con))
          /\ prog' = "none"
       \/ ~con.overwritten /\ timeout = Query
          /\ fs' = [Prepared EXCEPT !.timeout = -1, !.period = gracePeriod,
                                    !.grace = gracePeriod]
          /\ prog' = "none"
          /\ UNCHANGED con
       \/ ~con.overwritten /\ timeout >= 0 /\ InputAvailable
          /\ fs' = SentAtOnce
          /\ prog' = "fetching"
          /\ UNCHANGED con
       \/ ~con.overwritten /\ timeout = 0 /\ ~InputAvailable
          /\ fs' = [Prepared EXCEPT !.timeout = -1, !.grace = fs.period]
          /\ prog' = "none"
          /\ UNCHANGED con
       \/ ~con.overwritten /\ timeout > 0 /\ ~InputAvailable
          /\ fs' = Waiting(timeout, gracePeriod)
          /\ con' = [con EXCEPT !.state = "FSIn"]
          /\ prog' = "waiting"
    /\ hist' = [hist EXCEPT !.cancelled = IF con.overwritten THEN @
                                          ELSE timeout = Cancel /\ fs.toFs]
    /\ UNCHANGED <<thread, typed>>

\* transferCompleted(): the host has taken the last chunk of an input.
BufferFreed == [fs EXCEPT !.data = "empty", !.complete = FALSE]

TransferCompleted ==
    /\ Free("host") /\ prog = "fetching"
    /\ fs' = BufferFreed
    /\ con' = IF fs.toFs THEN con ELSE ConsumeFsBacklog(con)
    /\ prog' = "none"
    /\ UNCHANGED <<thread, typed, hist>>

-----------------------------------------------------------------------------
(* The terminal: processBytesFromTerminal() *)

Serial == con.state \notin FsStates

\* A line sent to the host answers whatever reads there, a fullscreen read too.
SendInput == prog' = IF prog \in {"password", "hung", "waiting"} THEN "none" ELSE prog

\* The console acts on a key and draws the screen or the input zone anew; a
\* packet in this mode is taken for a whole input.
Key(c) == /\ con' = Redrawn(c)
          /\ typed' = FALSE
          /\ UNCHANGED <<fs, thread>>

PfCommand ==
    /\ con.state \in {"Running", "VmRead"}
    /\ SendInput
    /\ Key(LeaveMore(con, 1))
    /\ UNCHANGED hist

Enter ==
    /\ Serial
    /\ \/ con.state = "More" /\ UNCHANGED prog /\ Key(LeaveMore(con, 0))
       \/ con.state # "More" /\ SendInput /\ Key(LeaveMore(con, 1))
    /\ UNCHANGED hist

InterruptsEnabled == Serial /\ ~con.consuming /\ con.ticks = 0

\* PA1, and in the More state PA2 and PA3: the rest of the output is dropped,
\* but only a 3215 connection does so.
Interrupt ==
    /\ InterruptsEnabled
    /\ Key(Notified([con EXCEPT !.drain = ~Pipelined]))
    /\ UNCHANGED <<prog, hist>>

\* PA3 outside the More state: sendPF03() never asks for draining.
SendPF03 ==
    /\ InterruptsEnabled /\ con.state # "More"
    /\ Key(Notified([con EXCEPT !.drain = FALSE]))
    /\ UNCHANGED <<prog, hist>>

\* Paging, command recall and all other keys.
OtherKey ==
    /\ Serial
    /\ Key(con)
    /\ UNCHANGED <<prog, hist>>

\* Fullscreen input arrives in one packet or in two, and goes to the host at
\* once if the program already waits for it.
Joined(part) == IF fs.data = "empty" /\ part # "tail" THEN part
                ELSE IF fs.data = "head" /\ part = "tail" THEN "whole"
                ELSE "garbled"

FullscreenInput(part) ==
    /\ ~Serial
    /\ typed = (part = "tail") /\ (part = "head" => SplitInputs)
    /\ typed' = (part = "head")
    /\ LET received == [fs EXCEPT !.data = Joined(part)]
           completed == [received EXCEPT !.complete = TRUE, !.locked = FALSE]
           sends == fs.timeout >= 0 /\ con.state = "FSIn"
       IN  IF fs.complete THEN UNCHANGED <<fs, prog>>
           ELSE IF part = "head" THEN fs' = received /\ UNCHANGED prog
           ELSE IF ~sends THEN fs' = completed /\ UNCHANGED prog
           ELSE /\ fs' = [completed EXCEPT !.timeout = -1, !.grace = GraceAfterInput,
                                           !.locked = TRUE]
                /\ prog' = "fetching"
    /\ UNCHANGED <<con, thread, hist>>

-----------------------------------------------------------------------------
(* The ticker *)

SessionTick ==
    /\ con.ticks > 0
    /\ con' = IF con.ticks > 1 THEN [con EXCEPT !.ticks = @ - 1]
              ELSE Notified([con EXCEPT !.ticks = 0, !.remaining = OutZoneRows,
                                        !.since = FALSE, !.state = "Running"])
    /\ hist' = IF con.ticks > 1 THEN hist
               ELSE [hist EXCEPT !.upset = @ \/ con.state \in FsStates]
    /\ UNCHANGED <<fs, thread, prog, typed>>

GraceEnds == fs.grace = 1
TimeoutRuns == fs.timeout >= 0 /\ fs.timeout # NoTimeout
TimesOut == TimeoutRuns /\ fs.timeout =< 1

TimeoutKept == fs.timeout
TimeoutAfterTick == IF TimesOut THEN -1 ELSE IF TimeoutRuns THEN fs.timeout - 1
                                              ELSE fs.timeout

TimerTick ==
    /\ fs.grace > 0 \/ TimeoutRuns
    /\ con' = IF GraceEnds THEN ConsumeFsBacklog(con) ELSE con
    /\ fs' = [fs EXCEPT !.timeout = TimeoutAfterTick,
                        !.grace = IF TimesOut THEN fs.period
                                  ELSE IF GraceEnds THEN -1
                                  ELSE IF @ > 0 THEN @ - 1 ELSE @,
                        !.toFs = @ /\ ~GraceEnds]
    /\ prog' = IF TimesOut /\ prog = "waiting" THEN "none" ELSE prog
    /\ UNCHANGED <<thread, typed, hist>>

-----------------------------------------------------------------------------
Reads == \E timeout \in Timeouts \cup {Cancel, Query, 0}, g \in GracePeriods :
            ReadFullScreen(timeout, g)

Host == \/ \E s \in ReadStates \cup {"Running"} : InputState(s)
        \/ FirstLine \/ SetInputState \/ EndCurrentSession

Fullscreen == \/ \E r \in BOOLEAN : AcquireFullScreen(r)
              \/ MoreCycle \/ WriteFullscreen
              \/ \E v \in Timeouts \cup {0} : SetFsLockTimeoutValue(v)
              \/ \E b \in BOOLEAN : SetFlowMode(b)
              \/ RedrawScreen \/ MayReadFullScreen \/ Reads \/ TransferCompleted

User == \/ PfCommand \/ Enter \/ Interrupt \/ SendPF03 \/ OtherKey
        \/ \E part \in {"head", "tail", "whole"} : FullscreenInput(part)

Ticker == SessionTick \/ TimerTick

Lines == HostLine \/ \E t \in Threads : LeavesMore(t)

Next == Lines \/ Host \/ Fullscreen \/ User \/ Ticker

Fairness == /\ SF_vars(Enter)
            /\ \A t \in Threads : WF_vars(LeavesMore(t))
            /\ WF_vars(TimerTick)

Spec == Init /\ [][Next]_vars
FairSpec == Spec /\ Fairness
-----------------------------------------------------------------------------
(* Properties *)

ConType == [state : States, flow : BOOLEAN, remaining : Int, since : BOOLEAN,
            overwritten : BOOLEAN, backlog : Seq(Nat), consuming : BOOLEAN,
            drain : BOOLEAN, ticks : 0 .. SessionTicks, waiting : SUBSET Threads,
            shown : Seq(Nat)]
FsType == [data : {"empty", "head", "whole", "garbled"}, complete : BOOLEAN,
           locked : BOOLEAN, timeout : Int, period : Int, grace : Int,
           lockValue : Nat, toFs : BOOLEAN]
HistType == [arrived : 0 .. MaxLines, sessions : 0 .. MaxSessions,
             upset : BOOLEAN, cancelled : BOOLEAN]
Nexts == {Idle} \cup {Setting(s) : s \in States}
Places == Nexts \cup {First(s) : s \in States} \cup {InCycle(n) : n \in 1 .. WaitCycles}
          \cup {InMore(old, next) : old \in States, next \in Nexts}
Progs == {"none", "acquired", "wanted", "waiting", "fetching", "hung", "password"}

TypeOK ==
    /\ con \in ConType /\ con.remaining =< OutZoneRows
    /\ fs \in FsType
    /\ thread \in [Threads -> Places]
    /\ prog \in Progs
    /\ typed \in BOOLEAN
    /\ hist \in HistType

\* A thread sleeps in the More state only while there is no room on the page:
\* whatever makes room also wakes it.
NoLostWakeup == con.waiting # {} => con.remaining < 2

\* Lines reach the screen in the order they arrived, whether they went there
\* directly or through the backlog, and only an interrupt loses any.
AllLines(c) == c.shown \o c.backlog
LinesKept ==
    /\ \A i, j \in DOMAIN AllLines(con) : i < j => AllLines(con)[i] < AllLines(con)[j]
    /\ Pipelined => Len(AllLines(con)) = hist.arrived

\* The console has a read pending exactly while the program on the host waits
\* for an answer: it is answered once, by the input or by the timer.
OneAnswerPerRead == hist.upset \/ (prog = "waiting" <=> fs.timeout >= 0)

\* An input on its way to the host is complete and is not sent again.
TransferFrozen == prog = "fetching" => fs.complete /\ fs.locked

\* While a program waits for input, the screen it wrote is the one shown.
FSInUntouched ==
    prog = "waiting" =>
        hist.upset \/ (con.state = "FSIn" /\ ~con.overwritten)

\* While lines are held back for a program, a timer counts down to the end of
\* that, or the read without a timeout that holds them is still the one the
\* program waits in and the user can answer.  It does not hold of a locked
\* read that was cancelled, which stops both timers and keeps the lock (lines
\* 641-648), nor, for the read without a timeout, once the fullscreen state
\* was lost.
AnswerableRead == fs.timeout = NoTimeout /\ prog = "waiting" /\ con.state = "FSIn"
LockEnds ==
    fs.toFs => \/ TimeoutRuns \/ fs.grace > 0
               \/ AnswerableRead
               \/ hist.cancelled
               \/ hist.upset /\ fs.timeout = NoTimeout

\* Lines are not held back for ever: a lock ends, or the program reads again,
\* or it is a cancelled read or one without a timeout that holds them.
LockIsLeft ==
    fs.toFs ~> \/ ~fs.toFs \/ prog = "wanted"
               \/ fs.timeout = NoTimeout \/ hist.cancelled

\* Nobody waits for ever in the More state, if the user goes on pressing ENTER
\* and notified threads run, unless a fullscreen program takes the screen.
MoreIsLeft ==
    \A t \in Threads : thread[t].at = "more" ~> thread[t].at # "more" \/ ~Serial
=============================================================================
