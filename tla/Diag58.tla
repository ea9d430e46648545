-------------------------------- MODULE Diag58 --------------------------------
(***************************************************************************)
(* fsio.c on a 3270 terminal that CP drives itself: the calls become       *)
(* DIAGNOSE X'58' requests.  Once a program has polled for input, the      *)
(* screen is under its control ("poll mode") and attentions are remembered *)
(* until they are read; IND$FILE uses a combined write and read instead,   *)
(* whose input is kept for the read that follows ("fast").                 *)
(*                                                                         *)
(* The assembler routines are external: tube is what they do to the        *)
(* terminal.  An attention raised outside poll mode may be missed.         *)
(***************************************************************************)
EXTENDS Integers, Sequences

CONSTANTS
    Inputs,      \* the fullscreen inputs a user may enter, non-empty
    FastRoom     \* size of fastBuffer

VARIABLES
    d58,     \* [poll, fast, answer]: inPollMode, doFastDiag58, fastBuffer
    tube,    \* [shown, keyed]: the stream written last, the input to be read
    job,     \* the call that is being executed, with the point it has reached
    last     \* how the last call ended

OK == 0
NO_INPUT == -32767
INPUT_AVAILABLE == -32766
TIMEDOUT == -32765
Cancel == -4          \* -42424242 in the code
QueryOnly == -1
QueryData == 0
NoTimeout == 7        \* the largest integer

Clipped(s, n) == IF Len(s) =< n THEN s ELSE SubSeq(s, 1, n)

D58Init ==
    /\ d58 = [poll |-> FALSE, fast |-> FALSE, answer |-> <<>>]
    /\ tube = [shown |-> <<>>, keyed |-> <<>>]

Goto(pc) == job' = [job EXCEPT !.pc = pc]
ReturnWith(rc, got) ==
    /\ job' = [job EXCEPT !.pc = "idle", !.used = <<>>]
    /\ last' = [fn |-> job.fn, rc |-> rc, got |-> got, used |-> job.used,
                told |-> rc = INPUT_AVAILABLE \/ (last.told /\ job.fn = "fswr")]
Return(rc) == ReturnWith(rc, <<>>)

\* d58__qtrm2(): asking for the terminal gives up the control of the screen.
D58Query ==
    /\ d58' = [d58 EXCEPT !.poll = FALSE]
    /\ UNCHANGED tube

\* __fast58()
Fast58 ==
    /\ d58' = IF d58.poll THEN d58 ELSE [d58 EXCEPT !.fast = TRUE, !.answer = <<>>]
    /\ UNCHANGED tube

-----------------------------------------------------------------------------
(* d58__fswr() *)

WritesPut == {"W", "EW", "EWA"}

\* pgt3270() writes and waits for the answer of the terminal.
FastWrite ==
    \/ \E input \in Inputs :
          /\ d58' = [d58 EXCEPT !.answer = Clipped(input, FastRoom)]
          /\ tube' = [shown |-> job.data, keyed |-> <<>>]
          /\ Return(OK)
    \/ /\ d58' = [d58 EXCEPT !.fast = FALSE]
       /\ Return(2)
       /\ UNCHANGED tube

\* Mutant: poll mode writes over an input that waits.
PollWriteAlways ==
    /\ IF job.cmd \in WritesPut
         THEN tube' = [shown |-> job.data, keyed |-> <<>>] /\ Return(OK)
         ELSE Return(4) /\ UNCHANGED tube
    /\ UNCHANGED d58

\* In poll mode nothing is written while an input waits.
PollWrite ==
    /\ \/ job.cmd \notin WritesPut /\ Return(4) /\ UNCHANGED tube
       \/ job.cmd \in WritesPut /\ tube.keyed # <<>> /\ Return(OK) /\ UNCHANGED tube
       \/ /\ job.cmd \in WritesPut /\ tube.keyed = <<>>
          /\ tube' = [tube EXCEPT !.shown = job.data]
          /\ Return(OK)
    /\ UNCHANGED d58

PutWrite ==
    /\ \/ job.cmd \notin WritesPut /\ Return(4) /\ UNCHANGED tube
       \/ /\ job.cmd \in WritesPut
          /\ tube' = [shown |-> job.data, keyed |-> <<>>]
          /\ Return(OK)
       \/ job.cmd \in WritesPut /\ Return(2) /\ UNCHANGED tube
    /\ UNCHANGED d58

D58Write == IF d58.fast THEN FastWrite ELSE IF d58.poll THEN PollWrite ELSE PutWrite

-----------------------------------------------------------------------------
(* d58__inner_fsrdp() *)

PollQuery == job.room = 0 \/ job.t =< 0
PollGetData == job.room > 0 /\ job.t >= 0
PollTimeout == PollGetData /\ job.t > 0 /\ job.t < NoTimeout

FastRead ==
    /\ IF d58.answer = <<>> THEN Return(4) /\ UNCHANGED d58
       ELSE /\ ReturnWith(OK, Clipped(d58.answer, job.room))
            /\ d58' = [d58 EXCEPT !.fast = FALSE, !.answer = <<>>]
    /\ UNCHANGED tube

\* Nothing is waiting: what a poll answers, or what the call waits for.
PollEmpty ==
    \/ PollQuery /\ Return(NO_INPUT)
    \/ ~PollQuery /\ PollTimeout /\ Goto("timer") /\ UNCHANGED last
    \/ ~PollQuery /\ ~PollTimeout /\ Goto("attn") /\ UNCHANGED last

PollRead ==
    /\ \/ tube.keyed = <<>> /\ PollEmpty
       \/ tube.keyed # <<>> /\ PollQuery /\ ~PollGetData /\ Return(INPUT_AVAILABLE)
       \/ tube.keyed # <<>> /\ PollGetData /\ Goto("attn") /\ UNCHANGED last
    /\ UNCHANGED tube

D58Read ==
    IF d58.fast THEN FastRead
    ELSE IF job.t = Cancel
           THEN Return(OK) /\ d58' = [d58 EXCEPT !.poll = FALSE] /\ UNCHANGED tube
    ELSE IF d58.poll THEN PollRead /\ UNCHANGED d58
    ELSE IF ~PollQuery /\ ~PollTimeout
           THEN Goto("get") /\ UNCHANGED <<d58, tube, last>>
    ELSE \/ Return(7004) /\ UNCHANGED <<d58, tube>>
         \/ PollRead /\ d58' = [d58 EXCEPT !.poll = TRUE]

\* Waiting for the attention or the timer, then the second look.
TimerEnds ==
    /\ job.pc = "timer" /\ tube.keyed = <<>>
    /\ Return(TIMEDOUT)
    /\ UNCHANGED <<d58, tube>>

AttentionEnds ==
    /\ job.pc = "timer" /\ tube.keyed # <<>>
    /\ Goto("attn")
    /\ UNCHANGED <<d58, tube, last>>

\* READ MODIFIED after the attention, or the blocking get3270().
ReadModified ==
    /\ job.pc \in {"attn", "get"} /\ tube.keyed # <<>>
    /\ \/ /\ ReturnWith(OK, Clipped(tube.keyed, job.room))
          /\ tube' = [tube EXCEPT !.keyed = <<>>]
       \/ /\ IF job.pc = "attn" THEN Return(1) \/ Return(7002) ELSE Return(4)
          /\ tube' = [tube EXCEPT !.keyed = <<>>]
    /\ UNCHANGED d58

-----------------------------------------------------------------------------
(* The user at the terminal *)

UserKeys ==
    /\ tube.keyed = <<>>
    /\ \E input \in Inputs : tube' = [tube EXCEPT !.keyed = input]
    /\ UNCHANGED <<d58, job, last>>

AttentionMissed ==
    /\ tube.keyed # <<>> /\ ~d58.poll /\ job.pc # "get"
    /\ tube' = [tube EXCEPT !.keyed = <<>>]
    /\ UNCHANGED <<d58, job, last>>
================================================================================
