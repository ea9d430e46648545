----------------------------- MODULE Filter3270 -----------------------------
(***************************************************************************)
(* Tn3270StreamFilter.java: how the filter keeps the host's console and    *)
(* the MECAFF console in step.  CP stops when a page is full (MORE); the   *)
(* filter answers CLEAR for the next page, or ENTER to put CP into HOLDING *)
(* while the pipeline still has lines, and the pipeline's thread sends the *)
(* CLEAR once it has none left.                                            *)
(*                                                                         *)
(* reader   the thread that handles CP's records, one step for each block  *)
(*          that is synchronized on the filter;                            *)
(* pipe     the thread of the pipeline (TextPipeline), here a counter of   *)
(*          queued lines; showing a line may take as long as the user      *)
(*          wants, and pipelineDrained() is called by it;                  *)
(* sender   the threads that send what the user entered.                   *)
(*                                                                         *)
(* CP is external: its reactions are the ones the filter's comments and    *)
(* branches count on.                                                      *)
(***************************************************************************)
EXTENDS Integers, Sequences, FiniteSets

CONSTANTS
    PageLines,  \* lines CP writes before it stops
    MaxLines,   \* bound on the lines CP writes
    MaxWarns,   \* bound on the times CP locks the screen by itself
    MaxInputs   \* bound on the inputs and interrupts of the user

ASSUME PageAssumption == PageLines \in Nat \ {0}
ASSUME BoundsAssumption == MaxLines \in Nat /\ MaxWarns \in Nat /\ MaxInputs \in Nat

VARIABLES
    cp,         \* CP: its state, the lines on its page, what it has done so far
    toCp,       \* keys on their way to CP
    fromCp,     \* records on their way to the filter
    vmstate,    \* CP's state as the filter knows it
    clearState, \* handshake for clearing the screen
    inHolding,  \* the filter has asked for HOLDING
    reader,     \* where the reader is, and the state it is handling
    pipe,       \* where the pipeline's thread is
    queued,     \* lines in the pipeline
    hist        \* history: answered, the pipeline has answered the last HOLDING;
                \* early, it did so a second time

filter == <<vmstate, clearState, inHolding>>
vars == <<cp, toCp, fromCp, filter, reader, pipe, queued, hist>>

Stopped == {"more", "holding"}
CpStates == Stopped \cup {"running", "vmread"}
ClearStates == {"notClearing", "clearRequested", "cleared"}
Keys == {"enter", "clear", "input"}
Records == CpStates \cup {"line", "erase"}
AtRecord == [at |-> "record"]
At(label, new) == [at |-> label, new |-> new]

Init ==
    /\ cp = [state |-> "running", page |-> 0, lines |-> 0, warns |-> 0, inputs |-> 0]
    /\ toCp = <<>> /\ fromCp = <<>>
    /\ vmstate = "unknown" /\ clearState = "notClearing" /\ inHolding = FALSE
    /\ reader = AtRecord
    /\ pipe = "free" /\ queued = 0
    /\ hist = [answered |-> FALSE, early |-> FALSE]

-----------------------------------------------------------------------------
(* CP *)

Says(records) == fromCp' = fromCp \o records

CpLine ==
    /\ cp.state = "running" /\ cp.page < PageLines /\ cp.lines < MaxLines
    /\ cp' = [cp EXCEPT !.page = @ + 1, !.lines = @ + 1]
    /\ Says(<<"line">>)
    /\ UNCHANGED toCp

\* The page is full, the guest reads, or a warning locks the screen.
CpState ==
    /\ cp.state = "running"
    /\ \/ cp.page = PageLines /\ cp' = [cp EXCEPT !.state = "more"]
       \/ cp' = [cp EXCEPT !.state = "vmread"]
       \/ cp.warns < MaxWarns
          /\ cp' = [cp EXCEPT !.state = "holding", !.warns = @ + 1]
    /\ Says(<<cp'.state>>)
    /\ UNCHANGED toCp

\* CLEAR erases the screen and ends a stop; ENTER makes MORE a HOLDING; a line
\* or an ENTER ends a read.
CpKey ==
    /\ toCp # <<>>
    /\ toCp' = Tail(toCp)
    /\ CASE Head(toCp) = "clear" ->
              /\ cp' = [cp EXCEPT !.page = 0,
                                  !.state = IF @ \in Stopped THEN "running" ELSE @]
              /\ Says(<<"erase", cp'.state>>)
         [] Head(toCp) # "clear" /\ cp.state = "more" ->
              /\ cp' = [cp EXCEPT !.state = "holding"]
              /\ Says(<<"holding">>)
         [] Head(toCp) # "clear" /\ cp.state = "vmread" ->
              /\ cp' = [cp EXCEPT !.state = "running"]
              /\ Says(<<"running">>)
         [] OTHER -> UNCHANGED <<cp, fromCp>>

Cp == /\ CpLine \/ CpState \/ CpKey
      /\ UNCHANGED <<filter, reader, pipe, queued, hist>>

-----------------------------------------------------------------------------
(* Sending keys *)

Send(key) == toCp' = Append(toCp, key)

\* sendClearCmd(): not while one is under way.
ClearUnderway == clearState = "clearRequested"

SendAnotherClear == Send("clear") /\ clearState' = "clearRequested"
SendClearCmd == IF ClearUnderway THEN UNCHANGED <<toCp, clearState>>
                ELSE Send("clear") /\ clearState' = "clearRequested"

-----------------------------------------------------------------------------
(* The reader: handleHostString() and the events it raises *)

Reads(record) == /\ reader = AtRecord
                 /\ fromCp # <<>> /\ Head(fromCp) = record
                 /\ fromCp' = Tail(fromCp)

AppendLine ==
    /\ Reads("line")
    /\ queued' = queued + 1
    /\ UNCHANGED <<cp, toCp, filter, reader, pipe, hist>>

ScreenCleared ==
    /\ Reads("erase")
    /\ clearState' = "cleared"
    /\ UNCHANGED <<cp, toCp, vmstate, inHolding, reader, pipe, queued, hist>>

\* What a new state asks for, before it is recorded.
LocksIgnored(new) == IF new = "more" THEN "ask" ELSE "update"
Reaction(new) == CASE new = "more" -> "ask"
                   [] new = "holding" /\ ~inHolding -> "clear"
                   [] OTHER -> "update"

VmStateArrived ==
    \E s \in CpStates :
      /\ Reads(s)
      /\ clearState' = IF clearState = "cleared" THEN "notClearing" ELSE clearState
      /\ reader' = IF s = vmstate THEN AtRecord ELSE At(Reaction(s), s)
      /\ UNCHANGED <<cp, toCp, vmstate, inHolding, pipe, queued, hist>>

\* hasBacklog(): FALSE once the pipeline is empty, TRUE when it does not move.
NeverBacklog == FALSE
Backlog == queued > 0

HasBacklog ==
    /\ reader.at = "ask"
    /\ reader' = At(IF Backlog THEN "hold" ELSE "clear", reader.new)
    /\ UNCHANGED <<cp, toCp, fromCp, filter, pipe, queued, hist>>

HoldVmOutput ==
    /\ reader.at = "hold"
    /\ Send("enter")
    /\ inHolding' = TRUE
    /\ reader' = At("update", reader.new)
    /\ UNCHANGED <<cp, fromCp, vmstate, clearState, pipe, queued, hist>>

ClearVmOutput ==
    /\ reader.at = "clear"
    /\ SendClearCmd
    /\ reader' = At("update", reader.new)
    /\ UNCHANGED <<cp, fromCp, vmstate, inHolding, pipe, queued, hist>>

HoldingAfter == inHolding
HoldingAfterUpdate == inHolding /\ vmstate # "holding"

VmStateUpdated ==
    /\ reader.at = "update"
    /\ vmstate' = reader.new
    /\ inHolding' = HoldingAfterUpdate
    /\ reader' = AtRecord
    /\ hist' = [hist EXCEPT !.answered = @ /\ reader.new # "holding"]
    /\ UNCHANGED <<cp, toCp, fromCp, clearState, pipe, queued>>

Reader == \/ AppendLine \/ ScreenCleared \/ VmStateArrived
          \/ HasBacklog \/ HoldVmOutput \/ ClearVmOutput \/ VmStateUpdated

-----------------------------------------------------------------------------
(* The pipeline's thread *)

\* A line is shown and leaves the queue.
HasLine == pipe = "free" /\ queued > 0

Show ==
    /\ HasLine
    /\ queued' = queued - 1
    /\ pipe' = IF queued = 1 THEN "drained" ELSE "free"
    /\ UNCHANGED <<cp, toCp, fromCp, filter, reader, hist>>

\* The pipeline has been empty for a while.
Idle ==
    /\ pipe = "free" /\ queued = 0
    /\ pipe' = "drained"
    /\ UNCHANGED <<cp, toCp, fromCp, filter, reader, queued, hist>>

\* pipelineDrained(); once it waits it looks at the state of CP only.
PipelineDrained ==
    /\ \/ pipe = "drained" /\ ~inHolding
          /\ pipe' = "free"
          /\ UNCHANGED <<toCp, clearState, hist>>
       \/ pipe = "drained" /\ inHolding /\ vmstate # "holding"
          /\ pipe' = "waiting"
          /\ UNCHANGED <<toCp, clearState, hist>>
       \/ (pipe = "waiting" \/ (pipe = "drained" /\ inHolding)) /\ vmstate = "holding"
          /\ pipe' = "free"
          /\ SendClearCmd
          /\ hist' = IF ClearUnderway THEN hist
                     ELSE [answered |-> TRUE, early |-> hist.early \/ hist.answered]
    /\ UNCHANGED <<cp, fromCp, vmstate, inHolding, reader, queued>>

Pipe == Show \/ Idle \/ PipelineDrained

-----------------------------------------------------------------------------
(* The user *)

\* A line of input, when CP's last known state takes one (appendTextLine), and
\* the interrupt keys of the console, which send a line in any state.
SendInput ==
    /\ cp.inputs < MaxInputs
    /\ cp' = [cp EXCEPT !.inputs = @ + 1]
    /\ Send("input")
    /\ UNCHANGED <<fromCp, filter, reader, pipe, queued, hist>>

Next == Cp \/ Reader \/ Pipe \/ SendInput

\* CP answers, the threads run, and the user confirms what the console shows.
Fairness == WF_vars(Cp) /\ WF_vars(Reader) /\ WF_vars(Pipe)

Spec == Init /\ [][Next]_vars
FairSpec == Spec /\ Fairness
-----------------------------------------------------------------------------
(* Properties *)

Count(s, x) == Cardinality({i \in DOMAIN s : s[i] = x})

\* The state of the handshake says exactly whether a CLEAR, or the erased
\* screen it leads to, is under way, and there is never more than one: the
\* pipeline's thread and the reader do not both answer the same stop.
OneClear ==
    Count(toCp, "clear") + Count(fromCp, "erase") = IF ClearUnderway THEN 1 ELSE 0

\* The flow regulation works: as long as CP does not lock the screen by
\* itself, no more than two pages of lines are on their way to the console;
\* not so once one HOLDING was answered twice, which lets CP write a page
\* nobody asked for.
BacklogBounded ==
    cp.warns = 0 /\ ~hist.early => queued + Count(fromCp, "line") =< 2 * PageLines

\* CP is never left in MORE or HOLDING: the reader or the pipeline's thread
\* sends it the CLEAR it waits for.
HostGoesOn == cp.state \in Stopped ~> cp.state \notin Stopped

\* Every line is shown in the end, unless the pipeline's thread once answered
\* the same HOLDING twice, between vmStateArrived() and vmStateUpdated().
LinesShown == queued > 0 ~> queued = 0 \/ hist.early
=============================================================================
