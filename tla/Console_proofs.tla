--------------------------- MODULE Console_proofs ---------------------------
(***************************************************************************)
(* Proofs about Vm3270Console for every page size, every set of timeouts   *)
(* and grace periods, with and without a pipeline, and every bound.        *)
(***************************************************************************)
EXTENDS Console, SequenceTheorems, TLAPS

\* A read that waits has no grace period running beside it: the end of a
\* grace period would give the screen back to the console.
GraceIsOff == hist.upset \/ (fs.timeout >= 0 => fs.grace = -1)

\* A lock was taken by a read, which also left a grace period to end it.
LockHasPeriod == fs.toFs => fs.period > 0

\* A timeout that counts down never becomes the one that does not.
TimeoutBounded == fs.timeout =< NoTimeout

\* While acquireFullScreen() waits no program waits for input.
NoReadInCycle == thread["host"].at = "cycle" => prog # "waiting"

LinesArrived == \A i \in DOMAIN AllLines(con) : AllLines(con)[i] =< hist.arrived

Wakeups == TypeOK /\ NoLostWakeup
Reading == /\ OneAnswerPerRead /\ TransferFrozen /\ FSInUntouched /\ LockEnds
           /\ GraceIsOff /\ LockHasPeriod /\ TimeoutBounded /\ NoReadInCycle
Ordered == LinesKept /\ LinesArrived

-----------------------------------------------------------------------------
(* What the helpers do to the console's fields *)

ConOK(c) == c \in ConType /\ c.remaining =< OutZoneRows
Rested(c) == c.waiting # {} => c.remaining < 2

LEMMA ConFields ==
    ASSUME NEW c \in ConType
    PROVE  /\ c.state \in States /\ c.remaining \in Int /\ c.ticks \in 0 .. SessionTicks
           /\ c.backlog \in Seq(Nat) /\ c.shown \in Seq(Nat)
           /\ Len(c.backlog) \in Nat /\ Len(c.shown) \in Nat
           /\ c.waiting \in SUBSET Threads
           /\ c.flow \in BOOLEAN /\ c.since \in BOOLEAN /\ c.overwritten \in BOOLEAN
           /\ c.consuming \in BOOLEAN /\ c.drain \in BOOLEAN
  BY LenProperties DEF ConType

LEMMA StateNames ==
    /\ {"Initial", "Running", "More", "VmRead", "CpRead", "PwRead", "FSIn", "FSOut"} = States
    /\ FsStates \subseteq States /\ ReadStates \subseteq States
  BY DEF States, FsStates, ReadStates

LEMMA LinesAssociate ==
    ASSUME NEW x \in Seq(Nat), NEW y \in Seq(Nat), NEW z \in Seq(Nat)
    PROVE  (x \o y) \o z = x \o (y \o z)
  OBVIOUS

LEMMA SplitProps ==
    ASSUME NEW s \in Seq(Nat), NEW t \in Seq(Nat), NEW n \in 1 .. Len(t)
    PROVE  /\ s \o SubSeq(t, 1, n) \in Seq(Nat)
           /\ SubSeq(t, n + 1, Len(t)) \in Seq(Nat)
           /\ (s \o SubSeq(t, 1, n)) \o SubSeq(t, n + 1, Len(t)) = s \o t
<1> DEFINE u == SubSeq(t, 1, n)
           v == SubSeq(t, n + 1, Len(t))
<1>0. Len(t) \in Nat
  BY LenProperties
<1>1. u \in Seq(Nat)
  BY <1>0, SubSeqProperties, ElementOfSeq
<1>2. v \in Seq(Nat)
  BY <1>0, SubSeqProperties, ElementOfSeq
<1>3. u \o v = t
  BY <1>0, ConcatAdjacentSubSeq, SubSeqFull
<1> HIDE DEF u, v
<1>4. (s \o u) \o v = s \o (u \o v)
  BY <1>1, <1>2, LinesAssociate, Zenon
<1>5. s \o u \in Seq(Nat)
  BY <1>1, ConcatProperties
<1>. QED BY <1>2, <1>3, <1>4, <1>5 DEF u, v

LEMMA ConsumeProps ==
    ASSUME NEW c, ConOK(c)
    PROVE  LET d == ConsumeFsBacklog(c)
           IN  /\ ConOK(d)
               /\ d.remaining =< c.remaining /\ d.waiting = c.waiting
               /\ d.state \in {"Running", "More"}
               /\ AllLines(d) = AllLines(c) /\ d.drain = c.drain
<1> DEFINE room == IF c.remaining > 1 THEN c.remaining - 1 ELSE 0
           n == IF room < Len(c.backlog) THEN room ELSE Len(c.backlog)
           d == [c EXCEPT !.state = "Running", !.consuming = FALSE]
           e == Redrawn([d EXCEPT !.state = "More", !.consuming = TRUE,
                                  !.shown = @ \o SubSeq(c.backlog, 1, n),
                                  !.backlog = SubSeq(@, n + 1, Len(@)),
                                  !.remaining = @ - n, !.since = TRUE])
<1>1. c \in ConType /\ c.remaining \in Int /\ Len(c.backlog) \in Nat
  BY ConFields DEF ConOK
<1>2. n \in Nat /\ n =< Len(c.backlog)
  BY <1>1
<1>3. ConsumeFsBacklog(c) = IF n = 0 THEN d ELSE e
  BY DEF ConsumeFsBacklog
<1> HIDE DEF n
<1>4. CASE n = 0
  <2>1. /\ d \in ConType /\ d.remaining = c.remaining /\ d.waiting = c.waiting
        /\ d.state = "Running" /\ d.shown = c.shown /\ d.backlog = c.backlog
        /\ d.drain = c.drain
    BY <1>1, StateNames DEF ConType
  <2> HIDE DEF d, e
  <2>2. ConsumeFsBacklog(c) = d
    BY <1>3, <1>4
  <2>3. d.remaining =< c.remaining
    BY <1>1, <2>1
  <2>. QED BY <2>1, <2>2, <2>3 DEF ConOK, AllLines
<1>5. CASE n # 0
  <2> DEFINE s == c.shown \o SubSeq(c.backlog, 1, n)
             b == SubSeq(c.backlog, n + 1, Len(c.backlog))
             r == c.remaining - n
  <2>0. n \in 1 .. Len(c.backlog) /\ c.shown \in Seq(Nat) /\ c.backlog \in Seq(Nat)
    BY <1>1, <1>2, <1>5, ConFields
  <2>1. s \in Seq(Nat) /\ b \in Seq(Nat) /\ s \o b = c.shown \o c.backlog
    BY <2>0, SplitProps
  <2>2. r \in Int /\ r =< c.remaining
    BY <1>1, <1>2
  <2>3. e = [c EXCEPT !.state = "More", !.consuming = TRUE, !.shown = s, !.backlog = b,
                      !.remaining = r, !.since = TRUE, !.overwritten = TRUE]
    BY <1>1 DEF Redrawn, ConType
  <2> HIDE DEF s, b, r, e
  <2>4. /\ e \in ConType /\ e.remaining = r /\ e.waiting = c.waiting
        /\ e.state = "More" /\ e.shown = s /\ e.backlog = b /\ e.drain = c.drain
    BY <1>1, <2>1, <2>2, <2>3, StateNames DEF ConType
  <2>5. e.remaining =< OutZoneRows
    BY <1>1, <2>2, <2>4, RowsAssumption DEF ConOK
  <2>. QED BY <1>3, <1>5, <2>1, <2>2, <2>4, <2>5 DEF ConOK, AllLines
<1>. QED BY <1>4, <1>5

LEMMA EnterMoreProps ==
    ASSUME NEW c, ConOK(c), Rested(c), NEW t \in Threads, NEW added \in {0, 1}
    PROVE  LET d == EnterMore(c, t, added)
           IN  /\ ConOK(d) /\ Rested(d)
               /\ d.state \in {c.state, "More"}
               /\ AllLines(d) = AllLines(c) /\ d.drain = c.drain
<1> DEFINE r == c.remaining - added
           i == c.since \/ added > 0
           d == [c EXCEPT !.remaining = r, !.since = i]
           e == [c EXCEPT !.remaining = r, !.since = i, !.state = "More",
                          !.waiting = c.waiting \cup {t}, !.overwritten = TRUE]
<1>1. c \in ConType /\ c.remaining \in Int /\ c.waiting \subseteq Threads /\ c.since \in BOOLEAN
  BY ConFields DEF ConOK
<1>2. r \in Int /\ r =< c.remaining /\ r =< OutZoneRows /\ (c.remaining < 2 => r < 2)
  BY <1>1, RowsAssumption DEF ConOK
<1>3. i \in BOOLEAN
  OBVIOUS
<1>4. d.remaining = r
  BY <1>1 DEF ConType
<1>5. EnterMore(c, t, added) = IF c.flow \/ c.state = "Initial" THEN c
                               ELSE IF r >= 2 THEN d ELSE e
  <2>1. EnterMore(c, t, added) = IF c.flow \/ c.state = "Initial" THEN c
                                 ELSE IF d.remaining >= 2 THEN d
                                 ELSE Redrawn([d EXCEPT !.state = "More", !.waiting = @ \cup {t}])
    BY <1>1 DEF EnterMore
  <2>2. Redrawn([d EXCEPT !.state = "More", !.waiting = @ \cup {t}]) = e
    BY <1>1 DEF Redrawn, ConType
  <2>. QED BY <1>4, <2>1, <2>2
<1> HIDE DEF r, i
<1>6. /\ d \in ConType /\ d.waiting = c.waiting /\ d.state = c.state
      /\ d.shown = c.shown /\ d.backlog = c.backlog /\ d.drain = c.drain
  BY <1>1, <1>2, <1>3 DEF ConType
<1>7. /\ e \in ConType /\ e.remaining = r /\ e.state = "More"
      /\ e.shown = c.shown /\ e.backlog = c.backlog /\ e.drain = c.drain
  <2>1. c.waiting \cup {t} \in SUBSET Threads
    BY <1>1
  <2>. QED BY <1>1, <1>2, <1>3, <2>1, StateNames DEF ConType
<1> HIDE DEF d, e
<1>8. CASE c.flow \/ c.state = "Initial"
  BY <1>5, <1>8
<1>9. CASE ~(c.flow \/ c.state = "Initial") /\ r >= 2
  BY <1>2, <1>4, <1>5, <1>6, <1>9 DEF ConOK, Rested, AllLines
<1>10. CASE ~(c.flow \/ c.state = "Initial") /\ ~(r >= 2)
  <2>1. r < 2
    BY <1>2, <1>10
  <2>. QED BY <1>2, <1>5, <1>7, <1>10, <2>1 DEF ConOK, Rested, AllLines
<1>. QED BY <1>8, <1>9, <1>10

LEMMA LeaveMoreProps ==
    ASSUME NEW c, ConOK(c), NEW echoed \in {0, 1}
    PROVE  LET d == LeaveMore(c, echoed)
           IN  /\ ConOK(d) /\ d.waiting = {}
               /\ d.state \in {"Running", "More"}
               /\ AllLines(d) = AllLines(c) /\ d.drain = c.drain
<1> DEFINE b == [c EXCEPT !.remaining = OutZoneRows, !.since = FALSE]
           d == ConsumeFsBacklog(b)
           e == [d EXCEPT !.waiting = {}]
<1>1. RowsLeft(echoed) = OutZoneRows
  BY DEF RowsLeft
<1>2. LeaveMore(c, echoed) = e
  BY <1>1 DEF LeaveMore, Answered, Notified
<1>3. OutZoneRows \in Int
  BY RowsAssumption
<1>4. b \in ConType /\ b.remaining = OutZoneRows
      /\ AllLines(b) = AllLines(c) /\ b.drain = c.drain
  BY <1>3 DEF ConOK, ConType, AllLines
<1>5. ConOK(b)
  BY <1>3, <1>4 DEF ConOK
<1> HIDE DEF b
<1>6. ConOK(d) /\ d.state \in {"Running", "More"}
      /\ AllLines(d) = AllLines(b) /\ d.drain = b.drain
  BY <1>5, ConsumeProps
<1> HIDE DEF d
<1>7. /\ e \in ConType /\ e.remaining = d.remaining /\ e.waiting = {} /\ e.state = d.state
      /\ e.shown = d.shown /\ e.backlog = d.backlog /\ e.drain = d.drain
  BY <1>6 DEF ConOK, ConType
<1>. QED BY <1>2, <1>4, <1>6, <1>7 DEF ConOK, AllLines

LEMMA AppendHostLineProps ==
    ASSUME ConOK(con), Rested(con), NEW t \in Threads, NEW text \in Seq(Nat)
    PROVE  LET d == AppendHostLine(t, text)
           IN  /\ ConOK(d) /\ Rested(d)
               /\ d.state \in {con.state, "More"}
               /\ con.state \in FsStates => d.state = con.state /\ d.overwritten = con.overwritten
               /\ d.drain = con.drain
               /\ \/ AllLines(d) = AllLines(con) \o text
                  \/ con.drain /\ AllLines(d) = AllLines(con)
<1> DEFINE d == AppendHostLine(t, text)
           b == con.backlog \o text
           s == con.shown \o text
           k == [con EXCEPT !.backlog = b]
           c == [con EXCEPT !.shown = s, !.overwritten = TRUE]
<1>1. /\ con \in ConType /\ con.shown \in Seq(Nat) /\ con.backlog \in Seq(Nat)
      /\ con.remaining =< OutZoneRows
  BY ConFields DEF ConOK
<1>2. b \in Seq(Nat) /\ s \in Seq(Nat)
  BY <1>1, ConcatProperties
<1>3. con.shown \o b = AllLines(con) \o text
  BY <1>1, LinesAssociate, Zenon DEF AllLines
<1>4. con.backlog = <<>> => s \o con.backlog = AllLines(con) \o text
  BY <1>1, <1>2, ConcatEmptySeq DEF AllLines
<1>5. d = IF KeepsBack THEN k ELSE IF con.drain THEN con ELSE EnterMore(c, t, 1)
  BY <1>1 DEF AppendHostLine, Redrawn, ConType
<1> HIDE DEF s, b, d
<1>6. /\ k \in ConType /\ k.remaining = con.remaining /\ k.waiting = con.waiting
      /\ k.state = con.state /\ k.overwritten = con.overwritten /\ k.drain = con.drain
      /\ k.shown = con.shown /\ k.backlog = b
  BY <1>1, <1>2 DEF ConType
<1>7. /\ c \in ConType /\ c.remaining = con.remaining /\ c.waiting = con.waiting
      /\ c.state = con.state /\ c.shown = s /\ c.backlog = con.backlog /\ c.drain = con.drain
  BY <1>1, <1>2 DEF ConType
<1> HIDE DEF c, k
<1>8. CASE KeepsBack
  <2>1. d = k
    BY <1>5, <1>8
  <2>2. ConOK(d) /\ Rested(d)
    BY <1>1, <1>6, <2>1 DEF ConOK, Rested
  <2>3. AllLines(d) = AllLines(con) \o text
    BY <1>3, <1>6, <2>1 DEF AllLines
  <2>. QED BY <1>6, <2>1, <2>2, <2>3 DEF d
<1>9. CASE ~KeepsBack /\ con.drain
  <2>1. d = con /\ con.state \notin FsStates
    BY <1>5, <1>9 DEF KeepsBack
  <2>. QED BY <1>9, <2>1 DEF d
<1>10. CASE ~KeepsBack /\ ~con.drain
  <2>1. d = EnterMore(c, t, 1) /\ con.state \notin FsStates /\ con.backlog = <<>>
    BY <1>5, <1>10 DEF KeepsBack
  <2>2. ConOK(c) /\ Rested(c)
    BY <1>1, <1>7 DEF ConOK, Rested
  <2>3. /\ ConOK(d) /\ Rested(d) /\ d.state \in {c.state, "More"}
        /\ AllLines(d) = AllLines(c) /\ d.drain = c.drain
    BY <2>1, <2>2, EnterMoreProps
  <2>4. AllLines(c) = AllLines(con) \o text
    BY <1>4, <1>7, <2>1 DEF AllLines
  <2>. QED BY <1>7, <2>1, <2>3, <2>4 DEF d
<1>. QED BY <1>8, <1>9, <1>10

-----------------------------------------------------------------------------
(* Every action but HostLine keeps the lines and wakes whom it gives room *)

Rest == /\ fs \in FsType /\ thread \in [Threads -> Places] /\ prog \in Progs
        /\ typed \in BOOLEAN /\ hist \in HistType

Quiet(d) == /\ ConOK(d) /\ Rested(d)
            /\ AllLines(d) = AllLines(con)
            /\ d.drain => con.drain \/ ~Pipelined

LEMMA QuietIfConsumed ==
    ASSUME NEW c, ConOK(c), Rested(c), AllLines(c) = AllLines(con), c.drain = con.drain
    PROVE  Quiet(ConsumeFsBacklog(c))
<1> DEFINE d == ConsumeFsBacklog(c)
<1>1. /\ ConOK(d) /\ d.remaining =< c.remaining /\ d.waiting = c.waiting
      /\ AllLines(d) = AllLines(c) /\ d.drain = c.drain
  BY ConsumeProps
<1>2. d.remaining \in Int /\ c.remaining \in Int
  BY <1>1, ConFields DEF ConOK
<1> HIDE DEF d
<1>3. Rested(d)
  BY <1>1, <1>2 DEF Rested
<1>. QED BY <1>1, <1>3 DEF Quiet, d

LEMMA QuietIfLeft ==
    ASSUME ConOK(con), NEW echoed \in {0, 1}
    PROVE  Quiet(Redrawn(LeaveMore(con, echoed)))
<1> DEFINE d == LeaveMore(con, echoed)
<1>1. ConOK(d) /\ d.waiting = {} /\ AllLines(d) = AllLines(con) /\ d.drain = con.drain
  BY LeaveMoreProps
<1> HIDE DEF d
<1>2. ConOK(Redrawn(d)) /\ Rested(Redrawn(d)) /\ AllLines(Redrawn(d)) = AllLines(d)
      /\ Redrawn(d).drain = d.drain
  BY <1>1 DEF Redrawn, ConOK, ConType, Rested, AllLines
<1>. QED BY <1>1, <1>2 DEF Quiet, d

LEMMA HostQuiet ==
    ASSUME ConOK(con), Rested(con), Rest, Host
    PROVE  Quiet(con')
<1>0. con \in ConType /\ con.remaining =< OutZoneRows
  BY DEF ConOK
<1>1. CASE \E s \in ReadStates \cup {"Running"} : InputState(s)
  BY <1>1 DEF InputState, Quiet
<1>2. CASE FirstLine
  <2>1. con' = AppendHostLine("host", <<>>) /\ "host" \in Threads /\ <<>> \in Seq(Nat)
    BY <1>2, EmptySeq DEF FirstLine, Threads
  <2>2. /\ ConOK(con') /\ Rested(con') /\ con'.drain = con.drain
        /\ AllLines(con') = AllLines(con) \o <<>> \/ AllLines(con') = AllLines(con)
    BY <2>1, AppendHostLineProps
  <2>3. AllLines(con) \o <<>> = AllLines(con)
    BY <1>0, ConFields, ConcatProperties, ConcatEmptySeq DEF AllLines
  <2>. QED BY <2>2, <2>3 DEF Quiet
<1>3. CASE SetInputState
  <2> DEFINE new == thread["host"].new
             d == [con EXCEPT !.state = new, !.overwritten = TRUE]
             e == [con EXCEPT !.state = new, !.drain = FALSE, !.remaining = OutZoneRows,
                              !.waiting = {}, !.overwritten = TRUE]
  <2>1. con' \in {con, d, e}
    BY <1>0, <1>3 DEF SetInputState, Redrawn, Notified, ConType
  <2>2. new \in States
    <3>1. thread["host"] \in Places /\ thread["host"].at = "set"
      BY <1>3 DEF SetInputState, Rest, Threads
    <3>2. thread["host"] \in {Setting(s) : s \in States}
      BY <3>1 DEF Places, Nexts, Idle, First, InCycle, InMore
    <3>. QED BY <3>2 DEF Setting
  <2>3. OutZoneRows \in Int
    BY RowsAssumption
  <2> HIDE DEF new
  <2>4. Quiet(d)
    <3>1. d \in ConType /\ d.remaining = con.remaining /\ d.waiting = con.waiting
          /\ AllLines(d) = AllLines(con) /\ d.drain = con.drain
      BY <1>0, <2>2 DEF ConType, AllLines
    <3>. QED BY <1>0, <3>1 DEF Quiet, ConOK, Rested
  <2>5. Quiet(e)
    <3>1. e \in ConType /\ e.remaining = OutZoneRows /\ e.waiting = {}
          /\ AllLines(e) = AllLines(con) /\ e.drain = FALSE
      BY <1>0, <2>2, <2>3 DEF ConType, AllLines
    <3>. QED BY <2>3, <3>1 DEF Quiet, ConOK, Rested
  <2>6. Quiet(con)
    BY DEF Quiet
  <2>. QED BY <2>1, <2>4, <2>5, <2>6
<1>4. CASE EndCurrentSession
  <2> DEFINE c == [con EXCEPT !.remaining = 0, !.ticks = SessionTicks]
             d == EnterMore(c, "host", 0)
  <2>0. SessionTicks \in 0 .. SessionTicks /\ 0 \in Int
    BY TicksAssumption
  <2>1. c \in ConType /\ c.remaining = 0 /\ AllLines(c) = AllLines(con) /\ c.drain = con.drain
    BY <1>0, <2>0 DEF ConType, AllLines
  <2>2. con' = Redrawn(d)
    BY <1>4 DEF EndCurrentSession
  <2> HIDE DEF c
  <2>3. ConOK(c) /\ Rested(c) /\ "host" \in Threads
    BY <2>1, RowsAssumption DEF ConOK, Rested, Threads
  <2>4. ConOK(d) /\ Rested(d) /\ AllLines(d) = AllLines(c) /\ d.drain = c.drain
    BY <2>3, EnterMoreProps
  <2> HIDE DEF d
  <2>5. ConOK(Redrawn(d)) /\ Rested(Redrawn(d)) /\ AllLines(Redrawn(d)) = AllLines(d)
        /\ Redrawn(d).drain = d.drain
    BY <2>4 DEF Redrawn, ConOK, ConType, Rested, AllLines
  <2>. QED BY <2>1, <2>2, <2>4, <2>5 DEF Quiet
<1>. QED BY <1>1, <1>2, <1>3, <1>4 DEF Host

LEMMA LeavesMoreQuiet ==
    ASSUME ConOK(con), Rested(con), Rest, NEW t \in Threads, LeavesMore(t)
    PROVE  Quiet(con')
<1>0. con \in ConType /\ con.remaining =< OutZoneRows
  BY DEF ConOK
<1>1. CASE con.remaining < 2
  <2> DEFINE d == [con EXCEPT !.waiting = con.waiting \cup {t}]
  <2>1. con.waiting \cup {t} \in SUBSET Threads /\ con' = d
    BY <1>0, <1>1, ConFields DEF LeavesMore
  <2>2. d \in ConType /\ d.remaining = con.remaining
        /\ AllLines(d) = AllLines(con) /\ d.drain = con.drain
    BY <1>0, <2>1 DEF ConType, AllLines
  <2>. QED BY <1>0, <1>1, <2>1, <2>2 DEF Quiet, ConOK, Rested
<1>2. CASE ~(con.remaining < 2)
  <2> DEFINE old == thread[t].old
             d == [con EXCEPT !.state = old, !.overwritten = TRUE]
  <2>1. con' = d
    BY <1>0, <1>2 DEF LeavesMore, Redrawn, ConType
  <2>2. old \in States
    <3>1. thread[t] \in Places /\ thread[t].at = "more"
      BY DEF LeavesMore, Rest
    <3>2. thread[t] \in {InMore(o, next) : o \in States, next \in Nexts}
      BY <3>1 DEF Places, Nexts, Idle, First, Setting, InCycle
    <3>. QED BY <3>2 DEF InMore
  <2> HIDE DEF old
  <2>3. d \in ConType /\ d.remaining = con.remaining /\ d.waiting = con.waiting
        /\ AllLines(d) = AllLines(con) /\ d.drain = con.drain
    BY <1>0, <2>2 DEF ConType, AllLines
  <2>. QED BY <1>0, <2>1, <2>3 DEF Quiet, ConOK, Rested
<1>. QED BY <1>1, <1>2

\* Changes to the fields that no helper and no wait depends on.
LEMMA QuietFields ==
    ASSUME ConOK(con), Rested(con), NEW state \in States,
           NEW flow \in BOOLEAN, NEW since \in BOOLEAN, NEW overwritten \in BOOLEAN
    PROVE  Quiet([con EXCEPT !.state = state, !.flow = flow, !.since = since,
                             !.overwritten = overwritten])
<1> DEFINE d == [con EXCEPT !.state = state, !.flow = flow, !.since = since,
                            !.overwritten = overwritten]
<1>1. d \in ConType /\ d.remaining = con.remaining /\ d.waiting = con.waiting
      /\ AllLines(d) = AllLines(con) /\ d.drain = con.drain
  BY DEF ConOK, ConType, AllLines
<1>. QED BY <1>1 DEF Quiet, ConOK, Rested

LEMMA FullscreenQuiet ==
    ASSUME ConOK(con), Rested(con), Fullscreen
    PROVE  Quiet(con')
<1>0. /\ con \in ConType /\ con.state \in States /\ con.flow \in BOOLEAN
      /\ con.since \in BOOLEAN /\ con.overwritten \in BOOLEAN
      /\ "FSOut" \in States /\ "FSIn" \in States /\ "More" \in States
  BY ConFields, StateNames DEF ConOK
<1>1. Quiet(con)
  BY DEF Quiet
<1>2. Quiet(ConsumeFsBacklog(con))
  BY QuietIfConsumed
<1>3. CASE \E r \in BOOLEAN : AcquireFullScreen(r)
  <2>1. PICK r \in BOOLEAN : AcquireFullScreen(r)
    BY <1>3
  <2> DEFINE s == IF con.state \in FsStates \/ (r /\ (con.overwritten \/ con.since))
                    THEN con.state ELSE "FSOut"
             d == [con EXCEPT !.flow = FALSE, !.state = s]
             e == Redrawn([con EXCEPT !.flow = FALSE, !.state = "More"])
  <2>2. con' = d \/ con' = e
    BY <2>1 DEF AcquireFullScreen
  <2>3. s \in States
    BY <1>0
  <2> HIDE DEF s
  <2>4. d = [con EXCEPT !.state = s, !.flow = FALSE, !.since = con.since,
                        !.overwritten = con.overwritten]
    BY <1>0 DEF ConType
  <2>5. e = [con EXCEPT !.state = "More", !.flow = FALSE, !.since = con.since,
                        !.overwritten = TRUE]
    BY <1>0 DEF ConType, Redrawn
  <2> HIDE DEF d, e
  <2>6. Quiet(d)
    BY <1>0, <2>3, <2>4, QuietFields
  <2>7. Quiet(e)
    BY <1>0, <2>5, QuietFields
  <2>. QED BY <2>2, <2>6, <2>7
<1>4. CASE MoreCycle
  <2> DEFINE d == [con EXCEPT !.state = "FSOut"]
  <2>1. con' = con \/ con' = d
    BY <1>4 DEF MoreCycle
  <2>2. d = [con EXCEPT !.state = "FSOut", !.flow = con.flow, !.since = con.since,
                        !.overwritten = con.overwritten]
    BY <1>0 DEF ConType
  <2> HIDE DEF d
  <2>3. Quiet(d)
    BY <1>0, <2>2, QuietFields
  <2>. QED BY <1>1, <2>1, <2>3
<1>5. CASE WriteFullscreen
  <2> DEFINE d == [con EXCEPT !.overwritten = FALSE, !.since = FALSE]
  <2>1. con' = con \/ con' = d
    BY <1>5 DEF WriteFullscreen
  <2>2. d = [con EXCEPT !.state = con.state, !.flow = con.flow, !.since = FALSE,
                        !.overwritten = FALSE]
    BY <1>0 DEF ConType
  <2> HIDE DEF d
  <2>3. Quiet(d)
    BY <1>0, <2>2, QuietFields
  <2>. QED BY <1>1, <2>1, <2>3
<1>6. CASE \E v \in Timeouts \cup {0} : SetFsLockTimeoutValue(v)
  BY <1>1, <1>2, <1>6 DEF SetFsLockTimeoutValue
<1>7. CASE \E b \in BOOLEAN : SetFlowMode(b)
  <2>1. PICK b \in BOOLEAN : con' = [con EXCEPT !.flow = b]
    BY <1>7 DEF SetFlowMode
  <2>2. con' = [con EXCEPT !.state = con.state, !.flow = b, !.since = con.since,
                           !.overwritten = con.overwritten]
    BY <1>0, <2>1 DEF ConType
  <2>. QED BY <1>0, <2>2, QuietFields
<1>8. Quiet(Redrawn(con))
  <2>1. Redrawn(con) = [con EXCEPT !.state = con.state, !.flow = con.flow,
                                   !.since = con.since, !.overwritten = TRUE]
    BY <1>0 DEF ConType, Redrawn
  <2>. QED BY <1>0, <2>1, QuietFields
<1>9. CASE RedrawScreen
  BY <1>8, <1>9 DEF RedrawScreen
<1>10. CASE MayReadFullScreen
  BY <1>1, <1>10 DEF MayReadFullScreen
<1>11. CASE Reads
  <2> DEFINE d == ConsumeFsBacklog(con)
             i == [con EXCEPT !.state = "FSIn"]
  <2>1. con' = con \/ con' = Redrawn(d) \/ con' = i
    BY <1>11 DEF Reads, ReadFullScreen
  <2> HIDE DEF d
  <2>2. Quiet(Redrawn(d))
    <3>1. Quiet(d)
      BY <1>2 DEF d
    <3>2. ConOK(Redrawn(d)) /\ Redrawn(d).remaining = d.remaining
          /\ Redrawn(d).waiting = d.waiting
          /\ AllLines(Redrawn(d)) = AllLines(d) /\ Redrawn(d).drain = d.drain
      BY <3>1 DEF Quiet, Redrawn, ConOK, ConType, AllLines
    <3>. QED BY <3>1, <3>2 DEF Quiet, Rested
  <2>3. i = [con EXCEPT !.state = "FSIn", !.flow = con.flow, !.since = con.since,
                        !.overwritten = con.overwritten]
    BY <1>0 DEF ConType
  <2> HIDE DEF i
  <2>4. Quiet(i)
    BY <1>0, <2>3, QuietFields
  <2>. QED BY <1>1, <2>1, <2>2, <2>4
<1>12. CASE TransferCompleted
  BY <1>1, <1>2, <1>12 DEF TransferCompleted
<1>. QED BY <1>3, <1>4, <1>5, <1>6, <1>7, <1>9, <1>10, <1>11, <1>12 DEF Fullscreen

LEMMA UserQuiet ==
    ASSUME ConOK(con), Rested(con), User
    PROVE  Quiet(con')
<1>0. con \in ConType /\ con.remaining =< OutZoneRows
  BY DEF ConOK
<1>1. CASE PfCommand \/ Enter
  BY <1>1, QuietIfLeft DEF PfCommand, Enter, Key
<1>2. CASE Interrupt \/ SendPF03
  <2>1. PICK b \in BOOLEAN : /\ con' = Redrawn(Notified([con EXCEPT !.drain = b]))
                             /\ b => ~Pipelined
    <3>1. CASE Interrupt
      BY <3>1, ConnectionAssumption DEF Interrupt, Key
    <3>2. CASE SendPF03
      BY <3>2 DEF SendPF03, Key
    <3>. QED BY <1>2, <3>1, <3>2
  <2> DEFINE d == [con EXCEPT !.drain = b, !.waiting = {}, !.overwritten = TRUE]
  <2>2. con' = d
    BY <1>0, <2>1 DEF Redrawn, Notified, ConType
  <2>3. d \in ConType /\ d.remaining = con.remaining /\ d.waiting = {}
        /\ AllLines(d) = AllLines(con) /\ d.drain = b
    BY <1>0 DEF ConType, AllLines
  <2>. QED BY <1>0, <2>1, <2>2, <2>3 DEF Quiet, ConOK, Rested
<1>3. CASE OtherKey
  <2>1. con' = Redrawn(con)
    BY <1>3 DEF OtherKey, Key
  <2>2. con' \in ConType /\ con'.remaining = con.remaining /\ con'.waiting = con.waiting
        /\ AllLines(con') = AllLines(con) /\ con'.drain = con.drain
    BY <1>0, <2>1 DEF ConType, AllLines, Redrawn
  <2>. QED BY <1>0, <2>2 DEF Quiet, ConOK, Rested
<1>4. CASE \E part \in {"head", "tail", "whole"} : FullscreenInput(part)
  BY <1>4 DEF FullscreenInput, Quiet
<1>. QED BY <1>1, <1>2, <1>3, <1>4 DEF User

LEMMA TickerQuiet ==
    ASSUME ConOK(con), Rested(con), Ticker
    PROVE  Quiet(con')
<1>0. con \in ConType /\ con.remaining =< OutZoneRows /\ con.ticks \in 0 .. SessionTicks
  BY ConFields DEF ConOK
<1>1. CASE SessionTick /\ con.ticks > 1
  <2> DEFINE n == con.ticks - 1
             d == [con EXCEPT !.ticks = n]
  <2>1. con' = d
    BY <1>0, <1>1 DEF SessionTick
  <2>2. n \in 0 .. SessionTicks
    BY <1>0, <1>1, TicksAssumption
  <2> HIDE DEF n
  <2>3. d \in ConType /\ d.remaining = con.remaining /\ d.waiting = con.waiting
        /\ AllLines(d) = AllLines(con) /\ d.drain = con.drain
    BY <1>0, <2>2 DEF ConType, AllLines
  <2>. QED BY <1>0, <2>1, <2>3 DEF Quiet, ConOK, Rested
<1>2. CASE SessionTick /\ ~(con.ticks > 1)
  <2> DEFINE d == [con EXCEPT !.ticks = 0, !.remaining = OutZoneRows, !.since = FALSE,
                              !.state = "Running", !.waiting = {}]
  <2>1. con' = d
    BY <1>0, <1>2 DEF SessionTick, Notified, ConType
  <2>2. 0 \in 0 .. SessionTicks /\ OutZoneRows \in Int
    BY TicksAssumption, RowsAssumption
  <2>3. d \in ConType /\ d.remaining = OutZoneRows /\ d.waiting = {}
        /\ AllLines(d) = AllLines(con) /\ d.drain = con.drain
    BY <1>0, <2>2, StateNames DEF ConType, AllLines
  <2>. QED BY <2>1, <2>2, <2>3 DEF Quiet, ConOK, Rested
<1>3. CASE TimerTick
  BY <1>3, QuietIfConsumed DEF TimerTick, Quiet
<1>. QED BY <1>1, <1>2, <1>3 DEF Ticker

-----------------------------------------------------------------------------
(* The types of everything but the console's own fields *)

LEMMA GoOnPlaces ==
    ASSUME thread \in [Threads -> Places], con'.state \in States,
           NEW t \in Threads, NEW next \in Nexts,
           thread' = [thread EXCEPT ![t] = IF t \in con'.waiting THEN InMore(con.state, next)
                                                                 ELSE next],
           con.state \in States
    PROVE  thread' \in [Threads -> Places] /\ thread'[t].at # "cycle"
<1>1. InMore(con.state, next) \in Places /\ next \in Places
  BY DEF Places
<1>2. InMore(con.state, next).at # "cycle" /\ next.at # "cycle"
  BY DEF InMore, Nexts, Idle, Setting
<1>. QED BY <1>1, <1>2

LEMMA FsFields ==
    ASSUME NEW f \in FsType
    PROVE  /\ f.data \in {"empty", "head", "whole", "garbled"}
           /\ f.complete \in BOOLEAN /\ f.locked \in BOOLEAN /\ f.toFs \in BOOLEAN
           /\ f.timeout \in Int /\ f.period \in Int /\ f.grace \in Int
           /\ f.lockValue \in Nat
  BY DEF FsType

LEMMA LinesRest ==
    ASSUME ConOK(con), ConOK(con'), Rest, Lines
    PROVE  Rest'
<1>0. con.state \in States /\ con'.state \in States
  BY ConFields DEF ConOK
<1>1. CASE HostLine
  <2>1. "pipe" \in Threads /\ Idle \in Nexts
    BY DEF Threads, Nexts
  <2>2. thread' \in [Threads -> Places]
    BY <1>0, <1>1, <2>1, GoOnPlaces DEF HostLine, GoOn, Rest
  <2>3. hist.arrived + 1 \in 0 .. MaxLines
    BY <1>1, BoundsAssumption DEF HostLine, Rest, HistType
  <2>4. hist' \in HistType
    BY <1>1, <2>3 DEF HostLine, Rest, HistType
  <2>5. prog' \in Progs
    BY <1>1 DEF HostLine, Rest, Progs
  <2>. QED BY <1>1, <2>2, <2>4, <2>5 DEF HostLine, Rest
<1>2. CASE \E t \in Threads : LeavesMore(t)
  <2>1. PICK t \in Threads : LeavesMore(t)
    BY <1>2
  <2>2. thread[t].next \in Nexts
    <3>1. thread[t] \in Places /\ thread[t].at = "more"
      BY <2>1 DEF LeavesMore, Rest
    <3>2. thread[t] \in {InMore(o, next) : o \in States, next \in Nexts}
      BY <3>1 DEF Places, Nexts, Idle, First, Setting, InCycle
    <3>. QED BY <3>2 DEF InMore
  <2>3. thread' \in [Threads -> Places]
    BY <2>1, <2>2 DEF LeavesMore, Rest, Places
  <2>4. hist' \in HistType
    <3>1. (hist.upset \/ con.state \in FsStates \/ thread[t].old \in FsStates) \in BOOLEAN
      BY DEF Rest, HistType
    <3>. QED BY <2>1, <3>1 DEF LeavesMore, Rest, HistType
  <2>. QED BY <2>1, <2>3, <2>4 DEF LeavesMore, Rest
<1>. QED BY <1>1, <1>2 DEF Lines

LEMMA HostRest ==
    ASSUME ConOK(con), ConOK(con'), Rest, Host
    PROVE  Rest'
<1>0. con.state \in States /\ con'.state \in States /\ "host" \in Threads
  BY ConFields DEF ConOK, Threads
<1>1. CASE \E s \in ReadStates \cup {"Running"} : InputState(s)
  <2>1. PICK s \in ReadStates \cup {"Running"} : InputState(s)
    BY <1>1
  <2> DEFINE new == IF s = "Running" /\ con.state = "More" THEN "More" ELSE s
  <2>2. new \in States
    BY <2>1, StateNames
  <2>3. First(new) \in Places /\ Setting(new) \in Places
    BY <2>2 DEF Places, Nexts
  <2>4. thread' \in [Threads -> Places]
    BY <1>0, <2>1, <2>3 DEF InputState, Rest
  <2>5. prog' \in Progs
    BY <2>1 DEF InputState, Rest, Progs
  <2>. QED BY <2>1, <2>4, <2>5 DEF InputState, Rest
<1>2. CASE FirstLine
  <2>1. Setting(thread["host"].new) \in Nexts
    <3>1. thread["host"] \in Places /\ thread["host"].at = "first"
      BY <1>0, <1>2 DEF FirstLine, Rest
    <3>2. thread["host"] \in {First(s) : s \in States}
      BY <3>1 DEF Places, Nexts, Idle, Setting, InCycle, InMore
    <3>. QED BY <3>2 DEF First, Nexts
  <2>2. thread' \in [Threads -> Places]
    BY <1>0, <1>2, <2>1, GoOnPlaces DEF FirstLine, GoOn, Rest
  <2>. QED BY <1>2, <2>2 DEF FirstLine, Rest
<1>3. CASE SetInputState
  <2>0. Idle \in Places
    BY DEF Places, Nexts
  <2>1. thread' \in [Threads -> Places]
    BY <1>3, <2>0 DEF SetInputState, Rest
  <2>. QED BY <1>3, <2>1 DEF SetInputState, Rest
<1>4. CASE EndCurrentSession
  <2>1. Idle \in Nexts
    BY DEF Nexts
  <2>2. thread' \in [Threads -> Places]
    BY <1>0, <1>4, <2>1, GoOnPlaces DEF EndCurrentSession, GoOn, Rest
  <2>3. hist.sessions + 1 \in 0 .. MaxSessions
    BY <1>4, BoundsAssumption DEF EndCurrentSession, Rest, HistType
  <2>4. hist' \in HistType
    <3>1. (hist.upset \/ con.state \in FsStates \/ prog # "none") \in BOOLEAN
      BY DEF Rest, HistType
    <3>. QED BY <1>4, <2>3, <3>1 DEF EndCurrentSession, Rest, HistType
  <2>5. prog' \in Progs
    BY <1>4 DEF EndCurrentSession, Rest, Progs
  <2>. QED BY <1>4, <2>2, <2>4, <2>5 DEF EndCurrentSession, Rest
<1>. QED BY <1>1, <1>2, <1>3, <1>4 DEF Host

\* What readFullScreen() starts from.
LEMMA PreparedProps ==
    ASSUME fs \in FsType
    PROVE  /\ Prepared \in FsType /\ Prepared.period = fs.period
           /\ Prepared.toFs = fs.toFs /\ Prepared.grace = fs.grace
           /\ Prepared.timeout = fs.timeout
           /\ InputAvailable => Prepared = fs
  BY DEF Prepared, FsType, InputAvailable

LEMMA GraceAfterInputType == fs \in FsType => GraceAfterInput \in Int
  BY FsFields DEF GraceAfterInput

\* The fields that readFullScreen() sets, in each of its cases.
LEMMA ReadProps ==
    ASSUME con \in ConType, fs \in FsType, hist \in HistType,
           NEW timeout \in Timeouts \cup {Cancel, Query, 0}, NEW g \in GracePeriods,
           ReadFullScreen(timeout, g)
    PROVE  /\ fs' \in FsType
           /\ fs'.timeout =< NoTimeout \/ fs' = fs
           /\ hist'.upset = hist.upset
           /\ \/ con.overwritten /\ fs' = fs /\ prog' = "hung" /\ hist' = hist
              \/ /\ fs'.timeout = -1 /\ prog' = "none" /\ fs'.toFs = fs.toFs
                 /\ fs.toFs => fs'.grace = fs.period \/ fs'.grace = g \/ hist'.cancelled
                 /\ fs'.period \in {fs.period, g}
              \/ /\ fs'.timeout = -1 /\ prog' = "fetching" /\ fs'.toFs = fs.toFs
                 /\ fs'.complete /\ fs'.locked /\ fs'.period = fs.period
                 /\ fs.toFs => fs'.grace = fs.period
              \/ /\ fs'.timeout > 0 /\ prog' = "waiting" /\ fs'.grace = -1 /\ fs'.period = g
                 /\ con'.state = "FSIn" /\ ~con'.overwritten
<1>0. /\ timeout \in Int /\ g \in Int /\ -1 \in Int
      /\ fs.period \in Int /\ fs.toFs \in BOOLEAN /\ fs.complete \in BOOLEAN
      /\ GraceAfterInput \in Int
  BY FsFields, TimersAssumption, GraceAfterInputType DEF Cancel, Query
<1>a. hist'.upset = hist.upset /\ (con.overwritten => hist' = hist)
  BY DEF ReadFullScreen, HistType
<1>b. -1 =< NoTimeout /\ NoTimeout \in Int /\ (timeout > 0 => timeout =< NoTimeout)
  BY TimersAssumption DEF Cancel, Query
<1>1. CASE con.overwritten /\ prog' = "hung" /\ UNCHANGED <<con, fs>>
  BY <1>1, <1>a
<1>2. CASE ~con.overwritten /\ timeout = Cancel
  <2>1. fs' = [Prepared EXCEPT !.timeout = -1, !.grace = -1] /\ prog' = "none"
        /\ (fs.toFs => hist'.cancelled)
    <3>1. fs' = [Prepared EXCEPT !.timeout = -1, !.grace = -1] /\ prog' = "none"
      BY <1>2 DEF ReadFullScreen, Cancel, Query
    <3>2. fs.toFs => hist'.cancelled
      BY <1>2 DEF ReadFullScreen, HistType
    <3>. QED BY <3>1, <3>2
  <2>2. fs' \in FsType /\ fs'.timeout = -1 /\ fs'.toFs = fs.toFs /\ fs'.period = fs.period
    BY <1>0, <2>1, PreparedProps DEF FsType
  <2>. QED BY <1>a, <1>b, <2>1, <2>2
<1>3. CASE ~con.overwritten /\ timeout = Query
  <2>1. fs' = [Prepared EXCEPT !.timeout = -1, !.period = g, !.grace = g] /\ prog' = "none"
    BY <1>3 DEF ReadFullScreen, Cancel, Query
  <2>2. fs' \in FsType /\ fs'.timeout = -1 /\ fs'.toFs = fs.toFs /\ fs'.period = g
        /\ fs'.grace = g
    BY <1>0, <2>1, PreparedProps DEF FsType
  <2>. QED BY <1>a, <1>b, <2>1, <2>2
<1>4. CASE ~con.overwritten /\ timeout >= 0 /\ InputAvailable
  <2>0. timeout # Cancel /\ timeout # Query
    BY <1>4 DEF Cancel, Query
  <2>1. fs' = SentAtOnce /\ prog' = "fetching"
    BY <1>4, <2>0 DEF ReadFullScreen
  <2>2. fs' = [fs EXCEPT !.timeout = -1, !.grace = GraceAfterInput, !.locked = TRUE]
        /\ fs.complete
    BY <1>4, <2>1, PreparedProps DEF SentAtOnce, InputAvailable
  <2>3. fs' \in FsType /\ fs'.timeout = -1 /\ fs'.toFs = fs.toFs /\ fs'.period = fs.period
        /\ fs'.grace = GraceAfterInput /\ fs'.locked = TRUE /\ fs'.complete = fs.complete
    BY <1>0, <2>2 DEF FsType
  <2>. QED BY <1>a, <1>b, <2>1, <2>2, <2>3 DEF GraceAfterInput
<1>5. CASE ~con.overwritten /\ timeout = 0 /\ ~InputAvailable
  <2>0. timeout # Cancel /\ timeout # Query
    BY <1>5 DEF Cancel, Query
  <2>1. fs' = [Prepared EXCEPT !.timeout = -1, !.grace = fs.period] /\ prog' = "none"
    BY <1>5, <2>0 DEF ReadFullScreen
  <2>2. fs' \in FsType /\ fs'.timeout = -1 /\ fs'.toFs = fs.toFs /\ fs'.period = fs.period
        /\ fs'.grace = fs.period
    BY <1>0, <2>1, PreparedProps DEF FsType
  <2>. QED BY <1>a, <1>b, <2>1, <2>2
<1>6. CASE ~con.overwritten /\ timeout > 0 /\ ~InputAvailable
  <2>0. timeout # Cancel /\ timeout # Query
    BY <1>6 DEF Cancel, Query
  <2>1. fs' = Waiting(timeout, g) /\ prog' = "waiting" /\ con' = [con EXCEPT !.state = "FSIn"]
    BY <1>6, <2>0 DEF ReadFullScreen
  <2>2. (fs.lockValue > 0 /\ fs.lockValue = timeout) \in BOOLEAN
    OBVIOUS
  <2>3. fs' \in FsType /\ fs'.timeout = timeout /\ fs'.period = g /\ fs'.grace = -1
    BY <1>0, <2>1, <2>2, PreparedProps DEF FsType, Waiting
  <2>4. con'.state = "FSIn" /\ con'.overwritten = con.overwritten
    BY <2>1 DEF ConType
  <2>. QED BY <1>6, <1>a, <1>b, <2>1, <2>3, <2>4
<1>. QED BY <1>1, <1>2, <1>3, <1>4, <1>5, <1>6 DEF ReadFullScreen

LEMMA FullscreenRest ==
    ASSUME ConOK(con), Rest, Fullscreen
    PROVE  Rest'
<1>0. /\ fs \in FsType /\ thread \in [Threads -> Places] /\ prog \in Progs
      /\ typed \in BOOLEAN /\ hist \in HistType /\ con \in ConType
      /\ fs.toFs \in BOOLEAN /\ fs.complete \in BOOLEAN
  BY FsFields DEF Rest, ConOK
<1>1. \A n \in 1 .. WaitCycles : InCycle(n) \in Places
  BY DEF Places
<1>2. Idle \in Places
  BY DEF Places, Nexts
<1>3. CASE \E r \in BOOLEAN : AcquireFullScreen(r)
  <2>1. InCycle(WaitCycles) \in Places
    BY <1>1 DEF WaitCycles
  <2>2. thread' \in [Threads -> Places] /\ prog' \in Progs
    BY <1>0, <1>3, <2>1 DEF AcquireFullScreen, Progs
  <2>. QED BY <1>0, <1>3, <2>2 DEF AcquireFullScreen, Rest
<1>4. CASE MoreCycle
  <2>1. thread["host"].left \in 1 .. WaitCycles
    <3>1. thread["host"] \in Places /\ thread["host"].at = "cycle"
      BY <1>0, <1>4 DEF MoreCycle, Threads
    <3>2. thread["host"] \in {InCycle(n) : n \in 1 .. WaitCycles}
      BY <3>1 DEF Places, Nexts, Idle, First, Setting, InMore
    <3>. QED BY <3>2 DEF InCycle
  <2>2. CASE con.state = "More" \/ thread["host"].left > 1
    <3> DEFINE n == IF con.state = "More" THEN WaitCycles ELSE thread["host"].left - 1
    <3>1. n \in 1 .. WaitCycles
      BY <2>1, <2>2 DEF WaitCycles
    <3>2. thread' = [thread EXCEPT !["host"] = InCycle(n)] /\ UNCHANGED prog
      BY <1>4, <2>2 DEF MoreCycle
    <3> HIDE DEF n
    <3>3. InCycle(n) \in Places
      BY <1>1, <3>1
    <3>4. thread' \in [Threads -> Places]
      BY <1>0, <3>2, <3>3
    <3>. QED BY <1>0, <1>4, <3>2, <3>4 DEF MoreCycle, Rest
  <2>3. CASE ~(con.state = "More" \/ thread["host"].left > 1)
    <3>1. thread' = [thread EXCEPT !["host"] = Idle] /\ prog' = "acquired"
      BY <1>4, <2>3 DEF MoreCycle
    <3>2. thread' \in [Threads -> Places] /\ prog' \in Progs
      BY <1>0, <1>2, <3>1 DEF Progs
    <3>. QED BY <1>0, <1>4, <3>2 DEF MoreCycle, Rest
  <2>. QED BY <2>2, <2>3
<1>5. CASE WriteFullscreen
  BY <1>0, <1>5 DEF WriteFullscreen, Rest, Progs
<1>6. CASE \E v \in Timeouts \cup {0} : SetFsLockTimeoutValue(v)
  <2>1. PICK v \in Timeouts \cup {0} : SetFsLockTimeoutValue(v)
    BY <1>6
  <2>2. v \in Nat /\ (fs.toFs /\ v > 0) \in BOOLEAN
    BY TimersAssumption
  <2>3. fs' \in FsType
    BY <1>0, <2>1, <2>2 DEF SetFsLockTimeoutValue, FsType
  <2>. QED BY <1>0, <2>1, <2>3 DEF SetFsLockTimeoutValue, Rest
<1>7. CASE (\E b \in BOOLEAN : SetFlowMode(b)) \/ RedrawScreen
  BY <1>0, <1>7 DEF SetFlowMode, RedrawScreen, Rest
<1>8. CASE MayReadFullScreen
  BY <1>0, <1>8 DEF MayReadFullScreen, Rest, Progs
<1>9. CASE Reads
  <2>1. PICK timeout \in Timeouts \cup {Cancel, Query, 0}, g \in GracePeriods :
          ReadFullScreen(timeout, g)
    BY <1>9 DEF Reads
  <2>2. fs' \in FsType /\ prog' \in {"hung", "none", "fetching", "waiting"}
    BY <1>0, <2>1, ReadProps
  <2>3. (IF con.overwritten THEN hist.cancelled
         ELSE timeout = Cancel /\ fs.toFs) \in BOOLEAN
    BY <1>0 DEF HistType
  <2>4. hist' \in HistType
    BY <1>0, <2>1, <2>3 DEF ReadFullScreen, HistType
  <2>. QED BY <1>0, <2>1, <2>2, <2>4 DEF ReadFullScreen, Rest, Progs
<1>10. CASE TransferCompleted
  <2>1. fs' \in FsType
    BY <1>0, <1>10 DEF TransferCompleted, BufferFreed, FsType
  <2>. QED BY <1>0, <1>10, <2>1 DEF TransferCompleted, Rest, Progs
<1>. QED BY <1>3, <1>4, <1>5, <1>6, <1>7, <1>8, <1>9, <1>10 DEF Fullscreen

\* What a packet of fullscreen input does to the receive buffer.
LEMMA InputProps ==
    ASSUME fs \in FsType, NEW part \in {"head", "tail", "whole"}, FullscreenInput(part)
    PROVE  /\ fs' \in FsType /\ fs'.period = fs.period /\ fs'.toFs = fs.toFs
           /\ \/ /\ fs.complete /\ fs' = fs /\ prog' = prog
              \/ /\ ~fs.complete /\ fs'.timeout = fs.timeout /\ fs'.grace = fs.grace
                 /\ prog' = prog
              \/ /\ ~fs.complete /\ fs.timeout >= 0 /\ fs'.timeout = -1 /\ prog' = "fetching"
                 /\ fs'.complete /\ fs'.locked /\ fs'.grace = GraceAfterInput
                 /\ con.state = "FSIn"
<1> DEFINE j == Joined(part)
           r == [fs EXCEPT !.data = j]
           c == [fs EXCEPT !.data = j, !.complete = TRUE, !.locked = FALSE]
           k == [fs EXCEPT !.data = j, !.complete = TRUE, !.locked = TRUE,
                           !.timeout = -1, !.grace = GraceAfterInput]
<1>0. GraceAfterInput \in Int /\ -1 \in Int
  BY GraceAfterInputType
<1>1. j \in {"empty", "head", "whole", "garbled"}
  BY FsFields DEF Joined
<1>2. CASE fs.complete
  BY <1>2 DEF FullscreenInput
<1>3. CASE ~fs.complete
  <2>1. \/ fs' = r /\ prog' = prog
        \/ fs' = c /\ prog' = prog
        \/ fs' = k /\ prog' = "fetching" /\ fs.timeout >= 0 /\ con.state = "FSIn"
    <3> DEFINE received == [fs EXCEPT !.data = j]
               completed == [received EXCEPT !.complete = TRUE, !.locked = FALSE]
               sent == [completed EXCEPT !.timeout = -1, !.grace = GraceAfterInput,
                                         !.locked = TRUE]
    <3>1. \/ fs' = received /\ prog' = prog
          \/ fs' = completed /\ prog' = prog
          \/ fs' = sent /\ prog' = "fetching" /\ fs.timeout >= 0 /\ con.state = "FSIn"
      BY <1>3, Zenon DEF FullscreenInput
    <3>2. completed = c
      BY DEF FsType
    <3>3. sent = k
      BY DEF FsType
    <3>. QED BY <3>1, <3>2, <3>3
  <2> HIDE DEF j
  <2>2. r \in FsType /\ r.period = fs.period /\ r.toFs = fs.toFs /\ r.timeout = fs.timeout
        /\ r.grace = fs.grace
    BY <1>1 DEF FsType
  <2>3. c \in FsType /\ c.period = fs.period /\ c.toFs = fs.toFs /\ c.timeout = fs.timeout
        /\ c.grace = fs.grace
    BY <1>1 DEF FsType
  <2>4. k \in FsType /\ k.period = fs.period /\ k.toFs = fs.toFs /\ k.timeout = -1
        /\ k.grace = GraceAfterInput /\ k.complete = TRUE /\ k.locked = TRUE
    BY <1>0, <1>1 DEF FsType
  <2> HIDE DEF r, c, k
  <2>. QED BY <1>3, <2>1, <2>2, <2>3, <2>4
<1>. QED BY <1>2, <1>3

\* What a tick does to the timers.
LEMMA TickProps ==
    ASSUME fs \in FsType, TimerTick
    PROVE  /\ fs' \in FsType /\ fs'.period = fs.period
           /\ fs'.complete = fs.complete /\ fs'.locked = fs.locked
           /\ fs'.toFs = (fs.toFs /\ ~GraceEnds)
           /\ fs'.timeout = TimeoutAfterTick
           /\ fs'.grace = IF TimesOut THEN fs.period ELSE IF GraceEnds THEN -1
                          ELSE IF fs.grace > 0 THEN fs.grace - 1 ELSE fs.grace
<1> DEFINE g == IF TimesOut THEN fs.period ELSE IF GraceEnds THEN -1
                ELSE IF fs.grace > 0 THEN fs.grace - 1 ELSE fs.grace
           l == fs.toFs /\ ~GraceEnds
<1>1. fs.timeout \in Int /\ fs.grace \in Int /\ fs.period \in Int /\ fs.toFs \in BOOLEAN
  BY FsFields
<1>2. g \in Int
  BY <1>1
<1>3. TimeoutAfterTick \in Int
  BY <1>1 DEF TimeoutAfterTick
<1>4. l \in BOOLEAN
  OBVIOUS
<1>5. fs' = [fs EXCEPT !.timeout = TimeoutAfterTick, !.grace = g, !.toFs = l]
  BY DEF TimerTick
<1> HIDE DEF g, l
<1>6. /\ fs' \in FsType /\ fs'.period = fs.period
      /\ fs'.complete = fs.complete /\ fs'.locked = fs.locked
      /\ fs'.toFs = l /\ fs'.timeout = TimeoutAfterTick /\ fs'.grace = g
  BY <1>2, <1>3, <1>4, <1>5 DEF FsType
<1>. QED BY <1>6 DEF g, l

LEMMA UserRest ==
    ASSUME ConOK(con), Rest, User
    PROVE  Rest'
<1>0. /\ fs \in FsType /\ thread \in [Threads -> Places] /\ prog \in Progs
      /\ typed \in BOOLEAN /\ hist \in HistType
  BY DEF Rest
<1>1. CASE PfCommand \/ Interrupt \/ SendPF03 \/ OtherKey
  BY <1>0, <1>1 DEF PfCommand, SendInput, Interrupt, SendPF03, OtherKey, Key, Rest, Progs
<1>2. CASE Enter
  BY <1>0, <1>2 DEF Enter, SendInput, Key, Rest, Progs
<1>3. CASE \E part \in {"head", "tail", "whole"} : FullscreenInput(part)
  <2>1. PICK part \in {"head", "tail", "whole"} : FullscreenInput(part)
    BY <1>3
  <2>2. fs' \in FsType /\ prog' \in {prog, "fetching"}
    BY <1>0, <2>1, InputProps
  <2>3. typed' \in BOOLEAN /\ UNCHANGED <<thread, hist>>
    BY <2>1 DEF FullscreenInput
  <2>. QED BY <1>0, <2>2, <2>3 DEF Rest, Progs
<1>. QED BY <1>1, <1>2, <1>3 DEF User

LEMMA TickerRest ==
    ASSUME ConOK(con), Rest, Ticker
    PROVE  Rest'
<1>0. /\ fs \in FsType /\ thread \in [Threads -> Places] /\ prog \in Progs
      /\ typed \in BOOLEAN /\ hist \in HistType
  BY DEF Rest
<1>1. CASE SessionTick
  <2>1. (hist.upset \/ con.state \in FsStates) \in BOOLEAN
    BY <1>0 DEF HistType
  <2>2. hist' \in HistType
    BY <1>0, <1>1, <2>1 DEF SessionTick, HistType
  <2>. QED BY <1>0, <1>1, <2>2 DEF SessionTick, Rest
<1>2. CASE TimerTick
  BY <1>0, <1>2, TickProps DEF TimerTick, Rest, Progs
<1>. QED BY <1>1, <1>2 DEF Ticker

-----------------------------------------------------------------------------
(* Reads and the answers to them *)

LEMMA TimersProps == NoTimeout \in Nat /\ -1 =< NoTimeout /\ NoTimeout # -1
  BY TimersAssumption

HistFields == hist \in HistType /\ hist' \in HistType

\* An action that leaves the fullscreen fields alone disturbs no read, if it
\* starts or ends none and leaves the screen to the one that waits.
LEMMA ReadingKept ==
    ASSUME Reading, fs' = fs,
           hist.upset => hist'.upset, hist'.cancelled = hist.cancelled,
           prog' = "fetching" => prog = "fetching",
           prog' = "waiting" => prog = "waiting",
           prog = "waiting" => hist'.upset \/ prog' = "waiting",
           prog' = "waiting" => \/ hist'.upset
                                \/ con'.state = con.state /\ con'.overwritten = con.overwritten,
           thread'["host"].at = "cycle" => thread["host"].at = "cycle" \/ prog' # "waiting"
    PROVE  Reading'
<1>1. /\ OneAnswerPerRead' /\ TransferFrozen' /\ GraceIsOff' /\ LockHasPeriod'
      /\ TimeoutBounded'
  BY DEF Reading, OneAnswerPerRead, TransferFrozen, GraceIsOff, LockHasPeriod, TimeoutBounded
<1>2. FSInUntouched' /\ NoReadInCycle'
  BY DEF Reading, FSInUntouched, NoReadInCycle
<1>3. LockEnds'
  BY DEF Reading, LockEnds, AnswerableRead, TimeoutRuns
<1>. QED BY <1>1, <1>2, <1>3 DEF Reading

LEMMA LinesReading ==
    ASSUME ConOK(con), Rested(con), Rest, Reading, Lines
    PROVE  Reading'
<1>0. /\ con \in ConType /\ hist \in HistType /\ thread \in [Threads -> Places]
      /\ FSInUntouched /\ fs' = fs
  BY DEF ConOK, Rest, Reading, Lines, HostLine, LeavesMore
<1>1. CASE HostLine
  <2>1. /\ con' = AppendHostLine("pipe", <<hist.arrived + 1>>)
        /\ "pipe" \in Threads /\ <<hist.arrived + 1>> \in Seq(Nat)
    BY <1>0, <1>1, BoundsAssumption DEF HostLine, Threads, HistType
  <2>2. con.state \in FsStates => con'.state = con.state /\ con'.overwritten = con.overwritten
    BY <2>1, AppendHostLineProps
  <2>3. hist'.upset = hist.upset /\ hist'.cancelled = hist.cancelled /\ thread'["host"] = thread["host"]
        /\ prog' \in {prog, "hung"} /\ (prog' # prog => prog = "wanted")
    BY <1>0, <1>1 DEF HostLine, GoOn, HistType, Threads
  <2>4. prog = "waiting" => hist.upset \/ con.state \in FsStates
    BY <1>0 DEF FSInUntouched, FsStates
  <2>. QED BY <1>0, <2>2, <2>3, <2>4, ReadingKept
<1>2. CASE \E t \in Threads : LeavesMore(t)
  <2>1. PICK t \in Threads : LeavesMore(t)
    BY <1>2
  <2>2. CASE con.remaining < 2
    <3>1. con'.state = con.state /\ con'.overwritten = con.overwritten
          /\ UNCHANGED <<thread, hist, prog>>
      BY <1>0, <2>1, <2>2 DEF LeavesMore, ConType
    <3>. QED BY <1>0, <3>1, ReadingKept
  <2>3. CASE ~(con.remaining < 2)
    <3>1. (hist.upset => hist'.upset) /\ hist'.cancelled = hist.cancelled
      BY <1>0, <2>1, <2>3 DEF LeavesMore, HistType
    <3>2. con.state \in FsStates => hist'.upset
      BY <1>0, <2>1, <2>3 DEF LeavesMore, HistType
    <3>3. prog = "waiting" => hist'.upset
      BY <1>0, <3>1, <3>2 DEF FSInUntouched, FsStates
    <3>4. thread[t].next \in Nexts
      <4>1. thread[t] \in Places /\ thread[t].at = "more"
        BY <1>0, <2>1 DEF LeavesMore
      <4>2. thread[t] \in {InMore(o, next) : o \in States, next \in Nexts}
        BY <4>1 DEF Places, Nexts, Idle, First, Setting, InCycle
      <4>. QED BY <4>2 DEF InMore
    <3>5. thread[t].next.at # "cycle"
      BY <3>4 DEF Nexts, Idle, Setting
    <3>6. thread' = [thread EXCEPT ![t] = thread[t].next] /\ prog' = prog
      BY <2>1, <2>3 DEF LeavesMore
    <3>7. thread'["host"].at = "cycle" => thread["host"].at = "cycle"
      BY <1>0, <3>5, <3>6 DEF Threads
    <3>. QED BY <1>0, <3>1, <3>3, <3>6, <3>7, ReadingKept
  <2>. QED BY <2>2, <2>3
<1>. QED BY <1>1, <1>2 DEF Lines

LEMMA HostReading ==
    ASSUME ConOK(con), Rested(con), Rest, Reading, Host, ConOK(con')
    PROVE  Reading'
<1>0. /\ con \in ConType /\ hist \in HistType /\ thread \in [Threads -> Places]
      /\ FSInUntouched /\ fs' = fs /\ "host" \in Threads
      /\ con.state \in States /\ con'.state \in States
  BY ConFields DEF ConOK, Rest, Reading, Host, InputState, FirstLine, SetInputState,
     EndCurrentSession, Threads
<1>1. prog = "waiting" => hist.upset \/ con.state = "FSIn"
  BY <1>0 DEF FSInUntouched
<1>2. CASE \E s \in ReadStates \cup {"Running"} : InputState(s)
  <2>1. PICK s \in ReadStates \cup {"Running"} : InputState(s)
    BY <1>2
  <2>2. UNCHANGED <<con, hist>> /\ thread'["host"].at # "cycle"
    BY <1>0, <2>1 DEF InputState, First, Setting
  <2>3. \/ prog' = prog
        \/ prog' \in {"password", "none"} /\ prog # "waiting"
    BY <2>1 DEF InputState
  <2>. QED BY <1>0, <2>2, <2>3, ReadingKept
<1>3. CASE FirstLine
  <2>1. con' = AppendHostLine("host", <<>>) /\ <<>> \in Seq(Nat)
    BY <1>3, EmptySeq DEF FirstLine
  <2>2. con.state \in FsStates => con'.state = con.state /\ con'.overwritten = con.overwritten
    BY <1>0, <2>1, AppendHostLineProps
  <2>3. Setting(thread["host"].new).at # "cycle"
        /\ InMore(con.state, Setting(thread["host"].new)).at # "cycle"
    BY DEF Setting, InMore
  <2>4. thread'["host"].at # "cycle" /\ UNCHANGED <<prog, hist>>
    BY <1>0, <1>3, <2>3 DEF FirstLine, GoOn
  <2>. QED BY <1>0, <1>1, <2>2, <2>4, ReadingKept DEF FsStates
<1>4. CASE SetInputState
  <2>1. con.state \in FsStates => con' = con
    BY <1>4 DEF SetInputState
  <2>2. thread'["host"].at # "cycle" /\ UNCHANGED <<prog, hist>>
    BY <1>0, <1>4 DEF SetInputState, Idle
  <2>. QED BY <1>0, <1>1, <2>1, <2>2, ReadingKept DEF FsStates
<1>5. CASE EndCurrentSession
  <2>1. /\ (hist.upset => hist'.upset) /\ (prog = "waiting" => hist'.upset)
        /\ hist'.cancelled = hist.cancelled
    BY <1>0, <1>5 DEF EndCurrentSession, HistType
  <2>2. prog' \in {prog, "none"} /\ prog' # "waiting"
    BY <1>5 DEF EndCurrentSession
  <2>. QED BY <1>0, <2>1, <2>2, ReadingKept
<1>. QED BY <1>2, <1>3, <1>4, <1>5 DEF Host

LEMMA FullscreenReading ==
    ASSUME ConOK(con), Rest, Reading, Fullscreen, HistFields
    PROVE  Reading'
<1>0. /\ con \in ConType /\ hist \in HistType /\ thread \in [Threads -> Places]
      /\ fs \in FsType /\ "host" \in Threads
      /\ fs.timeout \in Int /\ fs.grace \in Int /\ fs.period \in Int
  BY FsFields DEF ConOK, Rest, Threads
<1>1. CASE \E r \in BOOLEAN : AcquireFullScreen(r)
  BY <1>0, <1>1, ReadingKept DEF AcquireFullScreen, ProgramMayCall
<1>2. CASE MoreCycle
  <2>1. prog # "waiting" /\ UNCHANGED <<fs, hist>> /\ prog' \in {prog, "acquired"}
    BY <1>2 DEF MoreCycle, Reading, NoReadInCycle
  <2>. QED BY <2>1, ReadingKept
<1>3. CASE WriteFullscreen
  BY <1>3, ReadingKept DEF WriteFullscreen
<1>4. CASE (\E b \in BOOLEAN : SetFlowMode(b)) \/ RedrawScreen \/ MayReadFullScreen
  BY <1>4, ReadingKept DEF SetFlowMode, RedrawScreen, MayReadFullScreen, ProgramMayCall
<1>5. CASE \E v \in Timeouts \cup {0} : SetFsLockTimeoutValue(v)
  <2>1. PICK v \in Timeouts \cup {0} : SetFsLockTimeoutValue(v)
    BY <1>5
  <2>2. /\ fs'.timeout = fs.timeout /\ fs'.grace = fs.grace /\ fs'.period = fs.period
        /\ fs'.toFs => fs.toFs
    BY <1>0, <2>1 DEF SetFsLockTimeoutValue, FsType
  <2>3. prog = "none" /\ prog' = prog /\ hist' = hist
    BY <2>1 DEF SetFsLockTimeoutValue, ProgramMayCall
  <2>. QED BY <2>2, <2>3 DEF Reading, OneAnswerPerRead, TransferFrozen, FSInUntouched,
              LockEnds, AnswerableRead, TimeoutRuns, GraceIsOff, LockHasPeriod, TimeoutBounded, NoReadInCycle
<1>6. CASE Reads
  <2>1. PICK timeout \in Timeouts \cup {Cancel, Query, 0}, g \in GracePeriods :
          ReadFullScreen(timeout, g)
    BY <1>6 DEF Reads
  <2>2. /\ g > 0 /\ thread' = thread /\ thread["host"].at # "cycle" /\ prog = "wanted"
    BY <2>1, TimersAssumption DEF ReadFullScreen, Free, Idle
  <2>3. hist.upset => hist'.upset
    BY <1>0, <2>1 DEF ReadFullScreen, HistType
  <2>8. TimeoutBounded'
    BY <1>0, <2>1, ReadProps DEF Reading, TimeoutBounded
  <2>4. CASE con.overwritten /\ fs' = fs /\ prog' = "hung" /\ hist' = hist
    BY <2>2, <2>3, <2>4, ReadingKept
  <2>5. CASE /\ fs'.timeout = -1 /\ prog' = "none" /\ fs'.toFs = fs.toFs
             /\ fs.toFs => fs'.grace = fs.period \/ fs'.grace = g \/ hist'.cancelled
             /\ fs'.period \in {fs.period, g}
    BY <2>2, <2>3, <2>5, <2>8, TimersProps DEF Reading, OneAnswerPerRead, TransferFrozen, FSInUntouched,
       LockEnds, AnswerableRead, TimeoutRuns, GraceIsOff, LockHasPeriod, TimeoutBounded, NoReadInCycle
  <2>6. CASE /\ fs'.timeout = -1 /\ prog' = "fetching" /\ fs'.toFs = fs.toFs
             /\ fs'.complete /\ fs'.locked /\ fs'.period = fs.period
             /\ fs.toFs => fs'.grace = fs.period
    BY <2>2, <2>3, <2>6, <2>8, TimersProps DEF Reading, OneAnswerPerRead, TransferFrozen, FSInUntouched,
       LockEnds, AnswerableRead, TimeoutRuns, GraceIsOff, LockHasPeriod, TimeoutBounded, NoReadInCycle
  <2>7. CASE /\ fs'.timeout > 0 /\ prog' = "waiting" /\ fs'.grace = -1 /\ fs'.period = g
             /\ con'.state = "FSIn" /\ ~con'.overwritten
    <3>1. fs'.timeout \in Int /\ fs' \in FsType
      BY <1>0, <2>1, ReadProps DEF FsType
    <3>2. fs'.timeout >= 0
      BY <2>7, <3>1
    <3>. QED BY <2>2, <2>3, <2>7, <2>8, <3>2
             DEF Reading, OneAnswerPerRead, TransferFrozen, FSInUntouched,
                 LockEnds, AnswerableRead, TimeoutRuns, GraceIsOff, LockHasPeriod, TimeoutBounded, NoReadInCycle
  <2>. QED BY <1>0, <2>1, <2>4, <2>5, <2>6, <2>7, ReadProps
<1>7. CASE TransferCompleted
  <2>1. fs'.timeout = fs.timeout /\ fs'.grace = fs.grace /\ fs'.period = fs.period
        /\ fs'.toFs = fs.toFs
    BY <1>0, <1>7 DEF TransferCompleted, BufferFreed, FsType
  <2>2. prog = "fetching" /\ prog' = "none" /\ hist' = hist
    BY <1>7 DEF TransferCompleted
  <2>. QED BY <2>1, <2>2 DEF Reading, OneAnswerPerRead, TransferFrozen, FSInUntouched,
              LockEnds, AnswerableRead, TimeoutRuns, GraceIsOff, LockHasPeriod, TimeoutBounded, NoReadInCycle
<1>. QED BY <1>1, <1>2, <1>3, <1>4, <1>5, <1>6, <1>7 DEF Fullscreen

LEMMA UserReading ==
    ASSUME ConOK(con), Rest, Reading, User
    PROVE  Reading'
<1>0. /\ hist \in HistType /\ thread' = thread /\ fs \in FsType
      /\ fs.timeout \in Int /\ fs.grace \in Int /\ fs.period \in Int
  BY FsFields
     DEF Rest, User, PfCommand, Enter, Interrupt, SendPF03, OtherKey, Key, FullscreenInput
<1>1. prog = "waiting" => hist.upset \/ con.state = "FSIn"
  BY DEF Reading, FSInUntouched
<1>2. CASE PfCommand \/ Enter \/ Interrupt \/ SendPF03 \/ OtherKey
  <2>1. fs' = fs /\ con.state # "FSIn"
    BY <1>2 DEF PfCommand, Enter, Interrupt, SendPF03, InterruptsEnabled, OtherKey, Key,
       Serial, FsStates
  <2>2. hist'.upset = hist.upset /\ hist'.cancelled = hist.cancelled
    BY <1>0, <1>2 DEF PfCommand, Enter, Interrupt, SendPF03, OtherKey, HistType
  <2>3. prog' \in {prog, "none"}
    BY <1>2 DEF PfCommand, Enter, Interrupt, SendPF03, OtherKey, SendInput
  <2>. QED BY <1>0, <1>1, <2>1, <2>2, <2>3, ReadingKept
<1>3. CASE \E part \in {"head", "tail", "whole"} : FullscreenInput(part)
  <2>1. PICK part \in {"head", "tail", "whole"} : FullscreenInput(part)
    BY <1>3
  <2>2. UNCHANGED <<con, hist>>
    BY <2>1 DEF FullscreenInput
  <2>3. fs'.period = fs.period /\ fs'.toFs = fs.toFs
    BY <1>0, <2>1, InputProps
  <2>4. CASE fs' = fs /\ prog' = prog
    BY <1>0, <2>2, <2>4, ReadingKept
  <2>5. CASE /\ ~fs.complete /\ fs'.timeout = fs.timeout /\ fs'.grace = fs.grace
             /\ prog' = prog
    BY <1>0, <2>2, <2>3, <2>5 DEF Reading, OneAnswerPerRead, TransferFrozen,
       FSInUntouched, LockEnds, AnswerableRead, TimeoutRuns, GraceIsOff, LockHasPeriod, TimeoutBounded, NoReadInCycle
  <2>6. CASE /\ fs'.timeout = -1 /\ prog' = "fetching"
             /\ fs'.complete /\ fs'.locked /\ fs'.grace = GraceAfterInput
    BY <1>0, <2>2, <2>3, <2>6, TimersProps DEF GraceAfterInput, Reading, OneAnswerPerRead,
       TransferFrozen, FSInUntouched, LockEnds, AnswerableRead, TimeoutRuns, GraceIsOff, LockHasPeriod, TimeoutBounded, NoReadInCycle
  <2>. QED BY <1>0, <2>1, <2>4, <2>5, <2>6, InputProps
<1>. QED BY <1>2, <1>3 DEF User

LEMMA TickerReading ==
    ASSUME ConOK(con), Rest, Reading, Ticker
    PROVE  Reading'
<1>0. /\ hist \in HistType /\ thread' = thread /\ fs \in FsType
      /\ fs.timeout \in Int /\ fs.grace \in Int /\ fs.period \in Int
  BY FsFields DEF Rest, Ticker, SessionTick, TimerTick
<1>1. prog = "waiting" => hist.upset \/ con.state = "FSIn"
  BY DEF Reading, FSInUntouched
<1>2. CASE SessionTick
  <2>1. fs' = fs /\ prog' = prog
    BY <1>2 DEF SessionTick
  <2>2. (hist.upset => hist'.upset) /\ hist'.cancelled = hist.cancelled
    BY <1>0, <1>2 DEF SessionTick, HistType
  <2>3. CASE con.ticks > 1
    <3>1. con'.state = con.state /\ con'.overwritten = con.overwritten
      BY <1>2, <2>3 DEF SessionTick, ConOK, ConType
    <3>. QED BY <1>0, <2>1, <2>2, <3>1, ReadingKept
  <2>4. CASE ~(con.ticks > 1)
    <3>1. con.state = "FSIn" => hist'.upset
      BY <1>0, <1>2, <2>4 DEF SessionTick, HistType, FsStates
    <3>. QED BY <1>0, <1>1, <2>1, <2>2, <3>1, ReadingKept
  <2>. QED BY <2>3, <2>4
<1>3. CASE TimerTick
  <2>1. /\ fs'.complete = fs.complete /\ fs'.locked = fs.locked /\ fs'.period = fs.period
        /\ fs'.toFs = (fs.toFs /\ ~GraceEnds)
        /\ fs'.timeout = TimeoutAfterTick
        /\ fs'.grace = IF TimesOut THEN fs.period ELSE IF GraceEnds THEN -1
                       ELSE IF fs.grace > 0 THEN fs.grace - 1 ELSE fs.grace
    BY <1>0, <1>3, TickProps
  <2>2. /\ hist' = hist
        /\ prog' = IF TimesOut /\ prog = "waiting" THEN "none" ELSE prog
        /\ GraceEnds \/ con' = con
    BY <1>3 DEF TimerTick
  <2>3. TimesOut => fs.timeout >= 0 /\ fs'.timeout = -1
    BY <1>0, <2>1 DEF TimesOut, TimeoutRuns, TimeoutAfterTick
  <2>4. ~TimesOut => (fs'.timeout >= 0 <=> fs.timeout >= 0)
    BY <1>0, <2>1 DEF TimesOut, TimeoutRuns, TimeoutAfterTick
  <2>5. OneAnswerPerRead'
    BY <2>2, <2>3, <2>4 DEF Reading, OneAnswerPerRead
  <2>6. TransferFrozen' /\ NoReadInCycle'
    BY <1>0, <2>1, <2>2 DEF Reading, TransferFrozen, NoReadInCycle
  <2>7. prog' = "waiting" => hist.upset \/ con' = con
    BY <1>0, <2>2 DEF Reading, OneAnswerPerRead, GraceIsOff, GraceEnds
  <2>8. FSInUntouched'
    BY <2>2, <2>7 DEF Reading, FSInUntouched
  <2>9. LockHasPeriod' /\ TimeoutBounded'
    <3>1. LockHasPeriod'
      BY <2>1 DEF Reading, LockHasPeriod
    <3>2. TimeoutAfterTick =< NoTimeout
      BY <1>0, TimersProps DEF Reading, TimeoutBounded, TimeoutAfterTick
    <3>. QED BY <2>1, <3>1, <3>2 DEF TimeoutBounded
  <2>11. LockEnds'
    <3> SUFFICES ASSUME fs.toFs, ~GraceEnds PROVE LockEnds'
      BY <2>1 DEF LockEnds
    <3>1. CASE TimesOut
      BY <2>1, <3>1 DEF Reading, LockHasPeriod, LockEnds
    <3>2. CASE TimeoutRuns /\ ~TimesOut
      <4>1. fs'.timeout = fs.timeout - 1 /\ fs'.timeout > 0
        BY <1>0, <2>1, <3>2 DEF TimeoutAfterTick, TimesOut
      <4>2. fs'.timeout < NoTimeout
        BY <1>0, <4>1, TimersAssumption DEF Reading, TimeoutBounded
      <4>. QED BY <4>1, <4>2, TimersAssumption, <1>0 DEF LockEnds, TimeoutRuns
    <3>3. CASE ~TimeoutRuns
      <4>1. fs'.timeout = fs.timeout
        BY <2>1, <3>3 DEF TimeoutAfterTick, TimesOut
      <4>2. fs.grace > 0 => fs'.grace > 0
        BY <1>0, <2>1, <3>3 DEF GraceEnds, TimesOut
      <4>3. hist' = hist /\ con' = con /\ (prog = "waiting" => prog' = "waiting")
        BY <2>2, <3>3 DEF TimesOut
      <4>. QED BY <3>3, <4>1, <4>2, <4>3 DEF Reading, LockEnds, AnswerableRead, TimeoutRuns
    <3>. QED BY <3>1, <3>2, <3>3
  <2>10. GraceIsOff'
    <3>1. TimesOut => ~(fs'.timeout >= 0)
      BY <2>3
    <3>2. CASE ~TimesOut /\ fs.timeout >= 0 /\ ~hist.upset
      <4>1. fs.grace = -1
        BY <3>2 DEF Reading, GraceIsOff
      <4>2. fs'.grace = -1
        BY <2>1, <3>2, <4>1 DEF GraceEnds
      <4>. QED BY <4>2 DEF GraceIsOff
    <3>. QED BY <2>2, <2>4, <3>1, <3>2 DEF GraceIsOff
  <2>. QED BY <2>5, <2>6, <2>8, <2>9, <2>10, <2>11 DEF Reading
<1>. QED BY <1>2, <1>3 DEF Ticker

-----------------------------------------------------------------------------
(* The inductive invariant *)

DrainsOnLineModeOnly == con.drain => ~Pipelined

IInv == TypeOK /\ NoLostWakeup /\ Reading /\ Ordered /\ DrainsOnLineModeOnly

LEMMA TypeSplit == TypeOK <=> ConOK(con) /\ Rest
  BY DEF TypeOK, ConOK, Rest

LEMMA InitIInv == Init => IInv
<1> SUFFICES ASSUME Init PROVE IInv
  OBVIOUS
<1>1. /\ OutZoneRows \in Int /\ 0 \in 0 .. SessionTicks /\ {} \in SUBSET Threads
      /\ <<>> \in Seq(Nat) /\ "Initial" \in States /\ OutZoneRows =< OutZoneRows
  BY RowsAssumption, TicksAssumption, EmptySeq, StateNames
<1>2. con \in ConType /\ con.remaining = OutZoneRows /\ con.waiting = {} /\ con.drain = FALSE
      /\ con.shown = <<>> /\ con.backlog = <<>>
  BY <1>1 DEF Init, ConType
<1>3. fs \in FsType
  BY DEF Init, FsType
<1>4. thread \in [Threads -> Places] /\ prog \in Progs /\ typed \in BOOLEAN
  <2>1. Idle \in Places
    BY DEF Places, Nexts
  <2>. QED BY <2>1 DEF Init, Progs
<1>5. hist \in HistType
  BY BoundsAssumption DEF Init, HistType
<1>6. TypeOK /\ NoLostWakeup /\ DrainsOnLineModeOnly
  <2>1. con.remaining =< OutZoneRows
    BY <1>1, <1>2
  <2>. QED BY <1>2, <1>3, <1>4, <1>5, <2>1 DEF TypeOK, NoLostWakeup, DrainsOnLineModeOnly
<1>7. Reading
  BY TimersProps DEF Init, Reading, OneAnswerPerRead, TransferFrozen, FSInUntouched,
     LockEnds, AnswerableRead, TimeoutRuns, GraceIsOff, LockHasPeriod, TimeoutBounded, NoReadInCycle
<1>8. AllLines(con) = <<>>
  BY <1>1, <1>2, ConcatEmptySeq DEF AllLines
<1>9. hist.arrived = 0
  BY DEF Init
<1>10. Ordered
  BY <1>8, <1>9, EmptySeq DEF Ordered, LinesKept, LinesArrived
<1>. QED BY <1>6, <1>7, <1>10 DEF IInv

LEMMA OrderedIfQuiet ==
    ASSUME Ordered, AllLines(con') = AllLines(con), hist'.arrived = hist.arrived
    PROVE  Ordered'
  BY DEF Ordered, LinesKept, LinesArrived

LEMMA OrderedIfArrived ==
    ASSUME ConOK(con), Ordered, hist.arrived \in Nat, hist'.arrived = hist.arrived + 1,
           \/ AllLines(con') = AllLines(con) \o <<hist.arrived + 1>>
           \/ AllLines(con') = AllLines(con) /\ ~Pipelined
    PROVE  Ordered'
<1> DEFINE a == AllLines(con)
           b == AllLines(con')
           n == hist.arrived + 1
<1>1. a \in Seq(Nat) /\ Len(a) \in Nat /\ DOMAIN a = 1 .. Len(a)
  BY ConFields, ConcatProperties, LenProperties DEF ConOK, AllLines
<1>2. n \in Nat
  OBVIOUS
<1>3. /\ \A i, j \in DOMAIN a : i < j => a[i] < a[j]
      /\ \A i \in DOMAIN a : a[i] =< hist.arrived
      /\ Pipelined => Len(a) = hist.arrived
  BY DEF Ordered, LinesKept, LinesArrived
<1> HIDE DEF a, b
<1>4. SUFFICES /\ \A i, j \in DOMAIN b : i < j => b[i] < b[j]
               /\ \A i \in DOMAIN b : b[i] =< n
               /\ Pipelined => Len(b) = n
  BY DEF Ordered, LinesKept, LinesArrived, a, b
<1>5. \A i \in DOMAIN a : a[i] \in Nat
  BY <1>1, ElementOfSeq
<1>6. CASE b = a \o <<n>>
  <2>1. /\ Len(b) = Len(a) + 1 /\ DOMAIN b = 1 .. Len(a) + 1
        /\ \A i \in 1 .. Len(a) : b[i] = a[i]
        /\ b[Len(a) + 1] = n
    <3>1. b = Append(a, n)
      BY <1>1, <1>2, <1>6, AppendIsConcat
    <3>. QED BY <1>1, <1>2, <3>1, AppendProperties, LenProperties
  <2>2. \A i \in DOMAIN a : b[i] < n /\ b[i] \in Nat
    BY <1>1, <1>3, <1>5, <2>1
  <2>3. \A i \in DOMAIN b : i \in DOMAIN a \/ i = Len(a) + 1
    BY <1>1, <2>1
  <2>4. \A i, j \in DOMAIN b : i < j => b[i] < b[j]
    <3> SUFFICES ASSUME NEW i \in DOMAIN b, NEW j \in DOMAIN b, i < j
                 PROVE  b[i] < b[j]
      OBVIOUS
    <3>1. i \in DOMAIN a
      BY <1>1, <2>1
    <3>2. CASE j \in DOMAIN a
      BY <1>1, <1>3, <2>1, <3>1, <3>2
    <3>3. CASE j = Len(a) + 1
      BY <2>1, <2>2, <3>1, <3>3
    <3>. QED BY <2>3, <3>2, <3>3
  <2>5. \A i \in DOMAIN b : b[i] =< n
    BY <1>2, <2>1, <2>2, <2>3
  <2>6. Pipelined => Len(b) = n
    BY <1>3, <2>1
  <2>. QED BY <2>4, <2>5, <2>6
<1>7. CASE b = a /\ ~Pipelined
  BY <1>1, <1>3, <1>5, <1>7
<1>. QED BY <1>6, <1>7 DEF a, b

LEMMA HostLineStep ==
    ASSUME IInv, HostLine
    PROVE  IInv'
<1>1. ConOK(con) /\ Rest /\ Rested(con) /\ Reading /\ Ordered /\ DrainsOnLineModeOnly
  BY TypeSplit DEF IInv, NoLostWakeup, Rested
<1>2. hist.arrived \in Nat /\ hist'.arrived = hist.arrived + 1 /\ "pipe" \in Threads
  BY <1>1, BoundsAssumption DEF HostLine, Rest, HistType, Threads
<1>3. con' = AppendHostLine("pipe", <<hist.arrived + 1>>) /\ <<hist.arrived + 1>> \in Seq(Nat)
  BY <1>2 DEF HostLine
<1>4. /\ ConOK(con') /\ Rested(con') /\ con'.drain = con.drain
      /\ \/ AllLines(con') = AllLines(con) \o <<hist.arrived + 1>>
         \/ con.drain /\ AllLines(con') = AllLines(con)
  BY <1>1, <1>2, <1>3, AppendHostLineProps
<1>5. Ordered'
  BY <1>1, <1>2, <1>4, OrderedIfArrived DEF DrainsOnLineModeOnly
<1>6. Rest' /\ Reading'
  BY <1>1, <1>4, LinesRest, LinesReading DEF Lines
<1>7. TypeOK'
  BY <1>4, <1>6 DEF TypeOK, ConOK, Rest
<1>. QED BY <1>1, <1>4, <1>5, <1>6, <1>7 DEF IInv, NoLostWakeup, Rested, DrainsOnLineModeOnly

LEMMA OtherStep ==
    ASSUME IInv, (\E t \in Threads : LeavesMore(t)) \/ Host \/ Fullscreen \/ User \/ Ticker
    PROVE  IInv'
<1>1. ConOK(con) /\ Rest /\ Rested(con) /\ Reading /\ Ordered /\ DrainsOnLineModeOnly
  BY TypeSplit DEF IInv, NoLostWakeup, Rested
<1>2. Quiet(con')
  BY <1>1, LeavesMoreQuiet, HostQuiet, FullscreenQuiet, UserQuiet, TickerQuiet
<1>3. ConOK(con') /\ Rested(con') /\ AllLines(con') = AllLines(con) /\ DrainsOnLineModeOnly'
  BY <1>1, <1>2 DEF Quiet, DrainsOnLineModeOnly
<1>4. Rest'
  BY <1>1, <1>3, LinesRest, HostRest, FullscreenRest, UserRest, TickerRest DEF Lines
<1>5. Reading'
  <2>1. HistFields
    BY <1>1, <1>4 DEF Rest, HistFields
  <2>. QED BY <1>1, <1>3, <2>1, LinesReading, HostReading, FullscreenReading, UserReading,
              TickerReading DEF Lines
<1>6. hist'.arrived = hist.arrived
  <2>1. hist \in HistType
    BY <1>1 DEF Rest
  <2>. QED BY <2>1 DEF HistType, LeavesMore, Host, InputState, FirstLine, SetInputState,
              EndCurrentSession, Fullscreen, AcquireFullScreen, MoreCycle, WriteFullscreen,
              SetFsLockTimeoutValue, SetFlowMode, RedrawScreen, MayReadFullScreen, Reads,
              ReadFullScreen, TransferCompleted, User, PfCommand, Enter, Interrupt, SendPF03,
              OtherKey, FullscreenInput, Ticker, SessionTick, TimerTick
<1>7. TypeOK'
  BY <1>3, <1>4 DEF TypeOK, ConOK, Rest
<1>. QED BY <1>1, <1>3, <1>5, <1>6, <1>7, OrderedIfQuiet DEF IInv, NoLostWakeup, Rested

LEMMA NextIInv == IInv /\ [Next]_vars => IInv'
<1>1. ASSUME IInv, UNCHANGED vars PROVE IInv'
  BY <1>1 DEF vars, IInv, TypeOK, NoLostWakeup, Reading, OneAnswerPerRead, TransferFrozen,
     FSInUntouched, LockEnds, AnswerableRead, TimeoutRuns, GraceIsOff, LockHasPeriod, TimeoutBounded, NoReadInCycle, Ordered, LinesKept,
     LinesArrived, DrainsOnLineModeOnly
<1>. QED BY <1>1, HostLineStep, OtherStep DEF Next, Lines

-----------------------------------------------------------------------------
(* The results *)

\* The console's fields, the fullscreen fields and what the threads keep have
\* their types, and More never counts up more rows than the page has.
THEOREM TypeCorrect == Spec => []TypeOK
  BY InitIInv, NextIInv, PTL DEF Spec, IInv

\* Every method that makes room on the page wakes the threads that sleep in
\* the More state; none sleeps while there is room.
THEOREM NoWakeupIsLost == Spec => []NoLostWakeup
  BY InitIInv, NextIInv, PTL DEF Spec, IInv

\* Lines reach the screen in the order in which they arrived, through the
\* backlog or past it, and on a 3270 connection none is lost.
THEOREM LinesAreKept == Spec => []LinesKept
  BY InitIInv, NextIInv, PTL DEF Spec, IInv, Ordered

\* A fullscreen read is pending exactly while the program waits for it.
THEOREM ReadsAnsweredOnce == Spec => []OneAnswerPerRead
  BY InitIInv, NextIInv, PTL DEF Spec, IInv, Reading

\* What is being sent to the host is a complete input and is not sent twice.
THEOREM TransferIsFrozen == Spec => []TransferFrozen
  BY InitIInv, NextIInv, PTL DEF Spec, IInv, Reading

\* Nothing the console does draws over a program that waits for input.
THEOREM ScreenUntouched == Spec => []FSInUntouched
  BY InitIInv, NextIInv, PTL DEF Spec, IInv, Reading

\* Output held back for a program has a timer that ends the wait.
THEOREM LocksEnd == Spec => []LockEnds
  BY InitIInv, NextIInv, PTL DEF Spec, IInv, Reading
=============================================================================
