---------------------------- MODULE IndFile_proofs ----------------------------
(***************************************************************************)
(* Proofs about a run of IND$FILE, for any commands, files, codes, sizes of *)
(* panels and any number of upsets: how it ends.                           *)
(***************************************************************************)
EXTENDS IndFile, SequenceTheorems, TLAPS

-----------------------------------------------------------------------------
(* The inductive invariant *)

JobFields == {"pc", "code", "then", "open", "next"}
ScrFields == {"lock", "acked"}
TermFields == {"text", "left", "got", "told"}
HistFields == {"before", "lost", "refused", "bad", "mistaken", "untold", "errors"}

Shapes ==
    /\ DOMAIN job = JobFields /\ DOMAIN scr = ScrFields
    /\ DOMAIN term = TermFields /\ DOMAIN hist = HistFields
    /\ \E S : term.told \in Seq(S)

\* The terminal knows that the run is over.
IsTold == term.told # <<>> /\ scr.lock = "released"
\* Nothing more can be asked of the program.
Excused == hist.lost \/ hist.refused \/ hist.bad
NobodyToTell == scr.lock = "never" /\ (~req.remote \/ req.mecaff # "ok")

Beginning == {"main", "GET", "TST", "PUT", "test"}
Afterwards == {"end", "read", "receive", "rest", "close", "convert"}

\* Before the first panel the terminal is not locked.
NothingShown == job.pc \in Beginning => scr.lock = "never"

\* A status that ends the run is no acknowledgement.
Final ==
    job.pc = "status" =>
        /\ job.then \in Afterwards
        /\ job.then \in {"end", "close"} => job.code # Ack

\* The file is closed before the last status, or after it on the way out.
ClosedInTime ==
    job.pc \in {"main", "GET", "TST", "PUT", "eof", "end"}
        \/ (job.pc = "status" /\ job.then = "end") => ~job.open

EndsTold ==
    /\ job.pc = "close" => IsTold \/ Excused
    /\ job.pc = "end" => IsTold \/ Excused \/ NobodyToTell
    /\ job.pc = "test" => ~req.remote

IInv == Shapes /\ NothingShown /\ Final /\ ClosedInTime /\ EndsTold

-----------------------------------------------------------------------------
(* How the program goes on *)

LEMMA Goes ==
    ASSUME DOMAIN job = JobFields, NEW pc, Go(pc)
    PROVE  /\ DOMAIN job' = JobFields /\ job'.pc = pc
           /\ job'.code = job.code /\ job'.then = job.then /\ job'.open = job.open
BY DEF Go, JobFields

LEMMA Sends ==
    ASSUME DOMAIN job = JobFields, NEW code, NEW then, SendStatus(code, then)
    PROVE  /\ DOMAIN job' = JobFields /\ job'.pc = "status"
           /\ job'.code = code /\ job'.then = then /\ job'.open = job.open
BY DEF SendStatus, JobFields

LEMMA Closes ==
    ASSUME DOMAIN job = JobFields, NEW pc, Close(pc)
    PROVE  /\ DOMAIN job' = JobFields /\ job'.pc = pc /\ ~job'.open
           /\ job'.code = job.code /\ job'.then = job.then
<1>1. job' = [job EXCEPT !.pc = pc, !.open = FALSE]
  BY DEF Close
<1>2. job'.open = FALSE
  BY <1>1 DEF JobFields
<1>. QED BY <1>1, <1>2 DEF JobFields

\* A round trip never takes the screen again once it was given back.
LEMMA Trips ==
    ASSUME DOMAIN scr = ScrFields, NEW o, NEW releases, NEW acked, RoundTrip(o, releases, acked)
    PROVE  /\ DOMAIN scr' = ScrFields
           /\ scr.lock = "released" => scr'.lock = "released"
           /\ releases /\ o # "unwritten" => scr'.lock = "released"
<1> DEFINE lock == IF releases /\ (o # "unwritten" \/ scr.lock # "never") THEN "released"
                   ELSE IF o # "unwritten" /\ scr.lock = "never" THEN "held"
                   ELSE scr.lock
<1>1. scr' = [acked |-> acked, lock |-> lock]
  BY DEF RoundTrip
<1>2. /\ scr.lock = "released" => lock = "released"
      /\ releases /\ o # "unwritten" => lock = "released"
  OBVIOUS
<1> HIDE DEF lock
<1>3. DOMAIN scr' = ScrFields /\ scr'.lock = lock
  BY <1>1 DEF ScrFields
<1>. QED BY <1>2, <1>3

\* What was told, given back or excused stays so.
Onward ==
    /\ DOMAIN scr' = ScrFields /\ DOMAIN term' = TermFields /\ DOMAIN hist' = HistFields
    /\ \E S : term'.told \in Seq(S)
    /\ IsTold \/ Excused => (IsTold \/ Excused)'
    /\ UNCHANGED req

LEMMA Unmoved ==
    ASSUME Shapes, UNCHANGED <<req, scr, term, hist>>
    PROVE  Onward
BY DEF Shapes, Onward, IsTold, Excused

\* What a round trip does besides: it may be lost, the terminal may be told.
LEMMA TripOnward ==
    ASSUME Shapes, UNCHANGED req, NEW o, NEW releases, NEW acked, RoundTrip(o, releases, acked),
           DOMAIN term' = TermFields, DOMAIN hist' = HistFields,
           term'.told = term.told \/ \E code : term'.told = Append(term.told, code),
           Excused => Excused'
    PROVE  Onward
<1>1. /\ DOMAIN scr' = ScrFields
      /\ scr.lock = "released" => scr'.lock = "released"
  BY Trips DEF Shapes
<1>2. PICK S : term.told \in Seq(S)
  BY DEF Shapes
<1>3. CASE term'.told = term.told
  BY <1>1, <1>2, <1>3 DEF Onward, IsTold
<1>4. CASE \E code : term'.told = Append(term.told, code)
  <2>1. PICK code : term'.told = Append(term.told, code)
    BY <1>4
  <2> DEFINE T == S \cup {code}
  <2>2. term.told \in Seq(T) /\ code \in T
    BY <1>2, SeqMonotonic
  <2> HIDE DEF T
  <2>3. Append(term.told, code) \in Seq(T) /\ Append(term.told, code) # <<>>
    BY <2>2, AppendProperties
  <2>. QED BY <1>1, <2>1, <2>3 DEF Onward, IsTold
<1>. QED BY <1>3, <1>4

\* The history of a round trip.
LEMMA LostTrip ==
    ASSUME DOMAIN hist = HistFields, NEW o, hist' = [hist EXCEPT !.lost = Lost(o)]
    PROVE  /\ DOMAIN hist' = HistFields /\ (Excused => Excused')
           /\ Outcome[o] < 0 => Excused'
<1> DEFINE lost == Lost(o)
<1>1. (hist.lost => lost) /\ (Outcome[o] < 0 => lost)
  BY DEF Lost
<1> HIDE DEF lost
<1>2. hist' = [hist EXCEPT !.lost = lost]
  BY DEF lost
<1>3. DOMAIN hist' = HistFields
  BY <1>2
<1>4. hist'.lost = lost /\ hist'.refused = hist.refused /\ hist'.bad = hist.bad
  BY <1>2 DEF HistFields
<1>. QED BY <1>1, <1>3, <1>4, Zenon DEF Excused

\* Where the program stands, and what that asks for.
LEMMA Arrives ==
    ASSUME IInv, Onward, DOMAIN job' = JobFields,
           job'.pc \in Beginning => scr'.lock = "never",
           job'.pc = "status" => job'.then \in Afterwards /\ (job'.then \in {"end", "close"} => job'.code # Ack),
           job'.pc \in {"main", "GET", "TST", "PUT", "eof", "end"}
               \/ (job'.pc = "status" /\ job'.then = "end") => ~job'.open,
           job'.pc \in {"close", "end"} => (IsTold \/ Excused)' \/ (NobodyToTell' /\ job'.pc = "end"),
           job'.pc = "test" => ~req.remote
    PROVE  IInv'
<1>1. Shapes'
  BY DEF Onward, Shapes
<1>2. NothingShown' /\ Final' /\ ClosedInTime'
  BY DEF NothingShown, Final, ClosedInTime
<1>3. EndsTold'
  BY DEF EndsTold, Onward
<1>. QED BY <1>1, <1>2, <1>3 DEF IInv

-----------------------------------------------------------------------------
(* The steps *)

LEMMA MainKeeps == ASSUME IInv, Main PROVE IInv'
<1>1. /\ job.pc = "main" /\ scr.lock = "never" /\ ~job.open /\ DOMAIN job = JobFields
      /\ UNCHANGED <<req, scr, term, hist>> /\ Shapes
  BY DEF Main, Files, IInv, Shapes, NothingShown, ClosedInTime, Beginning
<1>2. Onward
  BY <1>1, Unmoved
<1>3. \/ SendStatus(AbortXmit, "end")
      \/ Go("end") /\ (~req.remote \/ req.mecaff # "ok")
      \/ Go("PUT") \/ Go("GET")
      \/ Go("TST")
  BY DEF Main, Testing
<1>4. CASE SendStatus(AbortXmit, "end")
  BY <1>1, <1>2, <1>4, Sends, Arrives DEF Afterwards, Beginning, Ack, AbortXmit
<1>5. CASE Go("end") /\ (~req.remote \/ req.mecaff # "ok")
  <2>1. NobodyToTell'
    BY <1>1, <1>5 DEF NobodyToTell
  <2>. QED BY <1>1, <1>2, <1>5, <2>1, Goes, Arrives DEF Beginning
<1>6. CASE Go("PUT") \/ Go("GET") \/ Go("TST")
  BY <1>1, <1>2, <1>6, Goes, Arrives DEF Beginning
<1>. QED BY <1>3, <1>4, <1>5, <1>6

\* A panel with a status: the acknowledgement first, if there was none.
LEMMA StatusKeeps == ASSUME IInv, Status PROVE IInv'
<1>1. /\ job.pc = "status" /\ job.then \in Afterwards /\ DOMAIN job = JobFields
      /\ (job.then \in {"end", "close"} => job.code # Ack)
      /\ (job.then = "end" => ~job.open)
      /\ UNCHANGED req /\ Shapes
  BY DEF Status, IInv, Shapes, Final, ClosedInTime
<1>2. PICK o \in DOMAIN Outcome :
         IF ~scr.acked /\ job.code # Ack
         THEN /\ RoundTrip(o, FALSE, Outcome[o] = 0)
              /\ Go(IF Outcome[o] = 0 THEN "status" ELSE job.then)
              /\ hist' = [hist EXCEPT !.lost = Lost(o), !.refused = @ \/ Outcome[o] > 0,
                                      !.untold = @ \/ Outcome[o] # 0]
              /\ UNCHANGED term
         ELSE /\ RoundTrip(o, Releases(job.code), TRUE)
              /\ Go(job.then)
              /\ hist' = [hist EXCEPT !.lost = Lost(o), !.untold = @ \/ o = "unwritten"]
              /\ term' = IF o = "unwritten" \/ job.code = Ack THEN term
                         ELSE [term EXCEPT !.told = Append(@, job.code)]
  BY DEF Status
<1>3. Outcome[o] \in Int
  BY DEF Outcome
<1>4. CASE ~scr.acked /\ job.code # Ack
  <2>1. /\ RoundTrip(o, FALSE, Outcome[o] = 0) /\ UNCHANGED term
        /\ Go(IF Outcome[o] = 0 THEN "status" ELSE job.then)
    BY <1>2, <1>4
  <2> DEFINE lost == Lost(o)
             refused == hist.refused \/ Outcome[o] > 0
             untold == hist.untold \/ Outcome[o] # 0
  <2>2. hist' = [hist EXCEPT !.lost = lost, !.refused = refused, !.untold = untold]
    BY <1>2, <1>4
  <2>3. /\ hist.lost => lost
        /\ hist.refused => refused
        /\ Outcome[o] # 0 => lost \/ refused
    BY <1>3 DEF Lost
  <2> HIDE DEF lost, refused, untold
  <2>4. DOMAIN hist' = HistFields /\ hist'.lost = lost /\ hist'.refused = refused /\ hist'.bad = hist.bad
    BY <1>1, <2>2 DEF Shapes, HistFields
  <2>5. (Excused => Excused') /\ (Outcome[o] # 0 => Excused')
    BY <2>3, <2>4, Zenon DEF Excused
  <2>6. Onward
    BY <1>1, <2>1, <2>4, <2>5, TripOnward DEF Shapes
  <2>7. CASE Outcome[o] = 0
    BY <1>1, <2>1, <2>6, <2>7, Goes, Arrives DEF Beginning
  <2>8. CASE Outcome[o] # 0
    BY <1>1, <2>1, <2>5, <2>6, <2>8, Goes, Arrives DEF Beginning, Afterwards
  <2>. QED BY <2>7, <2>8
<1>5. CASE ~(~scr.acked /\ job.code # Ack)
  <2>1. /\ RoundTrip(o, Releases(job.code), TRUE) /\ Go(job.then)
        /\ term' = IF o = "unwritten" \/ job.code = Ack THEN term
                   ELSE [term EXCEPT !.told = Append(@, job.code)]
    BY <1>2, <1>5
  <2> DEFINE lost == Lost(o)
             untold == hist.untold \/ o = "unwritten"
  <2>2. hist' = [hist EXCEPT !.lost = lost, !.untold = untold]
    BY <1>2, <1>5
  <2>3. /\ hist.lost => lost
        /\ o = "unwritten" => lost
    BY DEF Lost, Outcome
  <2> HIDE DEF lost, untold
  <2>4. DOMAIN hist' = HistFields /\ hist'.lost = lost /\ hist'.refused = hist.refused /\ hist'.bad = hist.bad
    BY <1>1, <2>2 DEF Shapes, HistFields
  <2>5. (Excused => Excused') /\ (o = "unwritten" => Excused')
    BY <2>3, <2>4, Zenon DEF Excused
  <2>6. /\ DOMAIN term' = TermFields
        /\ term'.told = term.told \/ \E code : term'.told = Append(term.told, code)
        /\ o # "unwritten" /\ job.code # Ack => term'.told = Append(term.told, job.code)
    BY <1>1, <2>1 DEF Shapes, TermFields
  <2>7. Onward
    BY <1>1, <2>1, <2>4, <2>5, <2>6, TripOnward
  <2>8. o # "unwritten" /\ job.code # Ack => IsTold'
    <3>1. SUFFICES ASSUME o # "unwritten", job.code # Ack PROVE IsTold'
      OBVIOUS
    <3>2. scr'.lock = "released"
      <4>1. Releases(job.code)
        BY <3>1 DEF Releases
      <4>. QED BY <1>1, <2>1, <3>1, <4>1, Trips DEF Shapes
    <3>3. term'.told = Append(term.told, job.code)
      BY <2>6, <3>1
    <3>4. PICK S : term.told \in Seq(S)
      BY <1>1 DEF Shapes
    <3> DEFINE T == S \cup {job.code}
    <3>5. term.told \in Seq(T) /\ job.code \in T
      BY <3>4, SeqMonotonic
    <3> HIDE DEF T
    <3>6. Append(term.told, job.code) # <<>>
      BY <3>5, AppendProperties
    <3>. QED BY <3>2, <3>3, <3>6 DEF IsTold
  <2>9. job.then \in {"close", "end"} => (IsTold \/ Excused)'
    BY <1>1, <2>5, <2>8
  <2>. QED BY <1>1, <2>1, <2>7, <2>9, Goes, Arrives DEF Beginning, Afterwards
<1>. QED BY <1>4, <1>5

LEMMA CloseFileKeeps == ASSUME IInv, CloseFile PROVE IInv'
<1>1. /\ job.pc = "close" /\ (IsTold \/ Excused) /\ DOMAIN job = JobFields /\ Close("end")
      /\ UNCHANGED <<req, scr, term, hist>> /\ Shapes
  BY DEF CloseFile, IInv, Shapes, EndsTold
<1>2. Onward
  BY <1>1, Unmoved
<1>3. (IsTold \/ Excused)'
  BY <1>1, <1>2 DEF Onward
<1>. QED BY <1>1, <1>2, <1>3, Closes, Arrives DEF Beginning

LEMMA OpenReadKeeps == ASSUME IInv, OpenRead PROVE IInv'
<1>1. /\ job.pc \in {"GET", "TST"} /\ scr.lock = "never" /\ ~job.open /\ DOMAIN job = JobFields
      /\ UNCHANGED <<req, scr, term, hist>> /\ Shapes
  BY DEF OpenRead, IInv, Shapes, NothingShown, ClosedInTime, Beginning
<1>2. Onward
  BY <1>1, Unmoved
<1>3. \/ Testing /\ job' = [job EXCEPT !.pc = "test", !.open = TRUE]
      \/ job' = [job EXCEPT !.pc = "status", !.code = Ack, !.then = "read", !.open = TRUE]
      \/ Testing /\ Go("end")
      \/ SendStatus(AbortXmit, "end")
  BY DEF OpenRead, Tell
<1>4. CASE Testing /\ job' = [job EXCEPT !.pc = "test", !.open = TRUE]
  <2>1. DOMAIN job' = JobFields /\ job'.pc = "test" /\ ~req.remote
    BY <1>1, <1>4 DEF JobFields, Testing
  <2>. QED BY <1>1, <1>2, <2>1, Arrives
<1>5. CASE job' = [job EXCEPT !.pc = "status", !.code = Ack, !.then = "read", !.open = TRUE]
  <2>1. DOMAIN job' = JobFields /\ job'.pc = "status" /\ job'.then = "read"
    BY <1>1, <1>5 DEF JobFields
  <2>. QED BY <1>1, <1>2, <2>1, Arrives DEF Beginning, Afterwards
<1>6. CASE Testing /\ Go("end")
  <2>1. NobodyToTell'
    BY <1>1, <1>6 DEF NobodyToTell, Testing
  <2>. QED BY <1>1, <1>2, <1>6, <2>1, Goes, Arrives DEF Beginning
<1>7. CASE SendStatus(AbortXmit, "end")
  BY <1>1, <1>2, <1>7, Sends, Arrives DEF Afterwards, Beginning, Ack, AbortXmit
<1>. QED BY <1>3, <1>4, <1>5, <1>6, <1>7

LEMMA ReadKeeps == ASSUME IInv, Read PROVE IInv'
<1>1. /\ DOMAIN job = JobFields /\ UNCHANGED <<req, scr, term, hist>> /\ Shapes
  BY DEF Read, IInv, Shapes
<1>2. Onward
  BY <1>1, Unmoved
<1>3. \/ Close("rest")
      \/ \E pc \in {"send", "read"} : job' = [job EXCEPT !.next = @ + 1, !.pc = pc]
      \/ SendStatus(AbortFile, "rest") \/ SendStatus(AbortXmit, "rest")
  BY DEF Read
<1>4. CASE Close("rest")
  BY <1>1, <1>2, <1>4, Closes, Arrives DEF Beginning
<1>5. CASE \E pc \in {"send", "read"} : job' = [job EXCEPT !.next = @ + 1, !.pc = pc]
  <2>1. DOMAIN job' = JobFields /\ job'.pc \in {"send", "read"}
    BY <1>1, <1>5 DEF JobFields
  <2>. QED BY <1>1, <1>2, <2>1, Arrives DEF Beginning
<1>6. CASE SendStatus(AbortFile, "rest") \/ SendStatus(AbortXmit, "rest")
  BY <1>1, <1>2, <1>6, Sends, Arrives DEF Beginning, Afterwards
<1>. QED BY <1>3, <1>4, <1>5, <1>6

\* A panel with data: it was lost, it is refused, or the program goes on.
LEMMA DataSent ==
    ASSUME IInv, UNCHANGED req, NEW frame, NEW after, SendData(frame, after)
    PROVE  /\ Onward
           /\ \/ Close("end") /\ Excused'
              \/ SendStatus(AbortXmit, "close")
              \/ job' = after
<1>1. PICK o \in DOMAIN Outcome :
         /\ RoundTrip(o, FALSE, scr.acked)
         /\ hist' = [hist EXCEPT !.lost = Lost(o)]
         /\ term' = IF o = "enter" /\ term.told = <<>> THEN [term EXCEPT !.got = @ \o frame] ELSE term
         /\ IF Outcome[o] < 0 THEN Close("end")
            ELSE IF Outcome[o] > 0 THEN SendStatus(AbortXmit, "close")
            ELSE job' = after
  BY DEF SendData
<1>2. Shapes
  BY DEF IInv
<1>3. /\ DOMAIN hist' = HistFields /\ (Excused => Excused')
      /\ Outcome[o] < 0 => Excused'
  BY <1>1, <1>2, LostTrip DEF Shapes
<1>4. DOMAIN term' = TermFields /\ term'.told = term.told
  BY <1>1, <1>2 DEF Shapes, TermFields
<1>5. Onward
  BY <1>1, <1>2, <1>3, <1>4, TripOnward
<1>. QED BY <1>1, <1>3, <1>5

\* What the three that send data have in common.
LEMMA DataKeeps ==
    ASSUME IInv, UNCHANGED req, NEW frame, NEW after, SendData(frame, after),
           job' = after =>
               /\ DOMAIN job' = JobFields
               /\ \/ job'.pc = "read"
                  \/ job'.pc = "eof" /\ ~job'.open
                  \/ job'.pc = "status" /\ job'.then = "end" /\ job'.code # Ack /\ ~job'.open
    PROVE  IInv'
<1>1. /\ Onward
      /\ \/ Close("end") /\ Excused'
         \/ SendStatus(AbortXmit, "close")
         \/ job' = after
  BY DataSent
<1>2. DOMAIN job = JobFields
  BY DEF IInv, Shapes
<1>3. CASE Close("end") /\ Excused'
  BY <1>1, <1>2, <1>3, Closes, Arrives DEF Beginning
<1>4. CASE SendStatus(AbortXmit, "close")
  BY <1>1, <1>2, <1>4, Sends, Arrives DEF Beginning, Afterwards, Ack, AbortXmit
<1>5. CASE job' = after
  BY <1>1, <1>5, Arrives DEF Beginning, Afterwards
<1>. QED BY <1>1, <1>3, <1>4, <1>5

LEMMA SendFrameKeeps == ASSUME IInv, SendFrame PROVE IInv'
<1> DEFINE after == [job EXCEPT !.pc = "read"]
<1>1. DOMAIN after = JobFields /\ after.pc = "read"
  BY DEF IInv, Shapes, JobFields
<1>2. UNCHANGED req /\ SendData(SubSeq(conv.codes, 1, FrameSize), after)
  BY DEF SendFrame
<1> HIDE DEF after
<1>. QED BY <1>1, <1>2, DataKeeps

LEMMA SendRestKeeps == ASSUME IInv, SendRest PROVE IInv'
<1> DEFINE after == [job EXCEPT !.pc = "eof"]
<1>1. DOMAIN job = JobFields
  BY DEF IInv, Shapes
<1>2. DOMAIN after = JobFields /\ after.pc = "eof" /\ after.open = job.open
  BY <1>1 DEF JobFields
<1>3. \/ UNCHANGED <<req, scr, term, hist>> /\ Close("rest")
      \/ UNCHANGED <<req, scr, term, hist>> /\ ~job.open /\ job' = after
      \/ UNCHANGED req /\ ~job.open /\ SendData(conv.codes, after)
  BY DEF SendRest, Go
<1> HIDE DEF after
<1>4. CASE UNCHANGED <<req, scr, term, hist>> /\ Close("rest")
  <2>1. Onward
    BY <1>4, Unmoved DEF IInv
  <2>. QED BY <1>1, <1>4, <2>1, Closes, Arrives DEF Beginning
<1>5. CASE UNCHANGED <<req, scr, term, hist>> /\ ~job.open /\ job' = after
  <2>1. Onward
    BY <1>5, Unmoved DEF IInv
  <2>. QED BY <1>2, <1>5, <2>1, Arrives DEF Beginning
<1>6. CASE UNCHANGED req /\ ~job.open /\ SendData(conv.codes, after)
  BY <1>2, <1>6, DataKeeps
<1>. QED BY <1>3, <1>4, <1>5, <1>6

LEMMA SendEofKeeps == ASSUME IInv, SendEof PROVE IInv'
<1> DEFINE after == [job EXCEPT !.pc = "status", !.code = Complete, !.then = "end"]
<1>1. DOMAIN job = JobFields /\ ~job.open
  BY DEF IInv, Shapes, ClosedInTime, SendEof
<1>2. /\ DOMAIN after = JobFields /\ after.pc = "status" /\ after.then = "end"
      /\ after.code = Complete /\ after.open = job.open
  BY <1>1 DEF JobFields
<1>3. UNCHANGED req /\ SendData(EndOfFile, after)
  BY DEF SendEof
<1> HIDE DEF after
<1>. QED BY <1>1, <1>2, <1>3, DataKeeps DEF Complete, Ack

LEMMA TestKeeps == ASSUME IInv, Test PROVE IInv'
<1>1. /\ job.pc = "test" /\ scr.lock = "never" /\ ~req.remote /\ Close("end") /\ Shapes
      /\ DOMAIN job = JobFields /\ UNCHANGED <<req, scr, term>>
  BY DEF Test, IInv, Shapes, NothingShown, Beginning, EndsTold
<1>2. DOMAIN hist' = HistFields /\ (Excused => Excused')
  <2>1. PICK e : hist' = hist \/ hist' = [hist EXCEPT !.errors = e]
    BY DEF Test
  <2>2. /\ DOMAIN hist' = HistFields
        /\ hist'.lost = hist.lost /\ hist'.refused = hist.refused /\ hist'.bad = hist.bad
    BY <1>1, <2>1 DEF Shapes, HistFields
  <2>. QED BY <2>2, Zenon DEF Excused
<1>3. Onward
  BY <1>1, <1>2 DEF Onward, Shapes, IsTold
<1>4. NobodyToTell'
  BY <1>1 DEF NobodyToTell
<1>. QED BY <1>1, <1>3, <1>4, Closes, Arrives DEF Beginning

LEMMA OpenWriteKeeps == ASSUME IInv, OpenWrite PROVE IInv'
<1>1. /\ job.pc = "PUT" /\ ~job.open /\ DOMAIN job = JobFields
      /\ UNCHANGED <<req, scr, term, hist>> /\ Shapes
  BY DEF OpenWrite, IInv, Shapes, ClosedInTime
<1>2. Onward
  BY <1>1, Unmoved
<1>3. \/ job' = [job EXCEPT !.pc = "status", !.code = Ack, !.then = "receive", !.open = TRUE]
      \/ SendStatus(AbortXmit, "end")
  BY DEF OpenWrite
<1>4. CASE job' = [job EXCEPT !.pc = "status", !.code = Ack, !.then = "receive", !.open = TRUE]
  <2>1. DOMAIN job' = JobFields /\ job'.pc = "status" /\ job'.then = "receive"
    BY <1>1, <1>4 DEF JobFields
  <2>. QED BY <1>1, <1>2, <2>1, Arrives DEF Beginning, Afterwards
<1>5. CASE SendStatus(AbortXmit, "end")
  BY <1>1, <1>2, <1>5, Sends, Arrives DEF Afterwards, Beginning, Ack, AbortXmit
<1>. QED BY <1>3, <1>4, <1>5

LEMMA ReceiveKeeps == ASSUME IInv, Receive PROVE IInv'
<1>1. UNCHANGED req /\ Shapes /\ DOMAIN job = JobFields
  BY DEF Receive, IInv, Shapes
<1>2. \/ \E codes, o, m :
            /\ RoundTrip(o, FALSE, scr.acked)
            /\ term' = term \/ term' = [term EXCEPT !.left = SubSeq(@, Len(codes) + 1, Len(@))]
            /\ hist' = [hist EXCEPT !.mistaken = m]
            /\ Go("last") \/ Go("convert")
      \/ \E o \in DOMAIN Outcome \ {"enter"} :
            /\ RoundTrip(o, FALSE, scr.acked)
            /\ hist' = [hist EXCEPT !.lost = Lost(o)]
            /\ IF Outcome[o] < 0 THEN Close("end") ELSE SendStatus(AbortXmit, "close")
            /\ UNCHANGED <<term, conv>>
  BY DEF Receive
<1>3. CASE \E codes, o, m :
            /\ RoundTrip(o, FALSE, scr.acked)
            /\ term' = term \/ term' = [term EXCEPT !.left = SubSeq(@, Len(codes) + 1, Len(@))]
            /\ hist' = [hist EXCEPT !.mistaken = m]
            /\ Go("last") \/ Go("convert")
  <2>1. PICK codes, o, m :
            /\ RoundTrip(o, FALSE, scr.acked)
            /\ term' = term \/ term' = [term EXCEPT !.left = SubSeq(@, Len(codes) + 1, Len(@))]
            /\ hist' = [hist EXCEPT !.mistaken = m]
            /\ Go("last") \/ Go("convert")
    BY <1>3
  <2>2. DOMAIN term' = TermFields /\ term'.told = term.told
    BY <1>1, <2>1 DEF Shapes, TermFields
  <2>3. /\ DOMAIN hist' = HistFields
        /\ hist'.lost = hist.lost /\ hist'.refused = hist.refused /\ hist'.bad = hist.bad
    BY <1>1, <2>1 DEF Shapes, HistFields
  <2>4. Excused => Excused'
    BY <2>3, Zenon DEF Excused
  <2>5. Onward
    BY <1>1, <2>1, <2>2, <2>3, <2>4, TripOnward
  <2>. QED BY <1>1, <2>1, <2>5, Goes, Arrives DEF Beginning
<1>4. CASE \E o \in DOMAIN Outcome \ {"enter"} :
            /\ RoundTrip(o, FALSE, scr.acked)
            /\ hist' = [hist EXCEPT !.lost = Lost(o)]
            /\ IF Outcome[o] < 0 THEN Close("end") ELSE SendStatus(AbortXmit, "close")
            /\ UNCHANGED <<term, conv>>
  <2>1. PICK o \in DOMAIN Outcome \ {"enter"} :
            /\ RoundTrip(o, FALSE, scr.acked)
            /\ hist' = [hist EXCEPT !.lost = Lost(o)]
            /\ IF Outcome[o] < 0 THEN Close("end") ELSE SendStatus(AbortXmit, "close")
            /\ UNCHANGED <<term, conv>>
    BY <1>4
  <2>2. /\ DOMAIN hist' = HistFields /\ (Excused => Excused')
        /\ Outcome[o] < 0 => Excused'
    BY <1>1, <2>1, LostTrip DEF Shapes
  <2>3. Onward
    BY <1>1, <2>1, <2>2, TripOnward DEF Shapes
  <2>4. CASE Outcome[o] < 0
    BY <1>1, <2>1, <2>2, <2>3, <2>4, Closes, Arrives DEF Beginning
  <2>5. CASE ~(Outcome[o] < 0)
    BY <1>1, <2>1, <2>3, <2>5, Sends, Arrives DEF Beginning, Afterwards, Ack, AbortXmit
  <2>. QED BY <2>4, <2>5
<1>. QED BY <1>2, <1>3, <1>4

LEMMA ConvertKeeps == ASSUME IInv, Convert PROVE IInv'
<1>1. UNCHANGED <<req, scr, term>> /\ Shapes /\ DOMAIN job = JobFields
  BY DEF Convert, IInv, Shapes
<1>2. PICK d : /\ \/ d.k = "bad" /\ Close("end")
                  \/ Go("write") \/ Go("convert")
               /\ hist' = [hist EXCEPT !.bad = @ \/ d.k = "bad"]
  BY DEF Convert
<1> DEFINE bad == hist.bad \/ d.k = "bad"
<1>3. hist' = [hist EXCEPT !.bad = bad]
  BY <1>2
<1>4. (hist.bad => bad) /\ (d.k = "bad" => bad)
  OBVIOUS
<1> HIDE DEF bad
<1>5. /\ DOMAIN hist' = HistFields
      /\ hist'.lost = hist.lost /\ hist'.refused = hist.refused /\ hist'.bad = bad
  BY <1>1, <1>3 DEF Shapes, HistFields
<1>6. (Excused => Excused') /\ (d.k = "bad" => Excused')
  BY <1>4, <1>5, Zenon DEF Excused
<1>7. Onward
  BY <1>1, <1>5, <1>6 DEF Onward, Shapes, IsTold
<1>8. CASE d.k = "bad" /\ Close("end")
  BY <1>1, <1>6, <1>7, <1>8, Closes, Arrives DEF Beginning
<1>9. CASE Go("write") \/ Go("convert")
  BY <1>1, <1>7, <1>9, Goes, Arrives DEF Beginning
<1>. QED BY <1>2, <1>8, <1>9

LEMMA WriteKeeps == ASSUME IInv, Write \/ WriteLast PROVE IInv'
<1>1. UNCHANGED <<req, scr, term, hist>> /\ Shapes /\ DOMAIN job = JobFields
  BY DEF Write, WriteLast, IInv, Shapes
<1>2. Onward
  BY <1>1, Unmoved
<1>3. \/ Go("complete") \/ Go("convert") \/ Go("write")
      \/ SendStatus(AbortXmit, "close") \/ SendStatus(AbortXmit, "convert")
  BY DEF Write, WriteLast
<1>4. CASE Go("complete") \/ Go("convert") \/ Go("write")
  BY <1>1, <1>2, <1>4, Goes, Arrives DEF Beginning
<1>5. CASE SendStatus(AbortXmit, "close") \/ SendStatus(AbortXmit, "convert")
  BY <1>1, <1>2, <1>5, Sends, Arrives DEF Beginning, Afterwards, Ack, AbortXmit
<1>. QED BY <1>3, <1>4, <1>5

LEMMA PutCompleteKeeps == ASSUME IInv, PutComplete PROVE IInv'
<1>1. UNCHANGED <<req, scr, term, hist>> /\ Shapes /\ DOMAIN job = JobFields
  BY DEF PutComplete, Files, IInv, Shapes
<1>2. Onward
  BY <1>1, Unmoved
<1>3. job' = [job EXCEPT !.pc = "status", !.code = Complete, !.then = "end", !.open = FALSE]
  BY DEF PutComplete
<1>4. /\ DOMAIN job' = JobFields /\ job'.pc = "status" /\ job'.code = Complete
      /\ job'.then = "end" /\ job'.open = FALSE
  BY <1>1, <1>3 DEF JobFields
<1>. QED BY <1>2, <1>4, Arrives DEF Beginning, Afterwards, Complete, Ack

-----------------------------------------------------------------------------
(* The theorem *)

LEMMA InitInv == Init => IInv
<1>. SUFFICES ASSUME Init PROVE IInv
  OBVIOUS
<1>1. /\ job = [pc |-> "main", code |-> Ack, then |-> "end", open |-> FALSE, next |-> 1]
      /\ scr = [lock |-> "never", acked |-> FALSE]
      /\ DOMAIN hist = HistFields
  BY DEF Init, HistFields
<1>2. DOMAIN term = TermFields /\ term.told = <<>>
  BY DEF Init, TermFields
<1>3. Shapes
  BY <1>1, <1>2, EmptySeq DEF Shapes, JobFields, ScrFields
<1>. QED BY <1>1, <1>3 DEF IInv, NothingShown, Final, ClosedInTime, EndsTold, Beginning

LEMMA StepInv == IInv /\ [Next]_vars => IInv'
<1>. SUFFICES ASSUME IInv, [Next]_vars PROVE IInv'
  OBVIOUS
<1>1. CASE Main \/ Status \/ CloseFile
  BY <1>1, MainKeeps, StatusKeeps, CloseFileKeeps
<1>2. CASE OpenRead \/ Read \/ SendFrame \/ SendRest \/ SendEof \/ Test
  BY <1>2, OpenReadKeeps, ReadKeeps, SendFrameKeeps, SendRestKeeps, SendEofKeeps, TestKeeps
<1>3. CASE OpenWrite \/ Receive \/ Convert \/ Write \/ WriteLast \/ PutComplete
  BY <1>3, OpenWriteKeeps, ReceiveKeeps, ConvertKeeps, WriteKeeps, PutCompleteKeeps
<1>4. CASE UNCHANGED vars
  BY <1>4 DEF vars, IInv, Shapes, NothingShown, Final, ClosedInTime, EndsTold, IsTold, Excused,
              NobodyToTell
<1>. QED BY <1>1, <1>2, <1>3, <1>4 DEF Next

\* A run that ends has closed its file, told the terminal and given the screen
\* back, whatever panel, answer or call of CMS failed and however often, but
\* for the ways out that process_get(), process_put() and main() leave open.
THEOREM EndsAreTold == Spec => []EndIsTold
<1>1. IInv => EndIsTold
  BY DEF IInv, EndsTold, ClosedInTime, EndIsTold, IsTold, Excused, NobodyToTell
<1>. QED BY <1>1, InitInv, StepInv, PTL DEF Spec
===============================================================================
