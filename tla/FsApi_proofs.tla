----------------------------- MODULE FsApi_proofs -----------------------------
(***************************************************************************)
(* Proofs about the calls of fsio.c, for any programs, terminals, sizes of *)
(* chunks and bounds: whose answer a call reads, what the screen shows,    *)
(* that an input that was reported stays, and that inputs arrive whole.    *)
(***************************************************************************)
EXTENDS FsApi, SequenceTheorems, WellFoundedInduction, TLAPS

-----------------------------------------------------------------------------
(* The inductive invariant *)

IsSeq(s) == \E S : s \in Seq(S)

Shapes ==
    /\ DOMAIN con = {"sid", "fs", "over", "grace", "wants", "waits", "chunks", "callback",
                     "lock", "toFs", "part", "shown"}
    /\ DOMAIN job = {"fn", "cmd", "data", "t", "room", "pc", "got", "used", "n"}
    /\ IsSeq(stack) /\ IsSeq(con.chunks) /\ IsSeq(con.wants) /\ IsSeq(con.waits)
    /\ typed \in [made : Nat, underway : Nat] /\ typed.underway =< typed.made

Each(s, P(_)) == \A i \in 1 .. Len(s) : P(s[i])

\* Nobody has typed a line: what is under way belongs to the call that reads,
\* and its last line ends it.
Mine(line) == line.n = job.n /\ line.k # "typed"
More(line) == line.k = "i"
NotMore(line) == line.k # "i"
OfThisCall(asked) == asked.n = job.n
ReadsInput == job.pc \in {"answer", "rest"} /\ ServedBy(job.fn) = "fsrdp"

NothingUnderWay ==
    stack = <<>> /\ con.chunks = <<>> /\ con.wants = <<>> /\ con.waits = <<>>

Orderly ==
    IF Reading
      THEN /\ Each(stack, Mine) /\ Each(con.chunks, Mine)
           /\ Each(con.wants, OfThisCall) /\ Each(con.waits, OfThisCall)
           /\ \A i \in 1 .. Len(stack) - 1 : More(stack[i])
           /\ \A i \in 1 .. Len(con.chunks) - 1 : More(con.chunks[i])
           /\ con.chunks # <<>> => Each(stack, More)
           /\ stack # <<>> \/ con.chunks # <<>> => con.wants = <<>> /\ con.waits = <<>>
           /\ ~ReadsInput => /\ Each(stack, NotMore) /\ Each(con.chunks, NotMore)
                             /\ con.wants = <<>> /\ con.waits = <<>>
      ELSE NothingUnderWay

\* Somebody has: lines of an earlier transfer may come in between.
Fits(line) == line.k = "typed" \/ line.n = job.n \/ line.k \in {"E", "i", "I"}
Disturbed ==
    Reading =>
        /\ Each(stack, Fits)
        /\ prompt /\ con.wants = <<>> => Each(con.chunks, Fits)
        /\ (\E i \in 1 .. Len(stack) : More(stack[i])) => Each(con.chunks, Fits)

\* The call, and a write on its way to the screen.
Calling ==
    /\ job.pc # "idle" => job.fn \in ApiFunctions
    /\ job.pc = "request" => job.fn # "qtrm"
    /\ job.pc # "idle" /\ job.fn = "fswr" => job.data \in Streams
    /\ job.pc = "answer" /\ job.fn = "fswr" => con.part = <<>>
    /\ job.pc = "chunks" =>
          /\ job.fn = "fswr" /\ job.got \in Seq(Nat)
          /\ con.part \o job.got = job.data \/ ~con.fs
    /\ job.pc = "rest" => ServedBy(job.fn) = "fsrdp"
    /\ con.part \in Seq(Nat)
    /\ ScreenWhole

Lines ==
    /\ Shapes
    /\ typed.made = 0 => Orderly
    /\ Disturbed

Core == Lines /\ Calling

\* What the console keeps of an input is one.
Received ==
    /\ DOMAIN rcv = {"data", "complete", "locked"}
    /\ rcv.data \in Seq(Nat)

IInv == Core /\ Received

-----------------------------------------------------------------------------
(* Sequences of lines *)

LEMMA SeqNone == IsSeq(<<>>) /\ Len(<<>>) = 0
BY EmptySeq DEF IsSeq

LEMMA SeqOne ==
    ASSUME NEW x
    PROVE  IsSeq(<<x>>) /\ Len(<<x>>) = 1 /\ <<x>>[1] = x
<1>1. <<x>> \in Seq({x})
  OBVIOUS
<1>. QED BY <1>1 DEF IsSeq

LEMMA SeqAppend ==
    ASSUME NEW s, IsSeq(s), NEW x
    PROVE  /\ IsSeq(Append(s, x)) /\ Len(s) \in Nat /\ Len(Append(s, x)) = Len(s) + 1
           /\ \A i \in 1 .. Len(s) : Append(s, x)[i] = s[i]
           /\ Append(s, x)[Len(s) + 1] = x
           /\ Append(s, x) # <<>>
<1>1. PICK S : s \in Seq(S)
  BY DEF IsSeq
<1> DEFINE T == S \cup {x}
<1>2. s \in Seq(T) /\ x \in T
  BY <1>1, SeqMonotonic
<1> HIDE DEF T
<1>. QED BY <1>2, AppendProperties, LenProperties DEF IsSeq

LEMMA SeqFirst ==
    ASSUME NEW x
    PROVE  LET s == Append(<<>>, x)
           IN  IsSeq(s) /\ Len(s) = 1 /\ s[1] = x /\ s # <<>>
<1>1. Append(<<>>, x) = <<x>>
  OBVIOUS
<1>2. <<x>> # <<>>
  BY SeqOne, SeqNone
<1>. QED BY <1>1, <1>2, SeqOne

LEMMA SeqTake ==
    ASSUME NEW s, IsSeq(s), s # <<>>
    PROVE  /\ IsSeq(Tail(s)) /\ Len(s) \in Nat \ {0} /\ Len(Tail(s)) = Len(s) - 1
           /\ \A i \in 1 .. Len(s) - 1 : Tail(s)[i] = s[i + 1]
           /\ Head(s) = s[1]
           /\ Len(s) = 1 => Tail(s) = <<>>
<1>1. PICK S : s \in Seq(S)
  BY DEF IsSeq
<1>2. /\ Tail(s) \in Seq(S) /\ Len(s) \in Nat \ {0} /\ Len(Tail(s)) = Len(s) - 1
      /\ \A i \in 1 .. Len(s) - 1 : Tail(s)[i] = s[i + 1]
      /\ Head(s) = s[1]
  BY <1>1, HeadTailProperties, EmptySeq
<1>3. Len(Tail(s)) = 0 => Tail(s) = <<>>
  BY <1>2, EmptySeq
<1>. QED BY <1>2, <1>3 DEF IsSeq

LEMMA SeqLen ==
    ASSUME NEW s, IsSeq(s)
    PROVE  Len(s) \in Nat /\ (s = <<>> <=> Len(s) = 0)
<1>1. PICK S : s \in Seq(S)
  BY DEF IsSeq
<1>. QED BY <1>1, EmptySeq, LenProperties

LEMMA SeqFunction ==
    ASSUME NEW n \in Nat, NEW f, f = [i \in 1 .. n |-> f[i]]
    PROVE  IsSeq(f) /\ Len(f) = n
<1> DEFINE T == {f[i] : i \in 1 .. n}
<1>1. \A i \in 1 .. n : f[i] \in T
  OBVIOUS
<1>2. f \in Seq(T) /\ Len(f) = n
  <2> HIDE DEF T
  <2>1. f \in [1 .. n -> T]
    BY <1>1
  <2>2. f \in Seq(T)
    BY <2>1
  <2>3. DOMAIN f = 1 .. Len(f) /\ Len(f) \in Nat
    BY <2>2, LenProperties
  <2>4. DOMAIN f = 1 .. n
    BY <2>1
  <2>. QED BY <2>2, <2>3, <2>4
<1>. QED BY <1>2 DEF IsSeq

-----------------------------------------------------------------------------
(* The lines of a transfer *)

LEMMA AtLeastOnce ==
    ASSUME NEW a \in Nat, NEW b \in Nat \ {0}, a >= b
    PROVE  a \div b \in Nat \ {0}
OBVIOUS

LEMMA TransferLines ==
    ASSUME NEW asked, NEW bytes \in Seq(Nat)
    PROVE  LET t == Transfer(asked, bytes)
           IN  /\ IsSeq(t) /\ t # <<>> /\ Len(t) \in Nat \ {0, 1}
               /\ \A i \in 1 .. Len(t) :
                     /\ t[i].n = asked.n
                     /\ t[i].k = IF i < Len(t) THEN "i" ELSE "I"
<1> DEFINE t == Transfer(asked, bytes)
           len == Len(bytes)
           full == IF len =< ChunkSize THEN 1 ELSE (len - 1) \div ChunkSize
           size == IF len =< ChunkSize THEN 1 ELSE ChunkSize
           piece(i) == SubSeq(bytes, (i - 1) * size + 1, i * size)
           line(i) == IF i =< full THEN AnswerTo(asked, "i", EncodeData(piece(i)))
                      ELSE AnswerTo(asked, "I", EncodeData(SubSeq(bytes, full * size + 1, len)))
<1>1. len \in Nat /\ ChunkSize \in Nat \ {0}
  BY LenProperties, ApiAssumption
<1>2. full \in Nat \ {0}
  <2> HIDE DEF len
  <2>1. CASE len =< ChunkSize
    BY <2>1
  <2>2. CASE ~(len =< ChunkSize)
    <3>1. len - 1 \in Nat /\ len - 1 >= ChunkSize
      BY <1>1, <2>2
    <3>. QED BY <1>1, <2>2, <3>1, AtLeastOnce
  <2>. QED BY <2>1, <2>2
<1>3. t = [i \in 1 .. full + 1 |-> line(i)]
  BY DEF Transfer
<1>4. \A i \in 1 .. full + 1 : line(i).n = asked.n /\ line(i).k = IF i =< full THEN "i" ELSE "I"
  BY DEF AnswerTo
<1> HIDE DEF line, full, t
<1>5. t = [i \in 1 .. full + 1 |-> t[i]] /\ \A i \in 1 .. full + 1 : t[i] = line(i)
  BY <1>3
<1>6. IsSeq(t) /\ Len(t) = full + 1
  BY <1>2, <1>5, SeqFunction
<1>7. t # <<>>
  BY <1>2, <1>6, SeqLen
<1>8. \A i \in 1 .. full + 1 : i =< full <=> i < full + 1
  BY <1>2
<1>. QED BY <1>2, <1>4, <1>5, <1>6, <1>7, <1>8 DEF t

-----------------------------------------------------------------------------
(* A chunk of a write arrives as it was sent *)

LEMMA DataArrives ==
    ASSUME NEW bytes \in Seq(Nat)
    PROVE  DecodeData(EncodeData(bytes), Len(EncodeData(bytes)) + 1).data = bytes
<1> DEFINE n == Len(bytes)
           s == EncodeData(bytes)
           ends == {i \in DOMAIN s : s[i].last}
           len == IF ends = {} THEN n + 1 ELSE CHOOSE i \in ends : \A j \in ends : i =< j
           got == IF len < n + 1 THEN len ELSE IF n + 1 > 0 THEN n + 1 - 1 ELSE 0
<1>1. n \in Nat /\ DOMAIN bytes = 1 .. n
  BY LenProperties
<1>2. DOMAIN s = 1 .. n /\ \A i \in 1 .. n : s[i].v = bytes[i] /\ s[i].last = (i = n)
  BY <1>1 DEF EncodeData
<1>3. Len(s) = n
  <2>1. s = [i \in 1 .. n |-> s[i]]
    BY <1>1 DEF EncodeData
  <2> HIDE DEF s
  <2>. QED BY <1>1, <2>1, SeqFunction
<1>4. got = n
  <2>1. \A i \in DOMAIN s : s[i].last <=> i = n
    BY <1>2
  <2> HIDE DEF s, n
  <2>2. CASE n = 0
    <3>1. ends = {}
      BY <1>2, <2>2
    <3>. QED BY <2>2, <3>1
  <2>3. CASE n > 0
    <3>1. n \in DOMAIN s
      <4>1. n \in 1 .. n
        BY <1>1, <2>3
      <4>. QED BY <1>2, <4>1
    <3>2. ends = {n}
      BY <2>1, <3>1
    <3> DEFINE first == CHOOSE i \in {n} : \A j \in {n} : i =< j
    <3>3. first = n
      BY <1>1
    <3>4. len = first
      BY <3>2
    <3>5. len = n
      BY <3>3, <3>4
    <3> HIDE DEF ends, first, len
    <3>. QED BY <1>1, <3>5
  <2>. QED BY <1>1, <2>2, <2>3
<1>5. DecodeData(s, Len(s) + 1).data = [i \in 1 .. got |-> IF i \in DOMAIN s THEN s[i].v ELSE 0]
  BY <1>3 DEF DecodeData
<1> HIDE DEF got, s
<1>6. [i \in 1 .. got |-> IF i \in DOMAIN s THEN s[i].v ELSE 0] = [i \in 1 .. n |-> bytes[i]]
  BY <1>2, <1>4
<1>7. bytes = [i \in 1 .. n |-> bytes[i]]
  BY <1>1, LenProperties
<1>. QED BY <1>5, <1>6, <1>7 DEF s

-----------------------------------------------------------------------------
(* What a command line does to the console *)

Fields == {"sid", "fs", "over", "grace", "wants", "waits", "chunks", "callback",
           "lock", "toFs", "part", "shown"}

Asked(wants) == \E t : wants = <<[t |-> t, n |-> job.n]>>

\* A command line is answered by one line for this call, or by nothing; only
\* the two with data, and a write, touch what is shown and what is collected.
LEMMA HandledFacts ==
    ASSUME Shapes, NEW k, NEW body,
           k \in {"T", "t", "C", "W", "I", "&", "|"}
    PROVE  LET c == Handled(con, k, body)
           IN  /\ DOMAIN c = Fields
               /\ c.waits = con.waits /\ c.shown = con.shown
               /\ c.part = IF k = "W" THEN <<>> ELSE con.part
               /\ k \in {"&", "|"} => c.chunks = con.chunks /\ c.wants = con.wants
               /\ k \in {"T", "t", "C", "W"} =>
                     /\ c.wants = con.wants
                     /\ \E b : c.chunks = <<Answer(k, b)>>
               /\ k = "I" =>
                     \/ c.wants = con.wants /\ \E b : c.chunks = <<Answer("E", b)>>
                     \/ c.chunks = con.chunks /\ Asked(c.wants)
<1>. USE DEF Fields
<1>1. CASE k = "T"
  BY <1>1 DEF Handled, Shapes
<1>2. CASE k \in {"t", "C"}
  BY <1>2 DEF Handled, Shapes
<1>3. CASE k = "W"
  <2> DEFINE sid == DecodeInt(body)
             cmd == DecodeInt(sid.rest)
  <2>1. Handled(con, k, body) =
          IF sid.val # con.sid
            THEN [con EXCEPT !.chunks = <<Answer("W", EncodeInt(2))>>, !.part = <<>>]
            ELSE Acquired(con, cmd.val)
    BY <1>3 DEF Handled
  <2> HIDE DEF sid, cmd
  <2>. QED BY <1>3, <2>1 DEF Acquired, Shapes
<1>4. CASE k = "I"
  <2> DEFINE sid     == DecodeInt(body)
             timeout == DecodeInt(sid.rest)
             t       == IF timeout.ok THEN timeout.val ELSE NoTimeout
  <2>1. Handled(con, k, body) =
          IF sid.val # con.sid THEN [con EXCEPT !.chunks = <<Answer("E", EncodeInt(2))>>]
          ELSE IF con.over THEN [con EXCEPT !.chunks = <<Answer("E", EncodeInt(1))>>]
          ELSE [con EXCEPT !.wants = <<[t |-> t, n |-> job.n]>>]
    BY <1>4 DEF Handled
  <2> HIDE DEF sid, timeout, t
  <2>. QED BY <1>4, <2>1 DEF Shapes, Asked
<1>5. CASE k \in {"&", "|"}
  BY <1>5 DEF Handled, Shapes
<1>. QED BY <1>1, <1>2, <1>3, <1>4, <1>5

LEMMA ChunkFacts ==
    ASSUME Shapes, con.part \in Seq(Nat), NEW k \in {"f", "F"}, NEW bytes \in Seq(Nat)
    PROVE  LET c == Handled(con, k, EncodeData(bytes))
           IN  /\ DOMAIN c = Fields
               /\ c.waits = con.waits /\ c.wants = con.wants /\ c.chunks = con.chunks
               /\ c.fs = con.fs
               /\ c.part = con.part \o bytes
               /\ c.shown = IF k = "F" /\ con.fs THEN con.part \o bytes ELSE con.shown
<1>. USE DEF Fields
<1> DEFINE e == EncodeData(bytes)
           d == DecodeData(e, Len(e) + 1).data
           w == con.part \o d
<1>1. d = bytes
  BY DataArrives
<1>2. CASE k = "f"
  <2>1. Handled(con, k, e) = [con EXCEPT !.part = @ \o d]
    BY <1>2 DEF Handled
  <2> HIDE DEF e, d
  <2>. QED BY <1>1, <1>2, <2>1 DEF Shapes, e
<1>3. CASE k = "F"
  <2>1. Handled(con, k, e) = Shown(con, w)
    BY <1>3 DEF Handled
  <2>2. w = con.part \o bytes
    BY <1>1
  <2> HIDE DEF e, d, w
  <2>. QED BY <1>3, <2>1, <2>2 DEF Shapes, Shown, e
<1>. QED BY <1>2, <1>3

-----------------------------------------------------------------------------
(* The lines under way: steps of the program *)

JobFields == {"fn", "cmd", "data", "t", "room", "pc", "got", "used", "n"}

\* A step before the call reads, or after.
LEMMA QuietStep ==
    ASSUME Lines, UNCHANGED <<stack, typed>>, DOMAIN con' = Fields, DOMAIN job' = JobFields,
           con'.chunks = con.chunks, con'.wants = con.wants, con'.waits = con.waits,
           ~Reading, ~Reading'
    PROVE  Lines'
<1>1. Shapes'
  BY DEF Lines, Shapes, Fields, JobFields
<1>2. typed'.made = 0 => Orderly'
  BY DEF Lines, Orderly, NothingUnderWay
<1>3. Disturbed'
  BY DEF Disturbed
<1>. QED BY <1>1, <1>2, <1>3 DEF Lines

\* A command line is sent: what is under way then is its answer.
LEMMA CommandStep ==
    ASSUME Lines, ~Reading, stack' = <<>>, UNCHANGED typed,
           DOMAIN job' = JobFields, job'.n = job.n,
           NEW k \in {"T", "t", "C", "W", "I", "&", "|"}, NEW body,
           con' = Handled(con, k, body),
           Reading' <=> k \notin {"&", "|"},
           k = "I" <=> ReadsInput'
    PROVE  Lines'
<1>. USE DEF Fields
<1>1. /\ DOMAIN con' = Fields
      /\ con'.waits = con.waits
      /\ k \in {"&", "|"} => con'.chunks = con.chunks /\ con'.wants = con.wants
      /\ k \in {"T", "t", "C", "W"} =>
            /\ con'.wants = con.wants
            /\ \E b : con'.chunks = <<Answer(k, b)>>
      /\ k = "I" =>
            \/ con'.wants = con.wants /\ \E b : con'.chunks = <<Answer("E", b)>>
            \/ con'.chunks = con.chunks /\ Asked(con'.wants)
  <2>1. Shapes
    BY DEF Lines
  <2> HIDE DEF Fields
  <2> DEFINE c == Handled(con, k, body)
  <2>2. /\ DOMAIN c = Fields /\ c.waits = con.waits
        /\ k \in {"&", "|"} => c.chunks = con.chunks /\ c.wants = con.wants
    BY <2>1, HandledFacts
  <2>3. k \in {"T", "t", "C", "W"} => c.wants = con.wants /\ \E b : c.chunks = <<Answer(k, b)>>
    BY <2>1, HandledFacts
  <2>4. k = "I" =>
            \/ c.wants = con.wants /\ \E b : c.chunks = <<Answer("E", b)>>
            \/ c.chunks = con.chunks /\ Asked(c.wants)
    BY <2>1, HandledFacts
  <2>5. con' = c
    OBVIOUS
  <2> HIDE DEF c
  <2>. QED BY <2>2, <2>3, <2>4, <2>5
<1>2. IsSeq(con.chunks) /\ IsSeq(con.wants) /\ IsSeq(con.waits)
  BY DEF Lines, Shapes
<1>3. Len(<<>>) = 0 /\ IsSeq(<<>>)
  BY SeqNone
\* an answer to the call is all that is under way
<1>4. ASSUME NEW b, NEW l \in {"T", "t", "C", "W", "E"}, con'.chunks = <<Answer(l, b)>>,
             con'.wants = con.wants, l = "E" <=> k = "I", Reading'
      PROVE  Lines'
  <2> DEFINE a == Answer(l, b)
  <2>1. a.n = job'.n /\ a.k = l
    BY DEF Answer
  <2>2. IsSeq(con'.chunks) /\ Len(con'.chunks) = 1 /\ con'.chunks[1] = a
    BY <1>4, SeqOne
  <2>3. \A i \in 1 .. Len(con'.chunks) : con'.chunks[i] = a
    BY <2>2
  <2>4. Shapes'
    BY <1>1, <1>2, <1>3, <1>4, <2>2 DEF Lines, Shapes, JobFields
  <2>5. typed'.made = 0 => Orderly'
    <3> HIDE DEF a
    <3>1. SUFFICES ASSUME typed.made = 0 PROVE Orderly'
      OBVIOUS
    <3>2. NothingUnderWay
      BY <3>1 DEF Lines, Orderly
    <3>3. Each(con.chunks, Mine)' /\ Each(con.chunks, NotMore)'
      BY <2>1, <2>3 DEF Each, Mine, NotMore
    <3>4. con'.wants = <<>> /\ con'.waits = <<>>
      BY <1>1, <1>4, <3>2 DEF NothingUnderWay
    <3>. QED BY <1>3, <1>4, <2>2, <3>3, <3>4 DEF Orderly, Each
  <2>6. Disturbed'
    <3> HIDE DEF a
    <3>1. Each(con.chunks, Fits)'
      BY <2>1, <2>3 DEF Each, Fits
    <3>. QED BY <1>3, <3>1 DEF Disturbed, Each
  <2>. QED BY <2>4, <2>5, <2>6 DEF Lines
<1>5. CASE k \in {"T", "t", "C", "W"}
  BY <1>1, <1>4, <1>5
<1>6. CASE k = "I"
  <2>1. CASE con'.wants = con.wants /\ \E b : con'.chunks = <<Answer("E", b)>>
    BY <1>4, <1>6, <2>1
  <2>2. CASE con'.chunks = con.chunks /\ Asked(con'.wants)
    <3>1. PICK t : con'.wants = <<[t |-> t, n |-> job.n]>>
      BY <2>2 DEF Asked
    <3>2. IsSeq(con'.wants) /\ Len(con'.wants) = 1 /\ con'.wants[1].n = job.n
      BY <3>1, SeqOne
    <3>3. con'.wants # <<>>
      BY <3>2, SeqLen
    <3>4. Shapes'
      BY <1>1, <1>2, <1>3, <2>2, <3>2 DEF Lines, Shapes, JobFields
    <3>5. typed'.made = 0 => Orderly'
      <4>1. SUFFICES ASSUME typed.made = 0 PROVE Orderly'
        OBVIOUS
      <4>2. NothingUnderWay
        BY <4>1 DEF Lines, Orderly
      <4>. QED BY <1>1, <1>3, <1>6, <2>2, <3>2, <4>2
               DEF Orderly, Each, NothingUnderWay, OfThisCall
    <3>6. Disturbed'
      BY <1>3, <3>3 DEF Disturbed, Each
    <3>. QED BY <3>4, <3>5, <3>6 DEF Lines
  <2>. QED BY <1>1, <1>6, <2>1, <2>2
<1>7. CASE k \in {"&", "|"}
  <2>1. Shapes'
    BY <1>1, <1>2, <1>3, <1>7 DEF Lines, Shapes, JobFields
  <2>2. typed'.made = 0 => Orderly'
    BY <1>1, <1>7 DEF Lines, Orderly, NothingUnderWay
  <2>3. Disturbed'
    BY <1>7 DEF Disturbed
  <2>. QED BY <2>1, <2>2, <2>3 DEF Lines
<1>. QED BY <1>5, <1>6, <1>7

\* A line is read: only after a chunk that is not the last the call reads on.
LEMMA ReadStep ==
    ASSUME Lines, Reading, Reads, UNCHANGED <<con, typed>>,
           DOMAIN job' = JobFields, job'.n = job.n,
           \/ ~Reading' /\ (ReadsInput /\ Line.k = "i" => typed.made > 0)
           \/ Reading' /\ ReadsInput /\ ReadsInput' /\ Line.k = "i"
    PROVE  Lines'
<1>1. /\ IsSeq(stack) /\ IsSeq(Tail(stack)) /\ Len(stack) \in Nat \ {0}
      /\ stack' = Tail(stack) /\ Len(stack') = Len(stack) - 1
      /\ \A i \in 1 .. Len(stack) - 1 : stack'[i] = stack[i + 1]
      /\ Line = stack[1]
      /\ Len(stack) = 1 => stack' = <<>>
  BY SeqTake DEF Reads, Lines, Shapes, Line
<1>2. Shapes'
  BY <1>1 DEF Lines, Shapes, JobFields
<1>3. \A i \in 1 .. Len(stack') : i + 1 \in 1 .. Len(stack) /\ stack'[i] = stack[i + 1]
  BY <1>1
<1>4. typed'.made = 0 => Orderly'
  <2>1. SUFFICES ASSUME typed.made = 0 PROVE Orderly'
    OBVIOUS
  <2>2. /\ Each(stack, Mine) /\ Each(con.chunks, Mine)
        /\ \A i \in 1 .. Len(stack) - 1 : More(stack[i])
        /\ \A i \in 1 .. Len(con.chunks) - 1 : More(con.chunks[i])
        /\ con.chunks # <<>> => Each(stack, More)
        /\ con.wants = <<>> /\ con.waits = <<>>
        /\ ~ReadsInput => Each(stack, NotMore)
    BY <2>1 DEF Lines, Orderly, Reads
  <2>3. 1 \in 1 .. Len(stack)
    BY <1>1
  <2>4. CASE Line.k = "i"
    <3>1. ReadsInput
      BY <1>1, <2>2, <2>3, <2>4 DEF Each, NotMore
    <3>2. Reading' /\ ReadsInput'
      BY <2>1, <2>4, <3>1
    <3>3. Each(stack, Mine)' /\ Each(con.chunks, Mine)'
      BY <1>3, <2>2 DEF Each, Mine
    <3>4. \A i \in 1 .. Len(stack') - 1 : More(stack'[i])
      <4>1. \A i \in 1 .. Len(stack') - 1 : i \in 1 .. Len(stack') /\ i + 1 \in 1 .. Len(stack) - 1
        BY <1>1
      <4>. QED BY <1>3, <2>2, <4>1
    <3>5. con.chunks # <<>> => Each(stack', More)
      BY <1>3, <2>2 DEF Each
    <3>6. Each(con.wants, OfThisCall)' /\ Each(con.waits, OfThisCall)'
      BY <2>2, SeqNone DEF Each
    <3>. QED BY <2>2, <3>2, <3>3, <3>4, <3>5, <3>6 DEF Orderly, More, Each
  <2>5. CASE Line.k # "i"
    <3>1. ~Reading'
      BY <2>5
    <3>2. Len(stack) = 1
      <4>1. 1 \notin 1 .. Len(stack) - 1
        BY <1>1, <2>2, <2>5 DEF More
      <4>. QED BY <1>1, <4>1
    <3>3. con.chunks = <<>>
      BY <1>1, <2>2, <2>3, <2>5 DEF Each, More
    <3>. QED BY <1>1, <2>2, <3>1, <3>2, <3>3 DEF Orderly, NothingUnderWay
  <2>. QED BY <2>4, <2>5
<1>5. Disturbed'
  <2>1. SUFFICES ASSUME Reading' PROVE Disturbed'
    BY DEF Disturbed
  <2>2. Line.k = "i"
    BY <2>1
  <2>3. Each(stack, Fits) /\ ((\E i \in 1 .. Len(stack) : More(stack[i])) => Each(con.chunks, Fits))
    BY DEF Lines, Disturbed
  <2>4. 1 \in 1 .. Len(stack) /\ More(stack[1])
    BY <1>1, <2>2 DEF More
  <2>5. Each(con.chunks, Fits)'
    BY <2>3, <2>4 DEF Each, Fits
  <2>6. Each(stack, Fits)'
    BY <1>3, <2>3 DEF Each, Fits
  <2>. QED BY <2>5, <2>6 DEF Disturbed
<1>. QED BY <1>2, <1>4, <1>5 DEF Lines

-----------------------------------------------------------------------------
(* The lines under way: steps of the console *)

\* Nobody has typed, so a read that waits is that of the call.
LEMMA ReadIsMine ==
    ASSUME Lines, typed.made = 0, con.wants # <<>> \/ con.waits # <<>>
    PROVE  /\ Reading /\ ReadsInput /\ stack = <<>> /\ con.chunks = <<>>
           /\ con.wants # <<>> => Head(con.wants).n = job.n
           /\ con.waits # <<>> => Head(con.waits).n = job.n
<1>1. Orderly /\ IsSeq(con.wants) /\ IsSeq(con.waits)
  BY DEF Lines, Shapes
<1>2. Reading /\ ReadsInput /\ stack = <<>> /\ con.chunks = <<>>
  BY <1>1 DEF Orderly, NothingUnderWay
<1>3. ASSUME con.wants # <<>> PROVE Head(con.wants).n = job.n
  <2>1. Len(con.wants) \in Nat \ {0} /\ Head(con.wants) = con.wants[1]
    BY <1>1, <1>3, SeqTake
  <2>. QED BY <1>1, <1>2, <2>1 DEF Orderly, Each, OfThisCall
<1>4. ASSUME con.waits # <<>> PROVE Head(con.waits).n = job.n
  <2>1. Len(con.waits) \in Nat \ {0} /\ Head(con.waits) = con.waits[1]
    BY <1>1, <1>4, SeqTake
  <2>. QED BY <1>1, <1>2, <2>1 DEF Orderly, Each, OfThisCall
<1>. QED BY <1>2, <1>3, <1>4

\* The next chunk goes out.
LEMMA ChunkStep ==
    ASSUME Lines, Reading, stack = <<>>, prompt, con.wants = <<>>, con.chunks # <<>>,
           SendNextChunk, UNCHANGED typed
    PROVE  Lines'
<1> DEFINE line == Head(con.chunks)
<1>1. /\ IsSeq(con.chunks) /\ IsSeq(con'.chunks) /\ con'.chunks = Tail(con.chunks)
      /\ Len(con.chunks) \in Nat \ {0} /\ Len(con'.chunks) = Len(con.chunks) - 1
      /\ \A i \in 1 .. Len(con.chunks) - 1 : con'.chunks[i] = con.chunks[i + 1]
      /\ line = con.chunks[1]
      /\ Len(con.chunks) = 1 => con'.chunks = <<>>
  <2>1. con'.chunks = Tail(con.chunks)
    BY DEF SendNextChunk, Lines, Shapes
  <2>. QED BY <2>1, SeqTake DEF Lines, Shapes
<1>2. /\ IsSeq(stack') /\ Len(stack') = 1 /\ stack'[1] = line /\ stack' # <<>>
  <2>1. stack' = Append(stack, line)
    BY DEF SendNextChunk, Sends
  <2> HIDE DEF line
  <2>. QED BY <2>1, SeqFirst
<1>3. /\ DOMAIN con' = Fields /\ con'.wants = con.wants /\ con'.waits = con.waits
      /\ UNCHANGED job
  BY DEF SendNextChunk, Lines, Shapes, Fields
<1>4. Shapes'
  BY <1>1, <1>2, <1>3 DEF Lines, Shapes, Fields
<1>5. \A i \in 1 .. Len(con'.chunks) : i + 1 \in 1 .. Len(con.chunks)
                                       /\ con'.chunks[i] = con.chunks[i + 1]
  BY <1>1
<1>6. \A i \in 1 .. Len(stack') : stack'[i] = con.chunks[1]
  BY <1>1, <1>2
<1>7. 1 \in 1 .. Len(con.chunks)
  BY <1>1
<1> HIDE DEF line
<1>8. typed'.made = 0 => Orderly'
  <2>1. SUFFICES ASSUME typed.made = 0 PROVE Orderly'
    OBVIOUS
  <2>2. /\ Each(con.chunks, Mine)
        /\ \A i \in 1 .. Len(con.chunks) - 1 : More(con.chunks[i])
        /\ con.wants = <<>> /\ con.waits = <<>>
        /\ ~ReadsInput => Each(con.chunks, NotMore)
    BY <2>1 DEF Lines, Orderly
  <2>3. Reading' /\ (ReadsInput' <=> ReadsInput)
    BY <1>3 DEF Reading, ReadsInput
  <2>4. Each(stack, Mine)' /\ Each(con.chunks, Mine)'
    BY <1>3, <1>5, <1>6, <1>7, <2>2 DEF Each, Mine
  <2>5. \A i \in 1 .. Len(con'.chunks) - 1 : More(con'.chunks[i])
    <3>1. \A i \in 1 .. Len(con'.chunks) - 1 :
             i \in 1 .. Len(con'.chunks) /\ i + 1 \in 1 .. Len(con.chunks) - 1
      BY <1>1
    <3>. QED BY <1>5, <2>2, <3>1
  <2>6. con'.chunks # <<>> => Each(stack, More)'
    <3>1. SUFFICES ASSUME con'.chunks # <<>> PROVE Each(stack, More)'
      OBVIOUS
    <3>2. 1 \in 1 .. Len(con.chunks) - 1
      BY <1>1, <3>1
    <3>. QED BY <1>6, <2>2, <3>2 DEF Each, More
  <2>7. ~ReadsInput => Each(stack, NotMore)' /\ Each(con.chunks, NotMore)'
    BY <1>5, <1>6, <1>7, <2>2 DEF Each, NotMore
  <2>8. Each(con.wants, OfThisCall)' /\ Each(con.waits, OfThisCall)'
    BY <1>3, <2>2, SeqNone DEF Each
  <2>9. 1 .. Len(stack') - 1 = {}
    BY <1>2
  <2>. QED BY <1>3, <2>2, <2>3, <2>4, <2>5, <2>6, <2>7, <2>8, <2>9 DEF Orderly
<1>9. Disturbed'
  <2>1. Each(con.chunks, Fits)
    BY DEF Lines, Disturbed
  <2>2. Each(con.chunks, Fits)' /\ Each(stack, Fits)'
    BY <1>3, <1>5, <1>6, <1>7, <2>1 DEF Each, Fits
  <2>. QED BY <2>2 DEF Disturbed
<1>. QED BY <1>4, <1>8, <1>9 DEF Lines

\* The first chunk of an input goes out, the others are kept.
LEMMA InputStep ==
    ASSUME Lines, NEW c, DOMAIN c = Fields, NEW asked, NEW bytes \in Seq(Nat),
           SendsInput(c, asked, bytes), UNCHANGED typed,
           typed.made = 0 => stack = <<>> /\ Reading /\ ReadsInput /\ asked.n = job.n
    PROVE  /\ Lines'
           /\ job'.pc = job.pc /\ job'.fn = job.fn /\ job'.data = job.data /\ job'.got = job.got
           /\ con'.fs = c.fs /\ con'.part = c.part /\ con'.shown = c.shown
<1> DEFINE t == Transfer(asked, bytes)
<1>1. /\ IsSeq(t) /\ t # <<>> /\ Len(t) \in Nat \ {0, 1}
      /\ \A i \in 1 .. Len(t) : t[i].n = asked.n /\ t[i].k = IF i < Len(t) THEN "i" ELSE "I"
  BY TransferLines
<1>2. /\ con' = [c EXCEPT !.chunks = Tail(t), !.callback = TRUE, !.wants = <<>>,
                            !.waits = <<>>, !.grace = c.toFs]
      /\ stack' = Append(stack, Head(t))
      /\ job' = IF Reading /\ asked.n = job.n THEN [job EXCEPT !.used = bytes] ELSE job
  BY DEF SendsInput, Sends
<1> HIDE DEF t
<1>3. /\ DOMAIN con' = Fields /\ con'.chunks = Tail(t) /\ con'.wants = <<>> /\ con'.waits = <<>>
      /\ con'.fs = c.fs /\ con'.part = c.part /\ con'.shown = c.shown
  BY <1>2 DEF Fields
<1>4. /\ DOMAIN job' = JobFields /\ job'.n = job.n /\ job'.pc = job.pc /\ job'.fn = job.fn
      /\ job'.data = job.data /\ job'.got = job.got
  BY <1>2 DEF Lines, Shapes, JobFields
<1>5. /\ IsSeq(con'.chunks) /\ Len(con'.chunks) = Len(t) - 1
      /\ \A i \in 1 .. Len(t) - 1 : con'.chunks[i] = t[i + 1]
      /\ Head(t) = t[1]
  BY <1>1, <1>3, SeqTake
<1>6. /\ IsSeq(stack') /\ Len(stack) \in Nat /\ Len(stack') = Len(stack) + 1
      /\ \A i \in 1 .. Len(stack) : stack'[i] = stack[i]
      /\ stack'[Len(stack) + 1] = t[1]
      /\ stack' # <<>>
  <2>1. IsSeq(stack)
    BY DEF Lines, Shapes
  <2>. QED BY <1>2, <1>5, <2>1, SeqAppend
<1>7. Shapes'
  BY <1>3, <1>4, <1>5, <1>6, SeqNone DEF Lines, Shapes, Fields, JobFields
<1>8. t[1].n = asked.n /\ t[1].k = "i"
  <2>1. Len(t) \in Nat \ {0, 1}
    BY <1>1
  <2>2. \A n \in Nat \ {0, 1} : 1 \in 1 .. n /\ 1 < n
    OBVIOUS
  <2>3. 1 \in 1 .. Len(t) /\ 1 < Len(t)
    BY <2>1, <2>2, Zenon
  <2>. QED BY <1>1, <2>3
<1>9. \A i \in 1 .. Len(con'.chunks) :
         /\ con'.chunks[i].n = asked.n /\ con'.chunks[i].k \in {"i", "I"}
         /\ i < Len(con'.chunks) => con'.chunks[i].k = "i"
  <2>1. \A i \in 1 .. Len(con'.chunks) :
           /\ i \in 1 .. Len(t) - 1 /\ i + 1 \in 1 .. Len(t)
           /\ i < Len(con'.chunks) => i + 1 < Len(t)
    BY <1>1, <1>5
  <2>. QED BY <1>1, <1>5, <2>1
<1>10. typed'.made = 0 => Orderly'
  <2>1. SUFFICES ASSUME typed.made = 0 PROVE Orderly'
    OBVIOUS
  <2>2. stack = <<>> /\ Reading /\ ReadsInput /\ asked.n = job.n
    BY <2>1
  <2>3. Len(stack') = 1 /\ stack'[1] = t[1]
    BY <1>6, <2>2, SeqNone
  <2>4. Reading' /\ ReadsInput'
    BY <1>4, <2>2 DEF Reading, ReadsInput
  <2>5. Each(stack, Mine)' /\ Each(con.chunks, Mine)' /\ Each(stack, More)'
    BY <1>4, <1>8, <1>9, <2>2, <2>3 DEF Each, Mine, More
  <2>6. \A i \in 1 .. Len(con'.chunks) - 1 : More(con'.chunks[i])
    <3>1. \A i \in 1 .. Len(con'.chunks) - 1 : i \in 1 .. Len(con'.chunks) /\ i < Len(con'.chunks)
      BY <1>1, <1>5
    <3>. QED BY <1>9, <3>1 DEF More
  <2>7. Each(con.wants, OfThisCall)' /\ Each(con.waits, OfThisCall)'
    BY <1>3, SeqNone DEF Each
  <2>8. 1 .. Len(stack') - 1 = {}
    BY <2>3
  <2>. QED BY <1>3, <2>4, <2>5, <2>6, <2>7, <2>8 DEF Orderly
<1>11. Disturbed'
  <2>1. Each(con.chunks, Fits)'
    BY <1>9 DEF Each, Fits
  <2>2. Reading => Each(stack, Fits)'
    <3>1. \A i \in 1 .. Len(stack') : i \in 1 .. Len(stack) \/ i = Len(stack) + 1
      BY <1>6
    <3>. QED BY <1>4, <1>6, <1>8, <3>1 DEF Lines, Disturbed, Each, Fits
  <2>3. Reading' => Reading
    BY <1>4 DEF Reading
  <2>. QED BY <2>1, <2>2, <2>3 DEF Disturbed
<1>. QED BY <1>3, <1>4, <1>7, <1>10, <1>11 DEF Lines

\* A read ends without an input.
LEMMA StateStep ==
    ASSUME Lines, NEW c, DOMAIN c = Fields, c.waits = <<>>, NEW asked, NEW rc,
           SendsState(c, asked, rc), UNCHANGED <<typed, job>>,
           typed.made = 0 => stack = <<>> /\ Reading /\ ReadsInput /\ asked.n = job.n
    PROVE  Lines' /\ con'.fs = c.fs /\ con'.part = c.part /\ con'.shown = c.shown
<1> DEFINE line == AnswerTo(asked, "E", EncodeInt(rc))
<1>1. line.k = "E" /\ line.n = asked.n
  BY DEF AnswerTo
<1>2. con' = [c EXCEPT !.chunks = <<>>, !.wants = <<>>] /\ stack' = Append(stack, line)
  BY DEF SendsState, Sends
<1> HIDE DEF line
<1>3. /\ DOMAIN con' = Fields /\ con'.chunks = <<>> /\ con'.wants = <<>> /\ con'.waits = <<>>
      /\ con'.fs = c.fs /\ con'.part = c.part /\ con'.shown = c.shown
  BY <1>2 DEF Fields
<1>4. /\ IsSeq(stack') /\ Len(stack) \in Nat /\ Len(stack') = Len(stack) + 1
      /\ \A i \in 1 .. Len(stack) : stack'[i] = stack[i]
      /\ stack'[Len(stack) + 1] = line
      /\ stack' # <<>>
  <2>1. IsSeq(stack)
    BY DEF Lines, Shapes
  <2>. QED BY <1>2, <2>1, SeqAppend
<1>5. Shapes'
  BY <1>3, <1>4, SeqNone DEF Lines, Shapes, Fields
<1>6. typed'.made = 0 => Orderly'
  <2>1. SUFFICES ASSUME typed.made = 0 PROVE Orderly'
    OBVIOUS
  <2>2. stack = <<>> /\ Reading /\ ReadsInput /\ asked.n = job.n
    BY <2>1
  <2>3. Len(stack') = 1 /\ stack'[1] = line
    BY <1>4, <2>2, SeqNone
  <2>4. Reading' /\ ReadsInput'
    BY <2>2 DEF Reading, ReadsInput
  <2>5. Each(stack, Mine)'
    BY <1>1, <2>2, <2>3 DEF Each, Mine
  <2>. QED BY <1>3, <2>3, <2>4, <2>5, SeqNone DEF Orderly, Each
<1>7. Disturbed'
  <2>1. Each(con.chunks, Fits)'
    BY <1>3, SeqNone DEF Each
  <2>2. Reading => Each(stack, Fits)'
    <3>1. \A i \in 1 .. Len(stack') : i \in 1 .. Len(stack) \/ i = Len(stack) + 1
      BY <1>4
    <3>. QED BY <1>1, <1>4, <3>1 DEF Lines, Disturbed, Each, Fits
  <2>3. Reading' => Reading
    BY DEF Reading
  <2>. QED BY <2>1, <2>2, <2>3 DEF Disturbed
<1>. QED BY <1>3, <1>5, <1>6, <1>7 DEF Lines

\* A read that was asked for is not answered yet: it waits for an input, or
\* for nothing when the screen was lost.
LEMMA WaitStep ==
    ASSUME Lines, UNCHANGED <<stack, job, typed>>, stack = <<>>, prompt' = FALSE,
           DOMAIN con' = Fields, con'.wants = <<>>, con'.chunks = con.chunks, NEW asked,
           con'.waits = con.waits \/ con'.waits = <<asked>>,
           typed.made = 0 => Reading /\ ReadsInput /\ asked.n = job.n /\ con.chunks = <<>>
    PROVE  Lines'
<1>1. IsSeq(con'.waits)
  <2>1. IsSeq(con.waits)
    BY DEF Lines, Shapes
  <2>2. IsSeq(<<asked>>)
    BY SeqOne
  <2>. QED BY <2>1, <2>2
<1>2. Shapes'
  BY <1>1, SeqNone DEF Lines, Shapes, Fields
<1>3. typed'.made = 0 => Orderly'
  <2>1. SUFFICES ASSUME typed.made = 0 PROVE Orderly'
    OBVIOUS
  <2>2. Each(con.waits, OfThisCall)'
    <3>1. CASE con'.waits = con.waits
      BY <2>1, <3>1 DEF Lines, Orderly, Each, OfThisCall
    <3>2. CASE con'.waits = <<asked>>
      <4>1. \A i \in 1 .. Len(con'.waits) : con'.waits[i] = asked
        BY <3>2, SeqOne
      <4>. QED BY <2>1, <4>1 DEF Each, OfThisCall
    <3>. QED BY <3>1, <3>2
  <2>3. Reading' /\ ReadsInput'
    BY <2>1 DEF Reading, ReadsInput
  <2>4. stack' = <<>> /\ con'.chunks = <<>> /\ con'.wants = <<>>
    BY <2>1
  <2>. QED BY <2>2, <2>3, <2>4, SeqNone DEF Orderly, Each
<1>4. Disturbed'
  BY SeqNone DEF Disturbed, Each
<1>. QED BY <1>2, <1>3, <1>4 DEF Lines

\* A step that leaves the lines alone, while the call goes on reading or not.
LEMMA AloneStep ==
    ASSUME Lines, UNCHANGED <<stack, job>>, prompt' => prompt,
           typed'.made = 0 => typed.made = 0,
           typed' \in [made : Nat, underway : Nat], typed'.underway =< typed'.made,
           DOMAIN con' = Fields,
           con'.chunks = con.chunks, con'.wants = con.wants, con'.waits = con.waits
    PROVE  Lines'
<1>1. Shapes'
  BY DEF Lines, Shapes, Fields
<1>2. typed'.made = 0 => Orderly'
  BY DEF Lines, Orderly, NothingUnderWay, Each, Mine, OfThisCall, ReadsInput, Reading
<1>3. Disturbed'
  BY DEF Lines, Disturbed, Each, Fits, Reading
<1>. QED BY <1>1, <1>2, <1>3 DEF Lines

-----------------------------------------------------------------------------
(* How a call goes on *)

\* The call stays the same one, its place in the program changes.
SameCall ==
    /\ DOMAIN job' = JobFields
    /\ job'.n = job.n /\ job'.fn = job.fn /\ job'.data = job.data /\ job'.got = job.got

LEMMA Returns ==
    ASSUME DOMAIN job = JobFields, NEW rc, NEW got, ReturnWith(rc, got)
    PROVE  SameCall /\ job'.pc = "idle"
BY DEF ReturnWith, SameCall, JobFields

LEMMA ReturnsNone ==
    ASSUME DOMAIN job = JobFields, NEW rc, Return(rc)
    PROVE  SameCall /\ job'.pc = "idle"
BY Returns DEF Return

LEMMA GoesTo ==
    ASSUME DOMAIN job = JobFields, NEW pc, Goto(pc)
    PROVE  SameCall /\ job'.pc = pc
BY DEF Goto, SameCall, JobFields

\* On a terminal of CP's own a call never reads a line.
Elsewhere == {"idle", "timer", "attn", "get"}

LEMMA D58WriteFacts ==
    ASSUME DOMAIN job = JobFields, D58Write
    PROVE  SameCall /\ job'.pc \in Elsewhere
<1>1. (\E rc : Return(rc)) => SameCall /\ job'.pc \in Elsewhere
  BY ReturnsNone DEF Elsewhere
<1>2. FastWrite => \E rc : Return(rc)
  BY DEF FastWrite
<1>3. PollWrite => \E rc : Return(rc)
  BY DEF PollWrite
<1>4. PutWrite => \E rc : Return(rc)
  BY DEF PutWrite
<1>. QED BY <1>1, <1>2, <1>3, <1>4 DEF D58Write

LEMMA D58ReadFacts ==
    ASSUME DOMAIN job = JobFields, D58Read
    PROVE  SameCall /\ job'.pc \in Elsewhere
<1>1. (\E rc, got : ReturnWith(rc, got)) => SameCall /\ job'.pc \in Elsewhere
  BY Returns DEF Elsewhere
<1>2. (\E rc : Return(rc)) => SameCall /\ job'.pc \in Elsewhere
  BY ReturnsNone DEF Elsewhere
<1>3. (\E pc \in Elsewhere : Goto(pc)) => SameCall /\ job'.pc \in Elsewhere
  BY GoesTo
<1>4. FastRead => SameCall /\ job'.pc \in Elsewhere
  BY <1>1, <1>2 DEF FastRead
<1>5. PollRead => SameCall /\ job'.pc \in Elsewhere
  BY <1>2, <1>3 DEF PollRead, PollEmpty, Elsewhere
<1>. QED BY <1>2, <1>3, <1>4, <1>5 DEF D58Read, Elsewhere

LEMMA D58OtherFacts ==
    ASSUME DOMAIN job = JobFields, TimerEnds \/ AttentionEnds \/ ReadModified
    PROVE  SameCall /\ job'.pc \in Elsewhere /\ job.pc \in Elsewhere
<1>1. (\E rc, got : ReturnWith(rc, got)) => SameCall /\ job'.pc \in Elsewhere
  BY Returns DEF Elsewhere
<1>2. (\E rc : Return(rc)) => SameCall /\ job'.pc \in Elsewhere
  BY ReturnsNone DEF Elsewhere
<1>3. TimerEnds => SameCall /\ job'.pc \in Elsewhere /\ job.pc \in Elsewhere
  BY <1>2 DEF TimerEnds, Elsewhere
<1>4. AttentionEnds => SameCall /\ job'.pc \in Elsewhere /\ job.pc \in Elsewhere
  BY GoesTo DEF AttentionEnds, Elsewhere
<1>5. ReadModified => SameCall /\ job'.pc \in Elsewhere /\ job.pc \in Elsewhere
  BY <1>1, <1>2 DEF ReadModified, Elsewhere
<1>. QED BY <1>3, <1>4, <1>5

-----------------------------------------------------------------------------
(* The write on its way to the screen *)

LEMMA WriteKept ==
    ASSUME Calling, SameCall, con'.part = con.part, con'.shown = con.shown,
           con'.fs => con.fs \/ job.pc # "chunks",
           job'.pc # "idle" => job.pc # "idle",
           job'.pc = "chunks" => job.pc = "chunks",
           job'.pc = "answer" => job.pc = "answer" \/ job.fn # "fswr",
           job'.pc = "rest" => ServedBy(job.fn) = "fsrdp",
           job'.pc = "request" => job.fn # "qtrm"
    PROVE  Calling'
BY DEF Calling, ScreenWhole, SameCall, Streams

-----------------------------------------------------------------------------
(* The steps of the program keep the invariant *)

LEMMA CallKeeps == ASSUME Core, Call PROVE Core'
<1>1. PICK r \in Requests, pc \in {"idle", "request", "ask"} :
         /\ pc = "request" => r.fn # "qtrm"
         /\ \E t : job' = [IdleJob EXCEPT !.fn = r.fn, !.cmd = r.cmd, !.data = r.data, !.room = r.room,
                                        !.n = job.n + 1, !.t = t, !.pc = pc]
  <2> DEFINE time(r) == IF ServedBy(r.fn) # "fsrdp" THEN r.t
                        ELSE IF r.fn = "fscncl" THEN Cancel
                        ELSE IF r.fn = "fsrd" THEN NoTimeout
                        ELSE IF r.room = 0 \/ r.t < 0 THEN QueryOnly ELSE r.t
             next(r) == CASE r.fn = "fscncl" /\ api.diag58 -> "idle"
                          [] r.fn # "qtrm" /\ api.tested /\ api.connected -> "request"
                          [] OTHER -> "ask"
  <2>1. PICK r \in Requests :
           job' = [IdleJob EXCEPT !.fn = r.fn, !.cmd = r.cmd, !.data = r.data, !.room = r.room,
                                 !.n = job.n + 1, !.t = time(r), !.pc = next(r)]
    BY DEF Call
  <2>2. next(r) \in {"idle", "request", "ask"} /\ (next(r) = "request" => r.fn # "qtrm")
    OBVIOUS
  <2> HIDE DEF time, next
  <2>. QED BY <2>1, <2>2
<1>2. /\ DOMAIN job' = JobFields /\ job'.fn = r.fn /\ job'.data = r.data
      /\ job'.pc \in {"idle", "request", "ask"} /\ (job'.pc = "request" => r.fn # "qtrm")
  BY <1>1 DEF IdleJob, JobFields
<1>3. job.pc = "idle" /\ UNCHANGED <<con, stack, typed>>
  BY DEF Call
<1>4. DOMAIN con' = Fields
  BY <1>3 DEF Core, Lines, Shapes, Fields
<1>5. Lines'
  BY <1>2, <1>3, <1>4, QuietStep DEF Core, Reading
<1>6. Calling'
  BY <1>2, <1>3, ApiAssumption DEF Core, Calling, ScreenWhole, Streams
<1>. QED BY <1>5, <1>6 DEF Core

LEMMA AskTerminalKeeps == ASSUME Core, AskTerminal PROVE Core'
<1>1. DOMAIN job = JobFields /\ DOMAIN con = Fields /\ job.pc = "ask" /\ Shapes
  BY DEF Core, Lines, Shapes, Fields, JobFields, AskTerminal
<1>2. CASE terminal = "diag58"
  <2>1. /\ SameCall /\ job'.pc \in {"idle", "request"} /\ UNCHANGED <<con, stack, typed>>
        /\ job'.pc = "request" => job.fn # "qtrm"
    BY <1>1, <1>2, ReturnsNone, GoesTo DEF AskTerminal
  <2>2. Lines'
    BY <1>1, <2>1, QuietStep DEF Core, Reading, SameCall
  <2>3. Calling'
    BY <1>1, <2>1, WriteKept DEF Core
  <2>. QED BY <2>2, <2>3 DEF Core
<1>3. CASE terminal # "diag58"
  <2>1. /\ SameCall /\ job'.pc = "probe" /\ stack' = <<>> /\ UNCHANGED typed
        /\ con' = Handled(con, "T", <<>>)
    BY <1>1, <1>3, GoesTo DEF AskTerminal
  <2>2. Lines'
    BY <1>1, <2>1, CommandStep DEF Core, Reading, ReadsInput, SameCall
  <2>3. con' = [con EXCEPT !.chunks = <<Answer("T", EncodeInt(con.sid))>>]
    BY <2>1 DEF Handled
  <2>4. con'.part = con.part /\ con'.shown = con.shown /\ con'.fs = con.fs
    BY <1>1, <2>3 DEF Fields
  <2>5. Calling'
    BY <1>1, <2>1, <2>4, WriteKept DEF Core
  <2>. QED BY <2>2, <2>5 DEF Core
<1>. QED BY <1>2, <1>3

LEMMA ReadTerminalKeeps == ASSUME Core, ReadTerminal PROVE Core'
<1>1. DOMAIN job = JobFields /\ job.pc = "probe" /\ UNCHANGED <<con, typed>> /\ Reads
  BY DEF Core, Lines, Shapes, JobFields, ReadTerminal
<1>2. SameCall /\ job'.pc \in {"idle", "request"} /\ (job'.pc = "request" => job.fn # "qtrm")
  <2> DEFINE sid == DecodeInt(Line.body)
  <2>1. Return(OK) \/ (Goto("request") /\ job.fn # "qtrm") \/ Return(CheckFailed)
    BY DEF ReadTerminal
  <2>. QED BY <1>1, <2>1, ReturnsNone, GoesTo
<1>3. Lines'
  BY <1>1, <1>2, ReadStep DEF Core, Reading, ReadsInput, SameCall
<1>4. Calling'
  BY <1>1, <1>2, WriteKept DEF Core
<1>. QED BY <1>3, <1>4 DEF Core

\* The letters of the command lines, and which of them is for whom.
LEMMA Letters ==
    /\ Command.k \in {"T", "t", "C", "W", "I", "&", "|"}
    /\ job.fn \in ApiFunctions \ {"qtrm", "fsqvrs"} =>
          (Command.k \in {"&", "|"} <=> job.fn \in {"fslkto", "fssfm"})
    /\ job.fn = "fswr" <=> Command.k = "W"
    /\ Command.k = "I" <=> ServedBy(job.fn) = "fsrdp"
<1>1. CASE job.fn = "fswr"
  BY <1>1 DEF Command, ServedBy, ApiFunctions
<1>2. CASE ServedBy(job.fn) = "fsrdp"
  BY <1>2 DEF Command, ServedBy, ApiFunctions
<1>3. CASE job.fn # "fswr" /\ ServedBy(job.fn) # "fsrdp"
  BY <1>3 DEF Command, ServedBy, ApiFunctions
<1>. QED BY <1>1, <1>2, <1>3

LEMMA SendRequestKeeps == ASSUME Core, SendRequest PROVE Core'
<1>1. /\ DOMAIN job = JobFields /\ DOMAIN con = Fields /\ job.pc = "request" /\ Shapes
      /\ job.fn \in ApiFunctions \ {"qtrm"} /\ UNCHANGED typed
  BY DEF Core, Lines, Shapes, Fields, JobFields, SendRequest, Calling
<1>2. CASE job.fn = "fsqvrs" \/ Unsupported
  <2>1. SameCall /\ job'.pc = "idle" /\ UNCHANGED <<con, stack, typed>>
    BY <1>1, <1>2, ReturnsNone DEF SendRequest
  <2>2. Lines'
    BY <1>1, <2>1, QuietStep DEF Core, Reading, SameCall
  <2>3. Calling'
    BY <1>1, <2>1, WriteKept DEF Core
  <2>. QED BY <2>2, <2>3 DEF Core
<1>3. CASE job.fn # "fsqvrs" /\ ~Unsupported
  <2> DEFINE k == Command.k
             body == Command.body
  <2>1. /\ con' = Handled(con, k, body) /\ stack' = <<>> /\ UNCHANGED typed
        /\ job.fn \in {"fslkto", "fssfm"} => Return(OK)
        /\ job.fn \notin {"fslkto", "fssfm"} => Goto("answer")
    BY <1>3 DEF SendRequest
  <2>2. /\ SameCall
        /\ job.fn \in {"fslkto", "fssfm"} => job'.pc = "idle"
        /\ job.fn \notin {"fslkto", "fssfm"} => job'.pc = "answer"
    BY <1>1, <2>1, ReturnsNone, GoesTo
  <2>3. /\ k \in {"T", "t", "C", "W", "I", "&", "|"}
        /\ k \in {"&", "|"} <=> job.fn \in {"fslkto", "fssfm"}
        /\ job.fn = "fswr" <=> k = "W"
        /\ k = "I" <=> ServedBy(job.fn) = "fsrdp"
    BY <1>1, <1>3, Letters
  <2> HIDE DEF k, body
  <2>4. /\ Reading' <=> k \notin {"&", "|"}
        /\ k = "I" <=> ReadsInput'
    BY <2>2, <2>3 DEF Reading, ReadsInput, SameCall, ServedBy
  <2>5. Lines'
    BY <1>1, <2>1, <2>2, <2>3, <2>4, CommandStep DEF Core, Reading, SameCall
  <2>6. /\ con'.shown = con.shown
        /\ con'.part = IF k = "W" THEN <<>> ELSE con.part
    <3> DEFINE c == Handled(con, k, body)
    <3>1. c.shown = con.shown /\ c.part = IF k = "W" THEN <<>> ELSE con.part
      BY <1>1, <2>3, HandledFacts
    <3>2. con' = c
      BY <2>1
    <3> HIDE DEF c
    <3>. QED BY <3>1, <3>2
  <2>7. Calling'
    <3>1. /\ job'.pc \in {"idle", "answer"} /\ job'.fn = job.fn /\ job'.data = job.data
      BY <2>2 DEF SameCall
    <3>2. con'.part \in Seq(Nat)
      <4>1. con.part \in Seq(Nat) /\ <<>> \in Seq(Nat)
        BY EmptySeq DEF Core, Calling
      <4>. QED BY <2>6, <4>1
    <3>3. job'.fn = "fswr" => job'.data \in Streams /\ con'.part = <<>>
      BY <1>1, <2>3, <2>6, <3>1 DEF Core, Calling
    <3>4. ScreenWhole'
      BY <2>6 DEF Core, Calling, ScreenWhole, Streams
    <3>. QED BY <1>1, <3>1, <3>2, <3>3, <3>4 DEF Calling, Streams
  <2>. QED BY <2>5, <2>7 DEF Core
<1>. QED BY <1>2, <1>3

LEMMA D58RequestKeeps == ASSUME Core, D58Request PROVE Core'
<1>1. /\ DOMAIN job = JobFields /\ DOMAIN con = Fields /\ job.pc = "request"
      /\ UNCHANGED <<con, stack, typed>>
  BY DEF Core, Lines, Shapes, Fields, JobFields, D58Request
<1>2. SameCall /\ job'.pc \in Elsewhere
  BY <1>1, D58WriteFacts, D58ReadFacts, ReturnsNone DEF D58Request, Elsewhere
<1>3. Lines'
  BY <1>1, <1>2, QuietStep DEF Core, Reading, SameCall, Elsewhere
<1>4. Calling'
  BY <1>1, <1>2, WriteKept DEF Core, Elsewhere
<1>. QED BY <1>3, <1>4 DEF Core

LEMMA D58GoesOnKeeps ==
    ASSUME Core, TimerEnds \/ AttentionEnds \/ ReadModified,
           UNCHANGED <<terminal, api, con, rcv, prompt, stack, typed>>
    PROVE  Core'
<1>1. DOMAIN job = JobFields /\ DOMAIN con = Fields
  BY DEF Core, Lines, Shapes, Fields, JobFields
<1>2. SameCall /\ job'.pc \in Elsewhere /\ job.pc \in Elsewhere
  BY <1>1, D58OtherFacts
<1>3. job.pc # "idle"
  BY DEF TimerEnds, AttentionEnds, ReadModified
<1>4. Lines'
  BY <1>1, <1>2, QuietStep DEF Core, Reading, SameCall, Elsewhere
<1>5. Calling'
  BY <1>1, <1>2, <1>3, WriteKept DEF Core, Elsewhere
<1>. QED BY <1>4, <1>5 DEF Core

LEMMA WriteAnswerKeeps == ASSUME Core, WriteAnswer PROVE Core'
<1>1. /\ DOMAIN job = JobFields /\ job.pc = "answer" /\ job.fn = "fswr"
      /\ UNCHANGED <<con, typed>> /\ Reads
  BY DEF Core, Lines, Shapes, JobFields, WriteAnswer
<1>2. con.part = <<>> /\ job.data \in Streams
  BY <1>1 DEF Core, Calling
<1>3. \/ job' = [job EXCEPT !.pc = "chunks", !.got = job.data]
      \/ \E rc : Return(rc)
  BY DEF WriteAnswer
<1>4. CASE job' = [job EXCEPT !.pc = "chunks", !.got = job.data]
  <2>1. /\ DOMAIN job' = JobFields /\ job'.n = job.n /\ job'.fn = "fswr" /\ job'.data = job.data
        /\ job'.pc = "chunks" /\ job'.got = job.data
    BY <1>1, <1>4 DEF JobFields
  <2>2. Lines'
    BY <1>1, <2>1, ReadStep DEF Core, Reading, ReadsInput, ServedBy
  <2>3. job.data \in Seq(Nat)
    BY <1>2, ApiAssumption DEF Streams
  <2>4. con.part \o job.data = job.data
    BY <1>2, <2>3, ConcatEmptySeq
  <2>5. Calling'
    BY <1>1, <1>2, <2>1, <2>3, <2>4 DEF Core, Calling, ScreenWhole, Streams, ApiFunctions
  <2>. QED BY <2>2, <2>5 DEF Core
<1>5. CASE \E rc : Return(rc)
  <2>1. SameCall /\ job'.pc = "idle"
    BY <1>1, <1>5, ReturnsNone
  <2>2. Lines'
    BY <1>1, <2>1, ReadStep DEF Core, Reading, ReadsInput, SameCall, ServedBy
  <2>3. Calling'
    BY <1>1, <2>1, WriteKept DEF Core
  <2>. QED BY <2>2, <2>3 DEF Core
<1>. QED BY <1>3, <1>4, <1>5

\* Cutting off a chunk loses nothing.
LEMMA CutChunk ==
    ASSUME NEW bytes \in Seq(Nat), Len(bytes) > ChunkSize
    PROVE  /\ SubSeq(bytes, 1, ChunkSize) \in Seq(Nat)
           /\ SubSeq(bytes, ChunkSize + 1, Len(bytes)) \in Seq(Nat)
           /\ SubSeq(bytes, 1, ChunkSize) \o SubSeq(bytes, ChunkSize + 1, Len(bytes)) = bytes
<1>1. Len(bytes) \in Nat /\ ChunkSize \in Nat \ {0}
  BY LenProperties, ApiAssumption
<1>2. /\ 1 \in 1 .. Len(bytes) + 1 /\ ChunkSize \in 1 - 1 .. Len(bytes)
      /\ Len(bytes) \in ChunkSize .. Len(bytes)
  BY <1>1
<1>3. SubSeq(bytes, 1, ChunkSize) \o SubSeq(bytes, ChunkSize + 1, Len(bytes))
        = SubSeq(bytes, 1, Len(bytes))
  BY <1>2, ConcatAdjacentSubSeq
<1>4. SubSeq(bytes, 1, Len(bytes)) = bytes
  BY SubSeqFull
<1>5. /\ SubSeq(bytes, 1, ChunkSize) \in Seq(Nat)
      /\ SubSeq(bytes, ChunkSize + 1, Len(bytes)) \in Seq(Nat)
  BY <1>1
<1>. QED BY <1>3, <1>4, <1>5

LEMMA WriteChunkKeeps == ASSUME Core, WriteChunk PROVE Core'
<1>1. /\ DOMAIN job = JobFields /\ job.pc = "chunks" /\ Shapes /\ UNCHANGED <<stack, typed>>
      /\ job.fn = "fswr" /\ job.got \in Seq(Nat) /\ con.part \in Seq(Nat)
      /\ job.data \in Streams /\ (con.part \o job.got = job.data \/ ~con.fs)
  BY DEF Core, Lines, Shapes, JobFields, WriteChunk, Calling
<1>2. CASE Len(job.got) > ChunkSize
  <2> DEFINE chunk == SubSeq(job.got, 1, ChunkSize)
             rest == SubSeq(job.got, ChunkSize + 1, Len(job.got))
             c == Handled(con, "f", EncodeData(chunk))
  <2>1. con' = c /\ job' = [job EXCEPT !.got = SubSeq(@, ChunkSize + 1, Len(@))]
    BY <1>2 DEF WriteChunk
  <2>2. /\ DOMAIN job' = JobFields /\ job'.n = job.n /\ job'.fn = "fswr" /\ job'.data = job.data
        /\ job'.pc = "chunks" /\ job'.got = rest
    BY <1>1, <2>1 DEF JobFields
  <2>3. chunk \in Seq(Nat) /\ rest \in Seq(Nat) /\ chunk \o rest = job.got
    BY <1>1, <1>2, CutChunk
  <2> HIDE DEF chunk, rest
  <2>4. /\ DOMAIN c = Fields
        /\ c.waits = con.waits /\ c.wants = con.wants /\ c.chunks = con.chunks
        /\ c.fs = con.fs /\ c.shown = con.shown
        /\ c.part = con.part \o chunk
    BY <1>1, <2>3, ChunkFacts
  <2> HIDE DEF c
  <2>5. Lines'
    BY <1>1, <2>1, <2>2, <2>4, QuietStep DEF Core, Reading
  <2>6. con'.part \in Seq(Nat)
    BY <1>1, <2>1, <2>3, <2>4, ConcatProperties
  <2>7. con'.part \o rest = con.part \o job.got
    <3>1. \A s, t, u \in Seq(Nat) : (s \o t) \o u = s \o (t \o u)
      BY ConcatAssociative
    <3>2. con.part \in Seq(Nat) /\ chunk \in Seq(Nat) /\ rest \in Seq(Nat)
      BY <1>1, <2>3
    <3>3. (con.part \o chunk) \o rest = con.part \o (chunk \o rest)
      BY <3>1, <3>2
    <3>. QED BY <2>1, <2>3, <2>4, <3>3
  <2>8. ScreenWhole'
    BY <2>1, <2>4 DEF Core, Calling, ScreenWhole, Streams
  <2>9. con'.part \o rest = job.data \/ ~con'.fs
    BY <1>1, <2>1, <2>4, <2>7
  <2>10. Calling'
    BY <1>1, <2>2, <2>3, <2>6, <2>8, <2>9 DEF Calling, Streams, ApiFunctions
  <2>. QED BY <2>5, <2>10 DEF Core
<1>3. CASE ~(Len(job.got) > ChunkSize)
  <2> DEFINE c == Handled(con, "F", EncodeData(job.got))
  <2>1. con' = c /\ Return(OK)
    BY <1>3 DEF WriteChunk
  <2>2. SameCall /\ job'.pc = "idle"
    BY <1>1, <2>1, ReturnsNone
  <2>3. /\ DOMAIN c = Fields
        /\ c.waits = con.waits /\ c.wants = con.wants /\ c.chunks = con.chunks
        /\ c.shown = IF con.fs THEN con.part \o job.got ELSE con.shown
        /\ c.part = con.part \o job.got
    BY <1>1, ChunkFacts
  <2> HIDE DEF c
  <2>4. Lines'
    BY <1>1, <2>1, <2>2, <2>3, QuietStep DEF Core, Reading, SameCall
  <2>5. con'.part \in Seq(Nat)
    BY <1>1, <2>1, <2>3, ConcatProperties
  <2>6. ScreenWhole'
    BY <1>1, <2>1, <2>3 DEF Core, Calling, ScreenWhole, Streams
  <2>7. Calling'
    BY <2>2, <2>5, <2>6 DEF Calling
  <2>. QED BY <2>4, <2>7 DEF Core
<1>. QED BY <1>2, <1>3

LEMMA SettingAnswerKeeps == ASSUME Core, SettingAnswer PROVE Core'
<1>1. /\ DOMAIN job = JobFields /\ job.pc = "answer" /\ Asks(job.fn)
      /\ UNCHANGED <<con, typed>> /\ Reads
  BY DEF Core, Lines, Shapes, JobFields, SettingAnswer
<1>2. SameCall /\ job'.pc = "idle"
  BY <1>1, ReturnsNone DEF SettingAnswer
<1>3. Lines'
  BY <1>1, <1>2, ReadStep DEF Core, Reading, ReadsInput, SameCall, ServedBy, Asks
<1>4. Calling'
  BY <1>1, <1>2, WriteKept DEF Core
<1>. QED BY <1>3, <1>4 DEF Core

\* A step of a read that takes a line and returns, or takes a chunk that is not
\* the last and goes on.
LEMMA ReadGoesOn ==
    ASSUME Core, ReadsInput, Reads, UNCHANGED <<con, typed>>,
           DOMAIN job' = JobFields, job'.n = job.n, job'.fn = job.fn, job'.data = job.data,
           \/ job'.pc = "idle" /\ Line.k # "i"
           \/ job'.pc \in {"answer", "rest"} /\ Line.k = "i"
    PROVE  Core'
<1>1. Reading
  BY DEF Reading, ReadsInput
<1>2. job.fn # "fswr" /\ job.pc \in {"answer", "rest"}
  BY DEF ReadsInput, ServedBy
<1>3. Lines'
  BY <1>1, ReadStep DEF Core, Reading, ReadsInput
<1>4. Calling'
  BY <1>2 DEF Core, Calling, ScreenWhole, Streams, ReadsInput
<1>. QED BY <1>3, <1>4 DEF Core

ReadEnds == \E rc, got : ReturnWith(rc, got)

LEMMA Ends == ASSUME NEW rc, NEW got, ReturnWith(rc, got) PROVE ReadEnds
BY Zenon DEF ReadEnds

LEMMA ReadAnswerKeeps == ASSUME Core, ReadAnswer PROVE Core'
<1>1. /\ DOMAIN job = JobFields /\ job.pc = "answer" /\ ServedBy(job.fn) = "fsrdp"
      /\ UNCHANGED <<con, typed>> /\ Reads
  BY DEF Core, Lines, Shapes, JobFields, ReadAnswer
<1>2. \/ Line.k # "i" /\ ReadEnds
      \/ Line.k = "i" /\ \E pc \in {"answer", "rest"} : \E got :
                             job' = [job EXCEPT !.got = got, !.pc = pc]
  <2>1. CASE Line.k = "typed"
    BY <2>1, Ends DEF ReadAnswer, Return
  <2>2. CASE Line.k = "E"
    BY <2>2, Ends DEF ReadAnswer, Return
  <2>3. CASE Line.k \in {"i", "I"}
    <3> DEFINE data == IF Line.body = <<>> THEN [ok |-> TRUE, data |-> <<>>]
                       ELSE DecodeData(Line.body, job.room - Len(job.got))
    <3>1. InputChunk(data)
      BY <2>3 DEF ReadAnswer
    <3> HIDE DEF data
    <3>2. CASE Line.k = "i"
      <4>1. job' = [job EXCEPT !.got = @ \o data.data, !.pc = IF data.ok THEN @ ELSE "rest"]
        BY <3>1, <3>2 DEF InputChunk
      <4>2. CASE data.ok
        <5>1. job' = [job EXCEPT !.got = job.got \o data.data, !.pc = "answer"]
          BY <1>1, <4>1, <4>2
        <5>. QED BY <3>2, <5>1
      <4>3. CASE ~data.ok
        <5>1. job' = [job EXCEPT !.got = job.got \o data.data, !.pc = "rest"]
          BY <4>1, <4>3
        <5>. QED BY <3>2, <5>1
      <4>. QED BY <4>2, <4>3
    <3>3. CASE Line.k # "i"
      <4>1. ReturnWith(OK, job.got \o data.data) \/ ReturnWith(5004, <<>>)
        BY <3>1, <3>3 DEF InputChunk, Return
      <4>2. ReadEnds
        BY <4>1, Ends
      <4>. QED BY <3>3, <4>2
    <3>. QED BY <3>2, <3>3
  <2>4. CASE Line.k \notin {"typed", "E", "i", "I"}
    <3>1. ReturnWith(4004, <<>>)
      BY <2>4 DEF ReadAnswer, Return
    <3>2. ReadEnds
      BY <3>1, Ends
    <3>. QED BY <2>4, <3>2
  <2>. QED BY <2>1, <2>2, <2>3, <2>4
<1>3. /\ DOMAIN job' = JobFields /\ job'.n = job.n /\ job'.fn = job.fn /\ job'.data = job.data
      /\ \/ job'.pc = "idle" /\ Line.k # "i"
         \/ job'.pc \in {"answer", "rest"} /\ Line.k = "i"
  BY <1>1, <1>2, Returns DEF SameCall, JobFields, ReadEnds
<1>. QED BY <1>1, <1>3, ReadGoesOn DEF ReadsInput

LEMMA ReadRestKeeps == ASSUME Core, ReadRest PROVE Core'
<1>1. /\ DOMAIN job = JobFields /\ job.pc = "rest" /\ ServedBy(job.fn) = "fsrdp"
      /\ UNCHANGED <<con, typed>> /\ Reads
  BY DEF Core, Lines, Shapes, JobFields, ReadRest, Calling
<1>2. \/ Line.k # "i" /\ \E rc : Return(rc)
      \/ Line.k = "i" /\ UNCHANGED job
  BY DEF ReadRest
<1>3. /\ DOMAIN job' = JobFields /\ job'.n = job.n /\ job'.fn = job.fn /\ job'.data = job.data
      /\ \/ job'.pc = "idle" /\ Line.k # "i"
         \/ job'.pc \in {"answer", "rest"} /\ Line.k = "i"
  BY <1>1, <1>2, ReturnsNone DEF SameCall, JobFields
<1>. QED BY <1>1, <1>3, ReadGoesOn DEF ReadsInput

-----------------------------------------------------------------------------
(* The steps of the console and of the user keep the invariant *)

\* The call does not move, and what is collected and shown stays.
LEMMA ShownKept ==
    ASSUME Calling,
           job'.pc = job.pc, job'.fn = job.fn, job'.data = job.data, job'.got = job.got,
           con'.part = con.part, con'.shown = con.shown,
           con'.fs => con.fs \/ job.pc # "chunks"
    PROVE  Calling'
BY DEF Calling, ScreenWhole, Streams

LEMMA ReadFullScreenKeeps ==
    ASSUME IInv, Reading, stack = <<>>, prompt' = FALSE, con.wants # <<>>,
           ReadFullScreen(Head(con.wants)), UNCHANGED typed
    PROVE  Core'
<1> DEFINE asked == Head(con.wants)
           free == [con EXCEPT !.waits = <<>>, !.grace = FALSE, !.fs = FALSE, !.over = TRUE]
           empty == [con EXCEPT !.waits = <<>>, !.grace = TRUE]
<1>1. Shapes /\ Lines /\ DOMAIN con = Fields /\ DOMAIN job = JobFields /\ job.pc # "chunks"
  BY DEF IInv, Core, Lines, Shapes, Fields, JobFields, Reading
<1>2. typed.made = 0 => stack = <<>> /\ Reading /\ ReadsInput /\ asked.n = job.n /\ con.chunks = <<>>
  BY <1>1, ReadIsMine
<1>3. /\ DOMAIN free = Fields /\ free.waits = <<>> /\ free.part = con.part
      /\ free.shown = con.shown
      /\ DOMAIN empty = Fields /\ empty.waits = <<>> /\ empty.part = con.part
      /\ empty.shown = con.shown
  BY <1>1 DEF Fields
<1>4. \/ con' = [con EXCEPT !.wants = <<>>] /\ UNCHANGED <<stack, job>>
      \/ \E rc : SendsState(free, asked, rc) /\ UNCHANGED job
      \/ \E rc : SendsState(empty, asked, rc) /\ UNCHANGED job
      \/ rcv.complete /\ SendsInput(con, asked, rcv.data)
      \/ /\ UNCHANGED <<stack, job>>
         /\ \E t : con' = [con EXCEPT !.waits = <<asked>>, !.grace = FALSE, !.fs = TRUE,
                                      !.toFs = t, !.wants = <<>>]
  BY DEF ReadFullScreen
<1> HIDE DEF asked, free, empty
<1>5. CASE con' = [con EXCEPT !.wants = <<>>] /\ UNCHANGED <<stack, job>>
  <2>1. /\ DOMAIN con' = Fields /\ con'.wants = <<>> /\ con'.waits = con.waits
        /\ con'.chunks = con.chunks /\ con'.fs = con.fs /\ con'.part = con.part
        /\ con'.shown = con.shown
    BY <1>1, <1>5 DEF Fields
  <2>2. Lines'
    BY <1>1, <1>2, <1>5, <2>1, WaitStep
  <2>3. Calling'
    BY <1>5, <2>1, ShownKept DEF IInv, Core
  <2>. QED BY <2>2, <2>3 DEF Core
<1>6. CASE \E rc : SendsState(free, asked, rc) /\ UNCHANGED job
  <2>1. Lines' /\ con'.part = con.part /\ con'.shown = con.shown
    BY <1>1, <1>2, <1>3, <1>6, StateStep
  <2>2. Calling'
    BY <1>1, <1>6, <2>1, ShownKept DEF IInv, Core
  <2>. QED BY <2>1, <2>2 DEF Core
<1>7. CASE \E rc : SendsState(empty, asked, rc) /\ UNCHANGED job
  <2>1. Lines' /\ con'.part = con.part /\ con'.shown = con.shown
    BY <1>1, <1>2, <1>3, <1>7, StateStep
  <2>2. Calling'
    BY <1>1, <1>7, <2>1, ShownKept DEF IInv, Core
  <2>. QED BY <2>1, <2>2 DEF Core
<1>8. CASE rcv.complete /\ SendsInput(con, asked, rcv.data)
  <2>1. rcv.data \in Seq(Nat)
    BY <1>8 DEF IInv, Received
  <2>2. /\ Lines' /\ con'.part = con.part /\ con'.shown = con.shown
        /\ job'.pc = job.pc /\ job'.fn = job.fn /\ job'.data = job.data /\ job'.got = job.got
    BY <1>1, <1>2, <1>8, <2>1, InputStep
  <2>3. Calling'
    BY <1>1, <2>2, ShownKept DEF IInv, Core
  <2>. QED BY <2>2, <2>3 DEF Core
<1>9. CASE /\ UNCHANGED <<stack, job>>
           /\ \E t : con' = [con EXCEPT !.waits = <<asked>>, !.grace = FALSE, !.fs = TRUE,
                                        !.toFs = t, !.wants = <<>>]
  <2>1. /\ DOMAIN con' = Fields /\ con'.wants = <<>> /\ con'.waits = <<asked>>
        /\ con'.chunks = con.chunks /\ con'.part = con.part /\ con'.shown = con.shown
    BY <1>1, <1>9 DEF Fields
  <2>2. Lines'
    BY <1>1, <1>2, <1>9, <2>1, WaitStep
  <2>3. Calling'
    BY <1>1, <1>9, <2>1, ShownKept DEF IInv, Core
  <2>. QED BY <2>2, <2>3 DEF Core
<1>. QED BY <1>4, <1>5, <1>6, <1>7, <1>8, <1>9

LEMMA VmReadKeeps == ASSUME IInv, VmRead PROVE Core'
<1>1. /\ Reading /\ stack = <<>> /\ prompt /\ prompt' = FALSE /\ UNCHANGED typed
      /\ Lines /\ DOMAIN con = Fields /\ DOMAIN job = JobFields /\ job.pc # "chunks"
  BY DEF VmRead, IInv, Core, Lines, Shapes, Fields, JobFields, Reading
<1>2. CASE con.wants # <<>> /\ ReadFullScreen(Head(con.wants))
  BY <1>1, <1>2, ReadFullScreenKeeps
<1>3. CASE con.wants = <<>> /\ con.chunks # <<>> /\ SendNextChunk
  <2>1. Lines'
    BY <1>1, <1>3, ChunkStep
  <2>2. UNCHANGED job /\ con'.part = con.part /\ con'.shown = con.shown
    BY <1>1, <1>3 DEF SendNextChunk, Fields
  <2>3. Calling'
    BY <1>1, <2>2, ShownKept DEF IInv, Core
  <2>. QED BY <2>1, <2>3 DEF Core
<1>4. CASE UNCHANGED <<con, rcv, stack, job>>
  <2>1. Lines'
    BY <1>1, <1>4, AloneStep DEF Lines, Shapes
  <2>2. Calling'
    BY <1>4, ShownKept DEF IInv, Core
  <2>. QED BY <2>1, <2>2 DEF Core
<1>. QED BY <1>2, <1>3, <1>4 DEF VmRead, VmReadAnswered

LEMMA InputArrivesKeeps == ASSUME IInv, InputArrives PROVE Core'
<1>1. /\ UNCHANGED <<typed, prompt>> /\ Lines /\ DOMAIN con = Fields /\ DOMAIN job = JobFields
      /\ Calling
  BY DEF InputArrives, IInv, Core, Lines, Shapes, Fields, JobFields
<1>2. \/ UNCHANGED <<con, stack, job>>
      \/ con.waits # <<>> /\ \E input \in Inputs : SendsInput(con, Head(con.waits), input)
  BY DEF InputArrives
<1>3. CASE UNCHANGED <<con, stack, job>>
  <2>1. Lines'
    BY <1>1, <1>3, AloneStep DEF Lines, Shapes
  <2>2. Calling'
    BY <1>1, <1>3, ShownKept
  <2>. QED BY <2>1, <2>2 DEF Core
<1>4. CASE con.waits # <<>> /\ \E input \in Inputs : SendsInput(con, Head(con.waits), input)
  <2> DEFINE asked == Head(con.waits)
  <2>1. typed.made = 0 => stack = <<>> /\ Reading /\ ReadsInput /\ asked.n = job.n
    BY <1>1, <1>4, ReadIsMine
  <2>2. PICK input \in Inputs : SendsInput(con, asked, input)
    BY <1>4
  <2>3. input \in Seq(Nat)
    BY ApiAssumption
  <2> HIDE DEF asked
  <2>4. /\ Lines' /\ con'.fs = con.fs /\ con'.part = con.part /\ con'.shown = con.shown
        /\ job'.pc = job.pc /\ job'.fn = job.fn /\ job'.data = job.data /\ job'.got = job.got
    BY <1>1, <2>1, <2>2, <2>3, InputStep
  <2>5. Calling'
    BY <1>1, <2>4, ShownKept
  <2>. QED BY <2>4, <2>5 DEF Core
<1>. QED BY <1>2, <1>3, <1>4

LEMMA TimesOutKeeps == ASSUME IInv, TimesOut PROVE Core'
<1> DEFINE asked == Head(con.waits)
           c == [con EXCEPT !.waits = <<>>, !.grace = TRUE]
<1>1. /\ UNCHANGED <<typed, job>> /\ Lines /\ Calling /\ DOMAIN con = Fields /\ con.waits # <<>>
      /\ SendsState(c, asked, 3)
  BY DEF TimesOut, IInv, Core, Lines, Shapes, Fields
<1>2. DOMAIN c = Fields /\ c.waits = <<>> /\ c.fs = con.fs /\ c.part = con.part
      /\ c.shown = con.shown
  BY <1>1 DEF Fields
<1>3. typed.made = 0 => stack = <<>> /\ Reading /\ ReadsInput /\ asked.n = job.n
  BY <1>1, ReadIsMine
<1> HIDE DEF asked, c
<1>4. Lines' /\ con'.fs = con.fs /\ con'.part = con.part /\ con'.shown = con.shown
  BY <1>1, <1>2, <1>3, StateStep
<1>5. Calling'
  BY <1>1, <1>4, ShownKept
<1>. QED BY <1>4, <1>5 DEF Core

LEMMA GraceEndsKeeps == ASSUME IInv, GraceEnds PROVE Core'
<1>1. /\ UNCHANGED <<stack, prompt, typed, job>> /\ Lines /\ Calling /\ DOMAIN con = Fields
  BY DEF GraceEnds, IInv, Core, Lines, Shapes, Fields
<1>2. /\ DOMAIN con' = Fields /\ con'.chunks = con.chunks /\ con'.wants = con.wants
      /\ con'.waits = con.waits /\ ~con'.fs /\ con'.part = con.part /\ con'.shown = con.shown
  BY <1>1 DEF GraceEnds, Fields
<1>3. Lines'
  BY <1>1, <1>2, AloneStep DEF Lines, Shapes
<1>4. Calling'
  BY <1>1, <1>2, ShownKept
<1>. QED BY <1>3, <1>4 DEF Core

\* The new console owes nothing; what the old one sent is still to be read.
LEMMA NewSessionKeeps == ASSUME IInv, NewSession PROVE Core'
<1>1. /\ UNCHANGED <<stack, typed, job>> /\ Lines /\ Calling /\ Shapes
      /\ con' = FreshConsole(con.sid + 1)
  BY DEF NewSession, IInv, Core, Lines
<1>2. /\ DOMAIN con' = Fields /\ con'.chunks = <<>> /\ con'.wants = <<>>
      /\ con'.waits = <<>> /\ con'.fs = FALSE /\ con'.part = <<>> /\ con'.shown = <<>>
  BY <1>1 DEF FreshConsole, Fields
<1>3. Shapes'
  BY <1>1, <1>2, SeqNone DEF Shapes, Fields
<1>4. typed'.made = 0 => Orderly'
  BY <1>1, <1>2, SeqNone DEF Lines, Orderly, NothingUnderWay, Each, Mine, Reading, ReadsInput
<1>5. Disturbed'
  BY <1>1, <1>2, SeqNone DEF Lines, Disturbed, Each, Fits, Reading
<1>6. Calling'
  BY <1>1, <1>2, EmptySeq DEF Calling, ScreenWhole, Streams
<1>. QED BY <1>3, <1>4, <1>5, <1>6 DEF Core, Lines

LEMMA UserTypesKeeps == ASSUME IInv, UserTypes PROVE Core'
<1>1. /\ UNCHANGED <<stack, prompt, con, job>> /\ Lines /\ Calling /\ DOMAIN con = Fields
      /\ typed \in [made : Nat, underway : Nat] /\ typed.underway =< typed.made
      /\ typed' = [made |-> typed.made + 1, underway |-> typed.underway + 1]
  BY DEF UserTypes, IInv, Core, Lines, Shapes, Fields
<1>2. /\ typed' \in [made : Nat, underway : Nat] /\ typed'.underway =< typed'.made
      /\ typed'.made # 0
  BY <1>1
<1>3. Lines'
  BY <1>1, <1>2, AloneStep
<1>4. Calling'
  BY <1>1, ShownKept
<1>. QED BY <1>3, <1>4 DEF Core

LEMMA LineArrivesKeeps == ASSUME IInv, LineArrives PROVE Core'
<1> DEFINE line == [k |-> "typed", body |-> <<>>, n |-> 0]
<1>1. /\ UNCHANGED <<prompt, con, job>> /\ Lines /\ Calling /\ Shapes
      /\ typed \in [made : Nat, underway : Nat] /\ typed.underway =< typed.made
      /\ typed.underway > 0
      /\ typed' = [typed EXCEPT !.underway = @ - 1]
      /\ stack' = Append(stack, line)
  BY DEF LineArrives, Sends, IInv, Core, Lines, Shapes
<1>2. /\ typed' \in [made : Nat, underway : Nat] /\ typed'.underway =< typed'.made
      /\ typed'.made # 0
  BY <1>1
<1>3. line.k = "typed"
  OBVIOUS
<1> HIDE DEF line
<1>4. /\ IsSeq(stack') /\ Len(stack) \in Nat /\ Len(stack') = Len(stack) + 1
      /\ \A i \in 1 .. Len(stack) : stack'[i] = stack[i]
      /\ stack'[Len(stack) + 1] = line
  BY <1>1, SeqAppend DEF Shapes
<1>5. \A i \in 1 .. Len(stack') : i \in 1 .. Len(stack) \/ i = Len(stack) + 1
  BY <1>4
<1>6. Shapes'
  BY <1>1, <1>2, <1>4 DEF Shapes
<1>7. Disturbed'
  BY <1>1, <1>3, <1>4, <1>5 DEF Lines, Disturbed, Each, Fits, More, Reading
<1>8. Calling'
  BY <1>1, ShownKept
<1>. QED BY <1>2, <1>6, <1>7, <1>8 DEF Core, Lines

\* Neither the lines nor the call move: the terminal that CP drives, or a step
\* of nobody.
LEMMA NothingMovesKeeps == ASSUME IInv, UNCHANGED <<con, prompt, stack, typed, job>> PROVE Core'
<1>1. Lines /\ Calling /\ Shapes
  BY DEF IInv, Core, Lines
<1>2. Lines'
  BY <1>1, AloneStep DEF Shapes, Fields
<1>3. Calling'
  BY <1>1, ShownKept
<1>. QED BY <1>2, <1>3 DEF Core

-----------------------------------------------------------------------------
(* The first theorems *)

LEMMA InitInv == Init => IInv
<1>. SUFFICES ASSUME Init PROVE IInv
  OBVIOUS
<1>1. con = FreshConsole(0) /\ stack = <<>> /\ job = IdleJob /\ rcv = NothingReceived
      /\ typed = [made |-> 0, underway |-> 0]
  BY DEF Init
<1>2. /\ DOMAIN con = Fields /\ con.chunks = <<>> /\ con.wants = <<>> /\ con.waits = <<>>
      /\ con.part = <<>> /\ con.shown = <<>>
  BY <1>1 DEF FreshConsole, Fields
<1>3. DOMAIN job = JobFields /\ job.pc = "idle"
  BY <1>1 DEF IdleJob, JobFields
<1>4. typed \in [made : Nat, underway : Nat] /\ typed.underway =< typed.made
  BY <1>1
<1>5. Shapes
  BY <1>1, <1>2, <1>3, <1>4, SeqNone DEF Shapes, Fields, JobFields
<1>6. Orderly /\ Disturbed
  BY <1>1, <1>2, <1>3 DEF Orderly, Disturbed, NothingUnderWay, Reading
<1>7. Calling
  BY <1>2, <1>3, EmptySeq DEF Calling, ScreenWhole
<1>8. Received
  BY <1>1, EmptySeq DEF Received, NothingReceived
<1>. QED BY <1>5, <1>6, <1>7, <1>8 DEF IInv, Core, Lines

LEMMA ReceivedStep == ASSUME IInv, [Next]_vars PROVE Received'
<1>1. Received /\ <<>> \in Seq(Nat)
  BY EmptySeq DEF IInv
<1>2. CASE UNCHANGED rcv
  BY <1>1, <1>2 DEF Received
<1>3. CASE VmRead
  <2>1. \/ UNCHANGED rcv
        \/ rcv' = [rcv EXCEPT !.data = <<>>, !.complete = FALSE]
        \/ rcv' = [rcv EXCEPT !.locked = TRUE]
        \/ rcv' = [data |-> <<>>, complete |-> FALSE, locked |-> FALSE]
    BY <1>3 DEF VmRead, VmReadAnswered, SendNextChunk, ReadFullScreen, Prepared
  <2>2. DOMAIN rcv = {"data", "complete", "locked"} /\ rcv.data \in Seq(Nat)
    BY <1>1 DEF Received
  <2>3. DOMAIN rcv' = {"data", "complete", "locked"}
    BY <2>1, <2>2
  <2>4. rcv'.data = rcv.data \/ rcv'.data = <<>>
    <3>1. CASE UNCHANGED rcv
      BY <3>1
    <3>2. CASE rcv' = [rcv EXCEPT !.data = <<>>, !.complete = FALSE]
      BY <2>2, <3>2
    <3>3. CASE rcv' = [rcv EXCEPT !.locked = TRUE]
      BY <2>2, <3>3
    <3>4. CASE rcv' = [data |-> <<>>, complete |-> FALSE, locked |-> FALSE]
      BY <3>4
    <3>. QED BY <2>1, <3>1, <3>2, <3>3, <3>4
  <2>. QED BY <1>1, <2>2, <2>3, <2>4 DEF Received
<1>4. CASE InputArrives
  <2>1. PICK input \in Inputs, l \in BOOLEAN : rcv' = [data |-> input, complete |-> TRUE, locked |-> l]
    BY <1>4 DEF InputArrives
  <2>2. input \in Seq(Nat)
    BY ApiAssumption
  <2>. QED BY <2>1, <2>2 DEF Received
<1>5. CASE NewSession
  BY <1>1, <1>5 DEF NewSession, NothingReceived, Received
<1>6. Program => UNCHANGED rcv
  BY DEF Program, Call, AskTerminal, ReadTerminal, SendRequest, D58Request, WriteAnswer,
         WriteChunk, SettingAnswer, ReadAnswer, ReadRest
<1>7. Environment => UNCHANGED rcv \/ VmRead \/ InputArrives \/ NewSession
  BY DEF Environment, TimesOut, GraceEnds, UserTypes, LineArrives
<1>. QED BY <1>2, <1>3, <1>4, <1>5, <1>6, <1>7 DEF Next, vars

LEMMA StepInv == IInv /\ [Next]_vars => IInv'
<1>. SUFFICES ASSUME IInv, [Next]_vars PROVE Core'
  BY ReceivedStep DEF IInv
<1>1. Core
  BY DEF IInv
<1>2. CASE Program
  <2>1. CASE Call \/ AskTerminal \/ ReadTerminal \/ SendRequest \/ D58Request
    BY <1>1, <2>1, CallKeeps, AskTerminalKeeps, ReadTerminalKeeps, SendRequestKeeps,
       D58RequestKeeps
  <2>2. CASE WriteAnswer \/ WriteChunk \/ SettingAnswer \/ ReadAnswer \/ ReadRest
    BY <1>1, <2>2, WriteAnswerKeeps, WriteChunkKeeps, SettingAnswerKeeps, ReadAnswerKeeps,
       ReadRestKeeps
  <2>3. CASE UNCHANGED <<terminal, api, con, rcv, prompt, stack, typed, job, last>>
    BY <2>3, NothingMovesKeeps
  <2>4. CASE /\ TimerEnds \/ AttentionEnds \/ ReadModified
             /\ UNCHANGED <<terminal, api, con, rcv, prompt, stack, typed>>
    BY <1>1, <2>4, D58GoesOnKeeps
  <2>. QED BY <1>2, <2>1, <2>2, <2>3, <2>4 DEF Program
<1>3. CASE Environment
  <2>1. CASE VmRead \/ InputArrives \/ TimesOut \/ GraceEnds
    BY <2>1, VmReadKeeps, InputArrivesKeeps, TimesOutKeeps, GraceEndsKeeps
  <2>2. CASE NewSession \/ UserTypes \/ LineArrives
    BY <2>2, NewSessionKeeps, UserTypesKeeps, LineArrivesKeeps
  <2>3. CASE (UserKeys \/ AttentionMissed) /\ UNCHANGED <<terminal, api, con, rcv, prompt, stack, typed>>
    BY <2>3, NothingMovesKeeps DEF UserKeys, AttentionMissed
  <2>. QED BY <1>3, <2>1, <2>2, <2>3 DEF Environment
<1>4. CASE UNCHANGED vars
  BY <1>4, NothingMovesKeeps DEF vars
<1>. QED BY <1>2, <1>3, <1>4 DEF Next

\* The line a call reads as its answer was sent for this call: the letters
\* alone tell, since nothing of an earlier call is left under way; a typed
\* line in between can only make way for the rest of an earlier transfer.
THEOREM AnswersAreCurrent == Spec => []AnswerIsCurrent
<1>1. IInv => AnswerIsCurrent
  <2>. SUFFICES ASSUME IInv, Reading, stack # <<>>
                PROVE  \/ Head(stack).k = "typed"
                       \/ Head(stack).n = job.n
                       \/ typed.made > 0 /\ Head(stack).k \in {"E", "i", "I"}
    BY DEF AnswerIsCurrent
  <2>1. Lines /\ IsSeq(stack) /\ typed \in [made : Nat, underway : Nat]
    BY DEF IInv, Core, Lines, Shapes
  <2>2. Len(stack) \in Nat \ {0} /\ Head(stack) = stack[1]
    BY <2>1, SeqTake
  <2>3. 1 \in 1 .. Len(stack)
    BY <2>2
  <2>4. CASE typed.made = 0
    BY <2>1, <2>2, <2>3, <2>4 DEF Lines, Orderly, Each, Mine
  <2>5. CASE typed.made # 0
    <3>1. typed.made > 0
      BY <2>1, <2>5
    <3>. QED BY <2>1, <2>2, <2>3, <3>1 DEF Lines, Disturbed, Each, Fits
  <2>. QED BY <2>4, <2>5
<1>. QED BY <1>1, InitInv, StepInv, PTL DEF Spec

\* What the console shows is a stream as a program wrote it, whole: the chunks
\* of two writes are not mixed, nor those of one write over two consoles.
THEOREM ScreenIsWhole == Spec => []ScreenWhole
<1>1. IInv => ScreenWhole
  BY DEF IInv, Core, Calling
<1>. QED BY <1>1, InitInv, StepInv, PTL DEF Spec

-----------------------------------------------------------------------------
(* A number arrives as it was sent *)

LEMMA LeastNumber ==
    ASSUME NEW S, S \subseteq Nat, S # {}
    PROVE  \E m \in S : \A x \in S : m =< x
<1> DEFINE less == {p \in Nat \X Nat : p[1] < p[2]}
<1>0. IsWellFoundedOn(less, Nat)
  BY NatLessThanWellFounded DEF OpToRel
<1> HIDE DEF less
<1>1. PICK m \in S : \A x \in S : ~(<<x, m>> \in less)
  BY <1>0, WFMin
<1>2. \A x \in S : m =< x
  <2> SUFFICES ASSUME NEW x \in S PROVE m =< x
    OBVIOUS
  <2>1. x < m => <<x, m>> \in less
    BY DEF less
  <2>. QED BY <1>1, <2>1
<1>. QED BY <1>2

\* Every table of the codec has a first entry and goes on from there.
Onward(how, of, k, x) ==
    CASE how = "power" -> Base * x
      [] how = "left"  -> x \div Base
      [] how = "value" -> x * Base + of[k].v
      [] how = "text"  -> x \o EncodeInt(of[k])
Table(how, of, first, n, t) ==
    t = [k \in 0 .. n |-> IF k = 0 THEN first ELSE Onward(how, of, k, t[k - 1])]

LEMMA TableExists ==
    ASSUME NEW how, NEW of, NEW first, NEW n \in Nat
    PROVE  \E t : Table(how, of, first, n, t)
<1> DEFINE bad == {j \in Nat : ~\E t : Table(how, of, first, j, t)}
<1>1. 0 \notin bad
  <2> DEFINE t == [k \in 0 .. 0 |-> first]
  <2>1. t = [k \in 0 .. 0 |-> IF k = 0 THEN first ELSE Onward(how, of, k, t[k - 1])]
    OBVIOUS
  <2> HIDE DEF t
  <2>2. Table(how, of, first, 0, t)
    BY <2>1 DEF Table
  <2>. QED BY <2>2
<1>2. ASSUME NEW j \in Nat, j # 0, j - 1 \notin bad PROVE j \notin bad
  <2>1. j - 1 \in Nat
    BY <1>2
  <2>2. PICK t : Table(how, of, first, j - 1, t)
    BY <1>2, <2>1
  <2> DEFINE v == [k \in 0 .. j |-> IF k = j THEN Onward(how, of, j, t[j - 1]) ELSE t[k]]
             x == [k \in 0 .. j |-> IF k = 0 THEN first ELSE Onward(how, of, k, v[k - 1])]
  <2>3. \A k \in 0 .. j - 1 : t[k] = IF k = 0 THEN first ELSE Onward(how, of, k, t[k - 1])
    BY <2>1, <2>2 DEF Table
  <2>4. ASSUME NEW k \in 0 .. j PROVE v[k] = x[k]
    <3>1. CASE k = j
      BY <1>2, <2>1, <3>1
    <3>2. CASE k # j /\ k # 0
      <4>1. k \in 0 .. j - 1 /\ k - 1 \in 0 .. j /\ k - 1 # j
        BY <3>2
      <4>2. v[k] = t[k] /\ v[k - 1] = t[k - 1]
        BY <3>2, <4>1
      <4>. QED BY <2>3, <3>2, <4>1, <4>2
    <3>3. CASE k # j /\ k = 0
      <4>1. k \in 0 .. j - 1 /\ v[k] = t[k]
        BY <2>1, <3>3
      <4>. QED BY <2>3, <3>3, <4>1
    <3>. QED BY <3>1, <3>2, <3>3
  <2>5. v = x
    BY <2>4
  <2> HIDE DEF v
  <2>6. Table(how, of, first, j, v)
    BY <2>5 DEF Table
  <2>. QED BY <2>6
<1>3. bad = {}
  <2>1. bad \subseteq Nat
    OBVIOUS
  <2> HIDE DEF bad
  <2> SUFFICES ASSUME bad # {} PROVE FALSE
    OBVIOUS
  <2>2. PICK j \in bad : \A y \in bad : j =< y
    BY <2>1, LeastNumber
  <2>3. j \in Nat /\ j # 0
    BY <1>1, <2>1
  <2>4. j - 1 \notin bad
    BY <2>1, <2>2, <2>3
  <2>. QED BY <1>2, <2>3, <2>4
<1>. QED BY <1>3

LEMMA Divided ==
    ASSUME NEW x \in Nat, NEW b \in Nat \ {0}
    PROVE  /\ x \div b \in Nat /\ x % b \in 0 .. b - 1
           /\ x = (x \div b) * b + (x % b)
OBVIOUS

LEMMA Times ==
    ASSUME NEW x \in Nat, NEW b \in Nat \ {0}, NEW p \in Nat \ {0}, x < b * p
    PROVE  x \div b < p
<1> DEFINE q == x \div b
<1>1. q \in Nat /\ x % b \in Nat /\ x = q * b + (x % b)
  BY Divided
<1> HIDE DEF q
<1>2. ASSUME q >= p PROVE FALSE
  <2>1. PICK d \in Nat : q = p + d
    <3>1. q - p \in Nat /\ q = p + (q - p)
      BY <1>1, <1>2
    <3>. QED BY <3>1
  <2>2. q * b = b * p + d * b
    BY <2>1
  <2>3. d * b \in Nat /\ b * p \in Nat /\ q * b \in Nat
    BY <1>1
  <2>. QED BY <1>1, <2>2, <2>3
<1>. QED BY <1>1, <1>2 DEF q

LEMMA Powers ==
    /\ Power[0] = 1
    /\ \A k \in 1 .. Digits : Power[k] = Base * Power[k - 1]
    /\ \A k \in 0 .. Digits : Power[k] \in Nat \ {0}
<1>1. Digits \in Nat \ {0} /\ Base \in Nat \ {0, 1}
  BY CodecAssumption
<1>2. PICK t : Table("power", <<>>, 1, Digits, t)
  BY <1>1, TableExists
<1>3. t = [k \in 0 .. Digits |-> IF k = 0 THEN 1 ELSE Base * t[k - 1]]
  BY <1>2 DEF Table, Onward
<1>4. Power = [k \in 0 .. Digits |-> IF k = 0 THEN 1 ELSE Base * Power[k - 1]]
  BY <1>3 DEF Power
<1>5. Power[0] = 1 /\ \A k \in 1 .. Digits : Power[k] = Base * Power[k - 1]
  <2>1. \A k \in 0 .. Digits : Power[k] = IF k = 0 THEN 1 ELSE Base * Power[k - 1]
    BY <1>4
  <2>. QED BY <1>1, <2>1
<1> DEFINE bad == {k \in 0 .. Digits : Power[k] \notin Nat \ {0}}
<1>6. ASSUME bad # {} PROVE FALSE
  <2>1. bad \subseteq Nat
    OBVIOUS
  <2> HIDE DEF bad
  <2>2. PICK j \in bad : \A y \in bad : j =< y
    BY <1>6, <2>1, LeastNumber
  <2> USE DEF bad
  <2>3. j # 0
    BY <1>5, <2>2
  <2>4. j - 1 \in 0 .. Digits /\ j \in 1 .. Digits
    BY <1>1, <2>2, <2>3
  <2>5. j - 1 \notin bad
    BY <2>2, <2>4
  <2>6. Power[j - 1] \in Nat \ {0}
    BY <2>4, <2>5
  <2>7. Base * Power[j - 1] \in Nat \ {0}
    BY <1>1, <2>6
  <2>. QED BY <1>5, <2>2, <2>4, <2>7
<1>. QED BY <1>5, <1>6

\* What is left of a number without its last digits, up to none.
LEMMA Shifted ==
    ASSUME NEW u \in 0 .. Words - 1, NEW left, Table("left", <<>>, u, Digits, left)
    PROVE  /\ left[0] = u /\ left[Digits] = 0
           /\ \A k \in 0 .. Digits : left[k] \in Nat
           /\ \A k \in 1 .. Digits : left[k] = left[k - 1] \div Base
<1>1. Digits \in Nat \ {0} /\ Base \in Nat \ {0, 1} /\ Words \in Nat
  BY CodecAssumption, Powers DEF Words
<1>2. left = [k \in 0 .. Digits |-> IF k = 0 THEN u ELSE left[k - 1] \div Base]
  BY DEF Table, Onward
<1>3. left[0] = u /\ \A k \in 1 .. Digits : left[k] = left[k - 1] \div Base
  <2>1. \A k \in 0 .. Digits : left[k] = IF k = 0 THEN u ELSE left[k - 1] \div Base
    BY <1>2
  <2>. QED BY <1>1, <2>1
<1> DEFINE bad == {k \in 0 .. Digits : ~(left[k] \in Nat /\ left[k] < Power[Digits - k])}
<1>4. ASSUME bad # {} PROVE FALSE
  <2>1. bad \subseteq Nat
    OBVIOUS
  <2> HIDE DEF bad
  <2>2. PICK j \in bad : \A y \in bad : j =< y
    BY <1>4, <2>1, LeastNumber
  <2> USE DEF bad
  <2>3. j # 0
    BY <1>1, <1>3, <2>2 DEF Words
  <2>4. j - 1 \in 0 .. Digits /\ j \in 1 .. Digits /\ Digits - j \in 0 .. Digits
        /\ Digits - (j - 1) \in 1 .. Digits /\ Digits - (j - 1) - 1 = Digits - j
    BY <1>1, <2>2, <2>3
  <2>5. j - 1 \notin bad
    BY <2>2, <2>4
  <2>6. left[j - 1] \in Nat /\ left[j - 1] < Power[Digits - (j - 1)]
    BY <2>4, <2>5
  <2>7. Power[Digits - (j - 1)] = Base * Power[Digits - j] /\ Power[Digits - j] \in Nat \ {0}
    BY <2>4, Powers
  <2>8. left[j - 1] \div Base < Power[Digits - j] /\ left[j - 1] \div Base \in Nat
    <3> DEFINE x == left[j - 1]
               p == Power[Digits - j]
    <3>1. x \in Nat /\ p \in Nat \ {0} /\ Base \in Nat \ {0} /\ x < Base * p
      BY <1>1, <2>6, <2>7
    <3> HIDE DEF x, p
    <3>2. x \div Base < p /\ x \div Base \in Nat
      BY <3>1, Times, Divided
    <3>. QED BY <3>2 DEF x, p
  <2>. QED BY <1>3, <2>2, <2>4, <2>8
<1>5. \A k \in 0 .. Digits : left[k] \in Nat /\ left[k] < Power[Digits - k]
  BY <1>4
<1>6. left[Digits] < Power[0] /\ left[Digits] \in Nat
  BY <1>1, <1>5
<1>. QED BY <1>3, <1>5, <1>6, Powers

\* decodeInt() finds the number that encodeInt() wrote, as far as its digits go.
LEMMA NumberArrives ==
    ASSUME NEW n \in Int
    PROVE  LET d == DecodeInt(EncodeInt(n)) IN d.ok /\ d.val = Signed(n % Words)
<1>1. Digits \in Nat \ {0} /\ Base \in Nat \ {0, 1} /\ Words \in Nat \ {0}
  BY CodecAssumption, Powers DEF Words
<1> DEFINE u == n % Words
           left[k \in 0 .. Digits] == IF k = 0 THEN u ELSE left[k - 1] \div Base
           len == CHOOSE k \in 1 .. Digits : left[k] = 0 /\ \A j \in 1 .. k - 1 : left[j] # 0
           s == EncodeInt(n)
<1>2. u \in 0 .. Words - 1
  BY <1>1
<1>3. s = [i \in 1 .. len |-> [v |-> left[len - i] % Base, last |-> i = len]]
  BY DEF EncodeInt
<1> HIDE DEF s, len, u
<1>4. Table("left", <<>>, u, Digits, left)
  <2> DEFINE next(t) == [k \in 0 .. Digits |-> IF k = 0 THEN u ELSE t[k - 1] \div Base]
  <2>1. \A t : Table("left", <<>>, u, Digits, t) <=> t = next(t)
    BY DEF Table, Onward
  <2>2. \E t : t = next(t)
    BY <1>1, <2>1, TableExists
  <2>3. left = CHOOSE t : t = next(t)
    OBVIOUS
  <2> HIDE DEF left, next
  <2>. QED BY <2>1, <2>2, <2>3
<1> HIDE DEF left
<1>5. /\ left[0] = u /\ left[Digits] = 0
      /\ \A k \in 0 .. Digits : left[k] \in Nat
      /\ \A k \in 1 .. Digits : left[k] = left[k - 1] \div Base
  BY <1>2, <1>4, Shifted
<1>6. len \in 1 .. Digits /\ left[len] = 0
  <2> DEFINE S == {k \in 1 .. Digits : left[k] = 0}
  <2>1. Digits \in S /\ S \subseteq Nat
    BY <1>1, <1>5
  <2> HIDE DEF S
  <2>2. PICK m \in S : \A x \in S : m =< x
    BY <2>1, LeastNumber
  <2> USE DEF S
  <2>3. m \in 1 .. Digits /\ left[m] = 0
    BY <2>2
  <2>4. \A j \in 1 .. m - 1 : left[j] # 0
    <3> SUFFICES ASSUME NEW j \in 1 .. m - 1, left[j] = 0 PROVE FALSE
      OBVIOUS
    <3>1. j \in S
      BY <1>1, <2>3
    <3>. QED BY <2>2, <2>3, <3>1
  <2>. QED BY <2>3, <2>4 DEF len
<1>7. Len(s) = len /\ \A i \in 1 .. len : s[i].v = left[len - i] % Base /\ s[i].last = (i = len)
  <2>1. s = [i \in 1 .. len |-> s[i]]
    BY <1>3
  <2>2. Len(s) = len
    BY <1>6, <2>1, SeqFunction
  <2>. QED BY <1>3, <2>2
<1> DEFINE ends == {i \in 1 .. Digits : i =< Len(s) /\ s[i].last}
           first == CHOOSE i \in ends : \A j \in ends : i =< j
           sum(k, t) == t = [i \in 0 .. k |-> IF i = 0 THEN 0 ELSE t[i - 1] * Base + s[i].v]
           value == CHOOSE t : sum(first, t)
<1>8. DecodeInt(s) = IF ends = {} THEN Bad
                     ELSE [ok |-> TRUE, val |-> Signed(value[first]),
                           rest |-> SubSeq(s, first + 1, Len(s))]
  BY DEF DecodeInt
<1>9. ends = {len} /\ first = len
  <2>1. len \in ends
    <3>1. len \in 1 .. len /\ len =< Len(s)
      BY <1>1, <1>6, <1>7
    <3>. QED BY <1>6, <1>7, <3>1
  <2>2. \A i \in ends : i = len
    <3> SUFFICES ASSUME NEW i \in ends PROVE i = len
      OBVIOUS
    <3>1. i \in 1 .. len /\ s[i].last
      BY <1>1, <1>6, <1>7
    <3>. QED BY <1>7, <3>1
  <2>3. ends = {len}
    <3> HIDE DEF ends
    <3>. QED BY <2>1, <2>2
  <2> DEFINE f == CHOOSE i \in {len} : \A j \in {len} : i =< j
  <2>4. f = len
    BY <1>1, <1>6
  <2>5. first = f
    BY <2>3
  <2>. QED BY <2>3, <2>4, <2>5
<1> HIDE DEF ends, first
<1> DEFINE good == [i \in 0 .. len |-> left[len - i]]
<1>10. sum(len, good)
  <2> DEFINE x == [i \in 0 .. len |-> IF i = 0 THEN 0 ELSE good[i - 1] * Base + s[i].v]
  <2>1. ASSUME NEW i \in 0 .. len PROVE good[i] = x[i]
    <3>1. CASE i = 0
      BY <1>6, <3>1
    <3>2. CASE i # 0
      <4>1. /\ i \in 1 .. len /\ i - 1 \in 0 .. len /\ len - i \in 0 .. Digits
            /\ len - (i - 1) \in 1 .. Digits /\ len - (i - 1) - 1 = len - i
        BY <1>1, <1>6, <3>2
      <4>2. good[i - 1] = left[len - i] \div Base
        BY <1>5, <4>1
      <4>3. left[len - i] = (left[len - i] \div Base) * Base + (left[len - i] % Base)
        BY <1>1, <1>5, <4>1, Divided
      <4>. QED BY <1>7, <3>2, <4>1, <4>2, <4>3
    <3>. QED BY <3>1, <3>2
  <2>2. good = x
    BY <2>1
  <2> HIDE DEF good
  <2>. QED BY <2>2
<1>11. sum(len, value)
  BY <1>9, <1>10
<1> HIDE DEF value, good
<1> DEFINE bad == {i \in 0 .. len : value[i] # left[len - i]}
<1>12. ASSUME bad # {} PROVE FALSE
  <2>1. bad \subseteq Nat
    OBVIOUS
  <2> HIDE DEF bad
  <2>2. PICK j \in bad : \A y \in bad : j =< y
    BY <1>12, <2>1, LeastNumber
  <2> USE DEF bad
  <2>3. \A i \in 0 .. len : value[i] = IF i = 0 THEN 0 ELSE value[i - 1] * Base + s[i].v
    BY <1>11
  <2>4. \A i \in 0 .. len : left[len - i] = IF i = 0 THEN 0 ELSE left[len - (i - 1)] * Base + s[i].v
    <3>1. \A i \in 0 .. len : good[i] = IF i = 0 THEN 0 ELSE good[i - 1] * Base + s[i].v
      BY <1>10
    <3>2. \A i \in 0 .. len : good[i] = left[len - i]
      BY DEF good
    <3>3. ASSUME NEW i \in 0 .. len, i # 0 PROVE good[i - 1] = left[len - (i - 1)]
      <4>1. i - 1 \in 0 .. len
        BY <1>1, <1>6, <3>3
      <4>. QED BY <3>2, <4>1
    <3> HIDE DEF good
    <3>. QED BY <3>1, <3>2, <3>3
  <2>5. CASE j = 0
    BY <2>2, <2>3, <2>4, <2>5
  <2>6. CASE j # 0
    <3>1. j - 1 \in 0 .. len
      BY <1>6, <2>2, <2>6
    <3>2. j - 1 \notin bad
      BY <2>2, <3>1
    <3>3. value[j - 1] = left[len - (j - 1)]
      BY <3>1, <3>2
    <3>. QED BY <2>2, <2>3, <2>4, <2>6, <3>3
  <2>. QED BY <2>5, <2>6
<1>13. value[len] = u
  <2>1. len \in 0 .. len
    BY <1>6
  <2>2. value[len] = left[len - len]
    BY <1>12, <2>1
  <2>. QED BY <1>5, <1>6, <2>2
<1>. QED BY <1>8, <1>9, <1>13 DEF s, u

\* Return codes arrive as they are, a session at most as an older one.
LEMMA CodesArrive ==
    /\ \A rc \in 0 .. 4 : DecodeInt(EncodeInt(rc)).val = rc
    /\ \A n \in Nat : DecodeInt(EncodeInt(n)).val \in Int /\ DecodeInt(EncodeInt(n)).val =< n
<1>1. Words \in Nat /\ Words > 8
  BY CodecAssumption, Powers DEF Words
<1> HIDE DEF Words
<1>2. ASSUME NEW rc \in 0 .. 4 PROVE DecodeInt(EncodeInt(rc)).val = rc
  <2>1. rc % Words = rc
    BY <1>1
  <2>2. Signed(rc) = rc
    BY <1>1 DEF Signed
  <2>. QED BY <2>1, <2>2, NumberArrives
<1>3. ASSUME NEW n \in Nat
      PROVE  DecodeInt(EncodeInt(n)).val \in Int /\ DecodeInt(EncodeInt(n)).val =< n
  <2>1. n % Words \in Nat /\ n % Words =< n
    BY <1>1, Divided
  <2>2. Signed(n % Words) \in Int /\ Signed(n % Words) =< n
    BY <1>1, <2>1 DEF Signed
  <2>. QED BY <2>2, NumberArrives
<1>. QED BY <1>2, <1>3
\* What is decoded is a number, whatever the characters stand for.
Chars == [v : Int, last : BOOLEAN]

LEMMA TextOfNumber == ASSUME NEW n \in Int PROVE EncodeInt(n) \in Seq(Chars)
<1>1. Digits \in Nat \ {0} /\ Base \in Nat \ {0, 1} /\ Words \in Nat \ {0}
  BY CodecAssumption, Powers DEF Words
<1> DEFINE u == n % Words
           left[k \in 0 .. Digits] == IF k = 0 THEN u ELSE left[k - 1] \div Base
           len == CHOOSE k \in 1 .. Digits : left[k] = 0 /\ \A j \in 1 .. k - 1 : left[j] # 0
           s == EncodeInt(n)
<1>2. u \in 0 .. Words - 1
  BY <1>1
<1>3. s = [i \in 1 .. len |-> [v |-> left[len - i] % Base, last |-> i = len]]
  BY DEF EncodeInt
<1> HIDE DEF s, len, u
<1>4. Table("left", <<>>, u, Digits, left)
  <2> DEFINE next(t) == [k \in 0 .. Digits |-> IF k = 0 THEN u ELSE t[k - 1] \div Base]
  <2>1. \A t : Table("left", <<>>, u, Digits, t) <=> t = next(t)
    BY DEF Table, Onward
  <2>2. \E t : t = next(t)
    BY <1>1, <2>1, TableExists
  <2>3. left = CHOOSE t : t = next(t)
    OBVIOUS
  <2> HIDE DEF left, next
  <2>. QED BY <2>1, <2>2, <2>3
<1> HIDE DEF left
<1>5. left[Digits] = 0 /\ \A k \in 0 .. Digits : left[k] \in Nat
  BY <1>2, <1>4, Shifted
<1>6. len \in 1 .. Digits
  <2> DEFINE S == {k \in 1 .. Digits : left[k] = 0}
  <2>1. Digits \in S /\ S \subseteq Nat
    BY <1>1, <1>5
  <2> HIDE DEF S
  <2>2. PICK m \in S : \A x \in S : m =< x
    BY <2>1, LeastNumber
  <2> USE DEF S
  <2>3. m \in 1 .. Digits /\ left[m] = 0
    BY <2>2
  <2>4. \A j \in 1 .. m - 1 : left[j] # 0
    <3> SUFFICES ASSUME NEW j \in 1 .. m - 1, left[j] = 0 PROVE FALSE
      OBVIOUS
    <3>1. j \in S
      BY <1>1, <2>3
    <3>. QED BY <2>2, <2>3, <3>1
  <2>. QED BY <2>3, <2>4 DEF len
<1>7. \A i \in 1 .. len : left[len - i] % Base \in Int
  <2> SUFFICES ASSUME NEW i \in 1 .. len PROVE left[len - i] % Base \in Int
    OBVIOUS
  <2>1. len - i \in 0 .. Digits
    BY <1>1, <1>6
  <2>2. left[len - i] \in Nat
    BY <1>5, <2>1
  <2>. QED BY <1>1, <2>2, Divided
<1>8. \A i \in 1 .. len : [v |-> left[len - i] % Base, last |-> i = len] \in Chars
  BY <1>7 DEF Chars
<1>9. s \in [1 .. len -> Chars] /\ len \in Nat
  <2> DEFINE char(i) == [v |-> left[len - i] % Base, last |-> i = len]
  <2>1. s = [i \in 1 .. len |-> char(i)] /\ \A i \in 1 .. len : char(i) \in Chars
    BY <1>3, <1>8
  <2> HIDE DEF char
  <2>. QED BY <1>1, <1>6, <2>1
<1>10. s \in Seq(Chars)
  BY <1>9
<1>. QED BY <1>10 DEF s

LEMMA TextOfNumbers == ASSUME NEW ns \in Seq(Int) PROVE EncodeInts(ns) \in Seq(Chars)
<1> DEFINE n == Len(ns)
           text[i \in 0 .. n] == IF i = 0 THEN <<>> ELSE text[i - 1] \o EncodeInt(ns[i])
<1>1. EncodeInts(ns) = text[n]
  BY DEF EncodeInts
<1>2. n \in Nat /\ \A i \in 1 .. n : ns[i] \in Int
  BY LenProperties, ElementOfSeq
<1> HIDE DEF n
<1>3. Table("text", ns, <<>>, n, text)
  <2> DEFINE next(t) == [k \in 0 .. n |-> IF k = 0 THEN <<>> ELSE t[k - 1] \o EncodeInt(ns[k])]
  <2>1. \A t : Table("text", ns, <<>>, n, t) <=> t = next(t)
    BY DEF Table, Onward
  <2>2. \E t : t = next(t)
    BY <1>2, <2>1, TableExists
  <2>3. text = CHOOSE t : t = next(t)
    OBVIOUS
  <2> HIDE DEF text, next
  <2>. QED BY <2>1, <2>2, <2>3
<1> HIDE DEF text
<1>4. \A k \in 0 .. n : text[k] = IF k = 0 THEN <<>> ELSE text[k - 1] \o EncodeInt(ns[k])
  <2>1. text = [k \in 0 .. n |-> IF k = 0 THEN <<>> ELSE text[k - 1] \o EncodeInt(ns[k])]
    BY <1>3 DEF Table, Onward
  <2>. QED BY <2>1
<1> DEFINE bad == {k \in 0 .. n : text[k] \notin Seq(Chars)}
<1>5. ASSUME bad # {} PROVE FALSE
  <2>1. bad \subseteq Nat
    OBVIOUS
  <2> HIDE DEF bad
  <2>2. PICK j \in bad : \A y \in bad : j =< y
    BY <1>5, <2>1, LeastNumber
  <2> USE DEF bad
  <2>3. j # 0
    BY <1>4, <2>2, EmptySeq
  <2>4. j - 1 \in 0 .. n /\ j \in 1 .. n
    BY <1>2, <2>2, <2>3
  <2>5. j - 1 \notin bad
    BY <2>2, <2>4
  <2>6. text[j - 1] \in Seq(Chars) /\ EncodeInt(ns[j]) \in Seq(Chars)
    BY <1>2, <2>4, <2>5, TextOfNumber
  <2>7. text[j - 1] \o EncodeInt(ns[j]) \in Seq(Chars)
    BY <2>6, ConcatProperties
  <2>. QED BY <1>4, <2>2, <2>3, <2>7
<1>6. n \in 0 .. n
  BY <1>2
<1>. QED BY <1>1, <1>5, <1>6

LEMMA NumberOfText ==
    ASSUME NEW s \in Seq(Chars)
    PROVE  DecodeInt(s).val \in Int /\ DecodeInt(s).rest \in Seq(Chars)
<1> DEFINE ends == {i \in 1 .. Digits : i =< Len(s) /\ s[i].last}
           len == CHOOSE i \in ends : \A j \in ends : i =< j
           value[i \in 0 .. len] == IF i = 0 THEN 0 ELSE value[i - 1] * Base + s[i].v
<1>1. DecodeInt(s) = IF ends = {} THEN Bad
                     ELSE [ok |-> TRUE, val |-> Signed(value[len]), rest |-> SubSeq(s, len + 1, Len(s))]
  BY DEF DecodeInt
<1>2. CASE ends = {}
  BY <1>1, <1>2, EmptySeq DEF Bad
<1>3. CASE ends # {}
  <2>1. ends \subseteq Nat /\ \A i \in ends : i \in 1 .. Len(s)
    BY CodecAssumption
  <2>2. Len(s) \in Nat /\ \A i \in 1 .. Len(s) : s[i].v \in Int
    <3>1. Len(s) \in Nat /\ \A i \in 1 .. Len(s) : s[i] \in Chars
      BY LenProperties, ElementOfSeq
    <3>. QED BY <3>1 DEF Chars
  <2> HIDE DEF ends
  <2>3. \E m \in ends : \A x \in ends : m =< x
    BY <1>3, <2>1, LeastNumber
  <2>4. len \in 1 .. Len(s)
    BY <2>1, <2>3
  <2> HIDE DEF len
  <2>5. Table("value", s, 0, len, value)
    <3>1. len \in Nat
      BY <2>4
    <3> DEFINE next(t) == [k \in 0 .. len |-> IF k = 0 THEN 0 ELSE t[k - 1] * Base + s[k].v]
    <3>2. \A t : Table("value", s, 0, len, t) <=> t = next(t)
      BY DEF Table, Onward
    <3>3. \E t : t = next(t)
      BY <3>1, <3>2, TableExists
    <3>4. value = CHOOSE t : t = next(t)
      OBVIOUS
    <3> HIDE DEF value, next
    <3>. QED BY <3>2, <3>3, <3>4
  <2> HIDE DEF value
  <2>6. \A k \in 0 .. len : value[k] = IF k = 0 THEN 0 ELSE value[k - 1] * Base + s[k].v
    <3>1. value = [k \in 0 .. len |-> IF k = 0 THEN 0 ELSE value[k - 1] * Base + s[k].v]
      BY <2>5 DEF Table, Onward
    <3>. QED BY <3>1
  <2> DEFINE bad == {k \in 0 .. len : value[k] \notin Int}
  <2>7. ASSUME bad # {} PROVE FALSE
    <3>1. bad \subseteq Nat
      OBVIOUS
    <3> HIDE DEF bad
    <3>2. PICK j \in bad : \A y \in bad : j =< y
      BY <2>7, <3>1, LeastNumber
    <3> USE DEF bad
    <3>3. j # 0
      BY <2>6, <3>2
    <3>4. j - 1 \in 0 .. len /\ j \in 1 .. Len(s)
      BY <2>2, <2>4, <3>2, <3>3
    <3>5. j - 1 \notin bad
      BY <3>2, <3>4
    <3>6. value[j - 1] \in Int /\ s[j].v \in Int /\ Base \in Int
      BY <2>2, <3>4, <3>5, CodecAssumption
    <3>7. value[j - 1] * Base + s[j].v \in Int
      BY <3>6
    <3>. QED BY <2>6, <3>2, <3>3, <3>7
  <2>8. value[len] \in Int
    <3>1. len \in 0 .. len
      BY <2>4
    <3>. QED BY <2>7, <3>1
  <2>9. Signed(value[len]) \in Int
    BY <2>8, Powers, CodecAssumption DEF Signed, Words
  <2>10. SubSeq(s, len + 1, Len(s)) \in Seq(Chars)
    BY <2>2, <2>4
  <2>. QED BY <1>1, <1>3, <2>9, <2>10
<1>. QED BY <1>2, <1>3

-----------------------------------------------------------------------------
(* What keeps an input that was reported *)

\* The lines of a sequence of them.
In(s) == {s[i] : i \in 1 .. Len(s)}

Available == rcv.complete /\ ~rcv.locked
ToldIdle == last.told /\ (job.pc = "idle" \/ job.fn = "fswr")
TellsInput(line) == line.k = "E" /\ DecodeInt(line.body).val = 0

\* Timeouts are numbers.
Timed ==
    /\ job.t \in Int
    /\ con.wants # <<>> => Head(con.wants).t \in Int

Records ==
    /\ DOMAIN api = {"tested", "connected", "diag58", "sid"}
    /\ DOMAIN d58 = {"poll", "fast", "answer"}
    /\ DOMAIN tube = {"shown", "keyed"}

\* Who the user sits at, and what fsio.c found out about it.
Linked ==
    /\ terminal \in {"mecaff", "diag58"}
    /\ terminal = "mecaff" => ~api.diag58
    /\ terminal = "diag58" /\ api.tested => api.diag58
    /\ job.pc \notin {"idle", "ask", "probe"} => api.tested /\ api.connected
    /\ job.pc = "probe" => api.tested
    /\ job.pc \in {"probe", "answer", "rest", "chunks"} => terminal = "mecaff"
    /\ job.pc \in {"timer", "attn", "get"} => job.fn # "fswr"
    /\ last.told => api.tested /\ api.connected
    /\ last.told /\ job.fn = "fswr" => job.pc \notin {"ask", "probe"}

\* No console is newer than the one that is there.
OldSession(line) ==
    line.k = "T" => DecodeInt(line.body).val \in Int /\ DecodeInt(line.body).val =< con.sid
Sessions ==
    /\ con.sid \in Nat /\ api.sid \in Int /\ api.sid =< con.sid
    /\ \A line \in In(stack) \cup In(con.chunks) : OldSession(line)

\* Nobody has typed: the call back belongs to the transfer that is under way,
\* and an input that is about to be reported is there.
Undisturbed ==
    /\ con.callback => ReadsInput /\ con.chunks # <<>>
    /\ ReadsInput =>
          /\ \A line \in In(con.chunks) : ~TellsInput(line)
          /\ con.sid = api.sid /\ (\E line \in In(stack) : TellsInput(line)) => Available

OnScreen == ToldIdle /\ api.diag58 => d58.poll /\ ~d58.fast /\ tube.keyed # <<>>

Keeping ==
    /\ Records /\ Timed /\ Linked /\ Sessions /\ OnScreen /\ AvailableStays
    /\ typed.made = 0 => Undisturbed

-----------------------------------------------------------------------------
(* The lines of a sequence *)

LEMMA InNone == In(<<>>) = {}
<1>1. 1 .. Len(<<>>) = {}
  BY SeqNone
<1>. QED BY <1>1 DEF In

LEMMA InOne == ASSUME NEW x PROVE In(<<x>>) = {x}
BY SeqOne DEF In

LEMMA InAppend ==
    ASSUME NEW s, IsSeq(s), NEW x
    PROVE  In(Append(s, x)) = In(s) \cup {x}
<1> DEFINE t == Append(s, x)
<1>1. /\ Len(s) \in Nat /\ Len(t) = Len(s) + 1
      /\ \A i \in 1 .. Len(s) : t[i] = s[i]
      /\ t[Len(s) + 1] = x
  BY SeqAppend
<1> HIDE DEF t
<1>2. 1 .. Len(t) = (1 .. Len(s)) \cup {Len(s) + 1}
  BY <1>1
<1>3. In(t) = In(s) \cup {x}
  BY <1>1, <1>2 DEF In
<1>. QED BY <1>3 DEF t

LEMMA InTake ==
    ASSUME NEW s, IsSeq(s), s # <<>>
    PROVE  Head(s) \in In(s) /\ In(Tail(s)) \subseteq In(s)
<1>1. /\ Len(s) \in Nat \ {0} /\ Len(Tail(s)) = Len(s) - 1
      /\ \A i \in 1 .. Len(s) - 1 : Tail(s)[i] = s[i + 1]
      /\ Head(s) = s[1]
  BY SeqTake
<1>2. 1 \in 1 .. Len(s) /\ \A i \in 1 .. Len(s) - 1 : i + 1 \in 1 .. Len(s)
  BY <1>1
<1>. QED BY <1>1, <1>2 DEF In

LEMMA InTransfer ==
    ASSUME NEW asked, NEW bytes \in Seq(Nat)
    PROVE  LET t == Transfer(asked, bytes)
           IN  /\ Head(t).k = "i" /\ \A line \in In(Tail(t)) : line.k \in {"i", "I"}
               /\ Tail(t) # <<>>
<1> DEFINE t == Transfer(asked, bytes)
<1>1. /\ IsSeq(t) /\ t # <<>> /\ Len(t) \in Nat \ {0, 1}
      /\ \A i \in 1 .. Len(t) : t[i].k = IF i < Len(t) THEN "i" ELSE "I"
  BY TransferLines
<1> HIDE DEF t
<1>2. Head(t) = t[1] /\ In(Tail(t)) \subseteq In(t) /\ IsSeq(Tail(t)) /\ Len(Tail(t)) = Len(t) - 1
  BY <1>1, SeqTake, InTake
<1>3. 1 \in 1 .. Len(t) /\ 1 < Len(t) /\ Len(t) - 1 # 0
  <2>1. \A n \in Nat \ {0, 1} : 1 \in 1 .. n /\ 1 < n /\ n - 1 # 0
    OBVIOUS
  <2>2. Len(t) \in Nat \ {0, 1}
    BY <1>1
  <2>. QED BY <2>1, <2>2, Zenon
<1>4. Tail(t) # <<>>
  BY <1>2, <1>3, SeqLen
<1>5. \A line \in In(t) : line.k \in {"i", "I"}
  BY <1>1 DEF In
<1>6. Head(t).k = "i"
  BY <1>1, <1>2, <1>3
<1>. QED BY <1>2, <1>4, <1>5, <1>6 DEF t

-----------------------------------------------------------------------------
(* What a step does to the lines, the sessions and what is kept *)

AsksInTime(wants) == \E t \in Int : wants = <<[t |-> t, n |-> job.n]>>
Answered(c, k) ==
    /\ c.sid = con.sid /\ c.callback = con.callback
    /\ c.wants = con.wants \/ AsksInTime(c.wants)
    /\ k = "T" => c.chunks = <<Answer("T", EncodeInt(con.sid))>>
    /\ k \in {"t", "C", "W"} => \E b : c.chunks = <<Answer(k, b)>>
    /\ k \in {"&", "|"} => c.chunks = con.chunks
    /\ k = "I" => \/ c.chunks = con.chunks
                  \/ \E rc \in {1, 2} : c.chunks = <<Answer("E", EncodeInt(rc))>>

\* A command line leaves the session and the transfers alone.
LEMMA HandledLines ==
    ASSUME Shapes, NEW k, NEW body,
           k \in {"T", "t", "C", "W", "I", "&", "|"}, k = "I" => body \in Seq(Chars)
    PROVE  Answered(Handled(con, k, body), k)
<1>. USE DEF Answered, AsksInTime
<1>1. CASE k = "T"
  BY <1>1 DEF Handled, Shapes
<1>2. CASE k \in {"t", "C"}
  BY <1>2 DEF Handled, Shapes
<1>3. CASE k = "W"
  <2> DEFINE sid == DecodeInt(body)
             cmd == DecodeInt(sid.rest)
  <2>1. Handled(con, k, body) =
          IF sid.val # con.sid
            THEN [con EXCEPT !.chunks = <<Answer("W", EncodeInt(2))>>, !.part = <<>>]
            ELSE Acquired(con, cmd.val)
    BY <1>3 DEF Handled
  <2> HIDE DEF sid, cmd
  <2>. QED BY <1>3, <2>1 DEF Acquired, Shapes
<1>4. CASE k = "I"
  <2> DEFINE sid     == DecodeInt(body)
             timeout == DecodeInt(sid.rest)
             t       == IF timeout.ok THEN timeout.val ELSE NoTimeout
  <2>1. Handled(con, k, body) =
          IF sid.val # con.sid THEN [con EXCEPT !.chunks = <<Answer("E", EncodeInt(2))>>]
          ELSE IF con.over THEN [con EXCEPT !.chunks = <<Answer("E", EncodeInt(1))>>]
          ELSE [con EXCEPT !.wants = <<[t |-> t, n |-> job.n]>>]
    BY <1>4 DEF Handled
  <2>2. t \in Int
    BY <1>4, NumberOfText DEF NoTimeout
  <2> HIDE DEF sid, timeout, t
  <2>. QED BY <1>4, <2>1, <2>2 DEF Shapes
<1>5. CASE k \in {"&", "|"}
  BY <1>5 DEF Handled, Shapes
<1>. QED BY <1>1, <1>2, <1>3, <1>4, <1>5

\* A call that ends: what it tells, and that it is the same call.
LEMMA EndsCall ==
    ASSUME DOMAIN job = JobFields, NEW rc, NEW got, ReturnWith(rc, got)
    PROVE  /\ DOMAIN job' = JobFields /\ job'.pc = "idle" /\ job'.fn = job.fn /\ job'.t = job.t
           /\ last'.told = (rc = INPUT_AVAILABLE \/ (last.told /\ job.fn = "fswr"))
BY DEF ReturnWith, JobFields

LEMMA MovesCall ==
    ASSUME DOMAIN job = JobFields, NEW pc, Goto(pc), UNCHANGED last
    PROVE  /\ DOMAIN job' = JobFields /\ job'.pc = pc /\ job'.fn = job.fn /\ job'.t = job.t
           /\ last'.told = last.told
BY DEF Goto, JobFields

\* A call ends and reports no input.
Silent == job'.pc = "idle" /\ job'.fn = job.fn /\ job'.t = job.t /\ (last'.told => last.told /\ job.fn = "fswr")
Goes(pc) == job'.pc = pc /\ job'.fn = job.fn /\ job'.t = job.t /\ last'.told = last.told

LEMMA EndsSilent ==
    ASSUME DOMAIN job = JobFields, NEW rc, rc # INPUT_AVAILABLE, NEW got, ReturnWith(rc, got)
    PROVE  Silent
BY EndsCall DEF Silent

LEMMA EndsWithout ==
    ASSUME DOMAIN job = JobFields, NEW rc, rc # INPUT_AVAILABLE, Return(rc)
    PROVE  Silent
BY EndsSilent DEF Return

LEMMA GoesOn ==
    ASSUME DOMAIN job = JobFields, NEW pc, Goto(pc), UNCHANGED last
    PROVE  Goes(pc)
BY MovesCall DEF Goes

\* How the call moves with each step of the program.
LEMMA CallMoves ==
    ASSUME Shapes, Call
    PROVE  /\ job.pc = "idle" /\ job'.pc \in {"idle", "request", "ask"}
           /\ job'.pc = "request" => api.tested /\ api.connected
           /\ job'.pc = "ask" /\ api.tested /\ api.connected => job'.fn = "qtrm"
           /\ job'.t \in Int
           /\ UNCHANGED <<terminal, api, con, rcv, prompt, stack, typed, d58, tube, last>>
<1> DEFINE next(r) == CASE r.fn = "fscncl" /\ api.diag58 -> "idle"
                         [] r.fn # "qtrm" /\ api.tested /\ api.connected -> "request"
                         [] OTHER -> "ask"
           time(r) == IF ServedBy(r.fn) # "fsrdp" THEN r.t
                      ELSE IF r.fn = "fscncl" THEN Cancel
                      ELSE IF r.fn = "fsrd" THEN NoTimeout
                      ELSE IF r.room = 0 \/ r.t < 0 THEN QueryOnly ELSE r.t
<1>0. \A r \in Requests : time(r) \in Int
  BY ApiAssumption DEF Cancel, NoTimeout, QueryOnly
<1>1. PICK r \in Requests :
         job' = [IdleJob EXCEPT !.fn = r.fn, !.cmd = r.cmd, !.data = r.data, !.room = r.room,
                               !.n = job.n + 1, !.t = time(r), !.pc = next(r)]
  BY DEF Call
<1>2. /\ next(r) \in {"idle", "request", "ask"}
      /\ next(r) = "request" => api.tested /\ api.connected
      /\ next(r) = "ask" /\ api.tested /\ api.connected => r.fn = "qtrm"
  OBVIOUS
<1> HIDE DEF next, time
<1>3. job'.fn = r.fn /\ job'.pc = next(r) /\ job'.t = time(r)
  BY <1>1 DEF IdleJob
<1>. QED BY <1>0, <1>2, <1>3 DEF Call

LEMMA AskMoves ==
    ASSUME Shapes, Records, AskTerminal
    PROVE  /\ job.pc = "ask" /\ UNCHANGED <<terminal, rcv, typed>>
           /\ api'.sid = api.sid
           /\ \/ /\ terminal = "diag58" /\ api'.tested /\ api'.connected /\ api'.diag58
                 /\ Silent \/ Goes("request")
                 /\ UNCHANGED <<con, prompt, stack>>
              \/ /\ terminal # "diag58" /\ api'.tested /\ ~api'.diag58
                 /\ api'.connected = api.connected
                 /\ Goes("probe") /\ stack' = <<>> /\ con' = Handled(con, "T", <<>>)
                 /\ UNCHANGED <<d58, tube>>
<1>1. DOMAIN job = JobFields
  BY DEF Shapes, JobFields
<1>2. OK # INPUT_AVAILABLE
  BY DEF OK, INPUT_AVAILABLE
<1>3. /\ job.pc = "ask" /\ UNCHANGED <<terminal, rcv, typed>>
  BY DEF AskTerminal
<1>4. CASE terminal = "diag58"
  <2>1. /\ api' = [api EXCEPT !.tested = TRUE, !.connected = TRUE, !.diag58 = TRUE]
        /\ Return(OK) \/ (Goto("request") /\ UNCHANGED last)
        /\ UNCHANGED <<con, prompt, stack>>
    BY <1>4 DEF AskTerminal
  <2>2. Silent \/ Goes("request")
    BY <1>1, <1>2, <2>1, EndsWithout, GoesOn
  <2>. QED BY <1>3, <1>4, <2>1, <2>2 DEF Records
<1>5. CASE terminal # "diag58"
  <2>1. /\ api' = [api EXCEPT !.tested = TRUE, !.diag58 = FALSE]
        /\ Goto("probe") /\ UNCHANGED last
        /\ stack' = <<>> /\ con' = Handled(con, "T", <<>>) /\ UNCHANGED <<d58, tube>>
    BY <1>5 DEF AskTerminal
  <2>2. Goes("probe")
    BY <1>1, <2>1, GoesOn
  <2>. QED BY <1>3, <1>5, <2>1, <2>2 DEF Records
<1>. QED BY <1>4, <1>5

LEMMA ProbeMoves ==
    ASSUME Shapes, Records, ReadTerminal
    PROVE  /\ job.pc = "probe" /\ UNCHANGED <<terminal, con, rcv, typed, d58, tube>>
           /\ stack # <<>> /\ stack' = Tail(stack)
           /\ api'.tested = api.tested /\ api'.diag58 = api.diag58
           /\ \/ /\ Line.k = "T" /\ api'.sid = DecodeInt(Line.body).val /\ api'.connected
                 /\ Silent \/ Goes("request")
              \/ Silent /\ UNCHANGED api
<1>1. DOMAIN job = JobFields
  BY DEF Shapes, JobFields
<1>2. OK # INPUT_AVAILABLE /\ CheckFailed # INPUT_AVAILABLE
  BY DEF OK, INPUT_AVAILABLE, CheckFailed
<1>3. /\ job.pc = "probe" /\ UNCHANGED <<terminal, con, rcv, typed, d58, tube>>
      /\ stack # <<>> /\ stack' = Tail(stack)
  BY DEF ReadTerminal, Reads
<1>4. \/ /\ Line.k = "T" /\ api' = [api EXCEPT !.connected = TRUE, !.sid = DecodeInt(Line.body).val]
         /\ Return(OK) \/ (Goto("request") /\ UNCHANGED last)
      \/ Return(CheckFailed) /\ UNCHANGED api
  BY DEF ReadTerminal
<1>5. CASE /\ Line.k = "T" /\ api' = [api EXCEPT !.connected = TRUE, !.sid = DecodeInt(Line.body).val]
           /\ Return(OK) \/ (Goto("request") /\ UNCHANGED last)
  <2>1. Silent \/ Goes("request")
    BY <1>1, <1>2, <1>5, EndsWithout, GoesOn
  <2>. QED BY <1>3, <1>5, <2>1 DEF Records
<1>6. CASE Return(CheckFailed) /\ UNCHANGED api
  <2>1. Silent
    BY <1>1, <1>2, <1>6, EndsWithout
  <2>. QED BY <1>3, <1>6, <2>1
<1>. QED BY <1>4, <1>5, <1>6

LEMMA RequestMoves ==
    ASSUME Shapes, SendRequest
    PROVE  /\ job.pc = "request" /\ ~api.diag58 /\ UNCHANGED <<terminal, api, rcv, typed, tube>>
           /\ \/ Silent /\ UNCHANGED <<con, stack>>
              \/ /\ stack' = <<>> /\ con' = Handled(con, Command.k, Command.body)
                 /\ \/ Silent
                    \/ Goes("answer") /\ job.fn \notin {"fslkto", "fssfm", "fsqvrs"}
<1>1. DOMAIN job = JobFields
  BY DEF Shapes, JobFields
<1>2. OK # INPUT_AVAILABLE /\ 4 # INPUT_AVAILABLE
  BY DEF OK, INPUT_AVAILABLE
<1>3. job.pc = "request" /\ ~api.diag58 /\ UNCHANGED <<terminal, api, rcv, typed, tube>>
  BY DEF SendRequest
<1>4. \/ (Return(OK) \/ Return(4)) /\ UNCHANGED <<con, stack>>
      \/ /\ stack' = <<>> /\ con' = Handled(con, Command.k, Command.body)
         /\ \/ Return(OK)
            \/ Goto("answer") /\ UNCHANGED last /\ job.fn \notin {"fslkto", "fssfm", "fsqvrs"}
  BY DEF SendRequest
<1>. QED BY <1>1, <1>2, <1>3, <1>4, EndsWithout, GoesOn

ScreenKept == d58.poll /\ ~d58.fast /\ tube.keyed # <<>>
Reports == job'.pc = "idle" /\ job'.fn = job.fn /\ job'.t = job.t /\ job.fn # "fswr"

LEMMA D58WriteMoves ==
    ASSUME Shapes, D58Write
    PROVE  Silent /\ (ScreenKept => ScreenKept')
<1>1. DOMAIN job = JobFields
  BY DEF Shapes, JobFields
<1>2. OK # INPUT_AVAILABLE /\ 4 # INPUT_AVAILABLE /\ 2 # INPUT_AVAILABLE
  BY DEF OK, INPUT_AVAILABLE
<1>3. Return(OK) \/ Return(4) \/ Return(2)
  BY DEF D58Write, FastWrite, PollWrite, PutWrite
<1>4. ScreenKept => UNCHANGED <<d58>> /\ tube'.keyed = tube.keyed
  <2> SUFFICES ASSUME ScreenKept PROVE UNCHANGED <<d58>> /\ tube'.keyed = tube.keyed
    OBVIOUS
  <2>1. PollWrite
    BY DEF D58Write, ScreenKept
  <2>2. tube.keyed # <<>>
    BY DEF ScreenKept
  <2>. QED BY <2>1, <2>2 DEF PollWrite
<1>. QED BY <1>1, <1>2, <1>3, <1>4, EndsWithout DEF ScreenKept

LEMMA D58ReadMoves ==
    ASSUME Shapes, Records, D58Read, job.fn # "fswr"
    PROVE  \/ Silent
           \/ \E pc \in {"timer", "attn", "get"} : Goes(pc)
           \/ Reports /\ ScreenKept'
<1>1. DOMAIN job = JobFields
  BY DEF Shapes, JobFields
<1>2. /\ OK # INPUT_AVAILABLE /\ 4 # INPUT_AVAILABLE /\ 7004 # INPUT_AVAILABLE
      /\ NO_INPUT # INPUT_AVAILABLE
  BY DEF OK, INPUT_AVAILABLE, NO_INPUT
<1>3. CASE d58.fast
  <2>1. Return(4) \/ ReturnWith(OK, Clipped(d58.answer, job.room))
    BY <1>3 DEF D58Read, FastRead
  <2>. QED BY <1>1, <1>2, <2>1, EndsSilent, EndsWithout
<1>4. CASE ~d58.fast /\ PollRead /\ d58'.poll /\ ~d58'.fast
  <2>1. UNCHANGED tube
    BY <1>4 DEF PollRead
  <2>2. CASE PollEmpty
    <3>1. Return(NO_INPUT) \/ (\E pc \in {"timer", "attn", "get"} : Goto(pc) /\ UNCHANGED last)
      BY <2>2 DEF PollEmpty
    <3>. QED BY <1>1, <1>2, <3>1, EndsWithout, GoesOn
  <2>3. CASE tube.keyed # <<>> /\ Return(INPUT_AVAILABLE)
    <3>1. Reports
      BY <1>1, <2>3, EndsCall DEF Return, Reports
    <3>. QED BY <1>4, <2>1, <2>3, <3>1 DEF ScreenKept
  <2>4. CASE Goto("attn") /\ UNCHANGED last
    BY <1>1, <2>4, GoesOn
  <2>. QED BY <1>4, <2>2, <2>3, <2>4 DEF PollRead
<1>5. CASE ~d58.fast /\ ~PollRead
  <2>1. Return(OK) \/ Return(7004) \/ (Goto("get") /\ UNCHANGED last)
    BY <1>5 DEF D58Read
  <2>. QED BY <1>1, <1>2, <2>1, EndsWithout, GoesOn
<1>6. CASE ~d58.fast /\ PollRead
  <2>1. \/ Return(OK)
        \/ d58.poll /\ UNCHANGED d58
        \/ Goto("get") /\ UNCHANGED last
        \/ Return(7004)
        \/ d58' = [d58 EXCEPT !.poll = TRUE]
    BY <1>6 DEF D58Read
  <2>2. CASE Return(OK) \/ Return(7004) \/ (Goto("get") /\ UNCHANGED last)
    BY <1>1, <1>2, <2>2, EndsWithout, GoesOn
  <2>3. CASE d58.poll /\ UNCHANGED d58
    BY <1>4, <1>6, <2>3
  <2>4. CASE d58' = [d58 EXCEPT !.poll = TRUE]
    BY <1>4, <1>6, <2>4 DEF Records
  <2>. QED BY <2>1, <2>2, <2>3, <2>4
<1>. QED BY <1>3, <1>5, <1>6

LEMMA D58RequestMoves ==
    ASSUME Shapes, Records, D58Request
    PROVE  /\ job.pc = "request" /\ api.diag58
           /\ UNCHANGED <<terminal, api, con, rcv, prompt, stack, typed>>
           /\ \/ Silent /\ (ScreenKept /\ job.fn = "fswr" => ScreenKept')
              \/ job.fn # "fswr" /\ \E pc \in {"timer", "attn", "get"} : Goes(pc)
              \/ Reports /\ ScreenKept'
<1>1. DOMAIN job = JobFields
  BY DEF Shapes, JobFields
<1>2. OK # INPUT_AVAILABLE /\ 1 # INPUT_AVAILABLE
  BY DEF OK, INPUT_AVAILABLE
<1>3. /\ job.pc = "request" /\ api.diag58
      /\ UNCHANGED <<terminal, api, con, rcv, prompt, stack, typed>>
  BY DEF D58Request
<1>4. CASE job.fn = "fswr" /\ D58Write
  BY <1>3, <1>4, D58WriteMoves
<1>5. CASE ServedBy(job.fn) = "fsrdp" /\ D58Read
  <2>1. job.fn # "fswr"
    BY <1>5 DEF ServedBy
  <2>. QED BY <1>3, <1>5, <2>1, D58ReadMoves
<1>6. CASE job.fn # "fswr" /\ (Return(OK) \/ Return(1))
  BY <1>1, <1>2, <1>3, <1>6, EndsWithout
<1>. QED BY <1>4, <1>5, <1>6 DEF D58Request

LEMMA D58OtherMoves ==
    ASSUME Shapes, TimerEnds \/ AttentionEnds \/ ReadModified
    PROVE  /\ job.pc \in {"timer", "attn", "get"}
           /\ Silent \/ Goes("attn")
           /\ UNCHANGED d58
<1>1. DOMAIN job = JobFields
  BY DEF Shapes, JobFields
<1>2. /\ OK # INPUT_AVAILABLE /\ 1 # INPUT_AVAILABLE /\ 4 # INPUT_AVAILABLE
      /\ 7002 # INPUT_AVAILABLE /\ TIMEDOUT # INPUT_AVAILABLE
  BY DEF OK, INPUT_AVAILABLE, TIMEDOUT
<1>3. CASE TimerEnds
  BY <1>1, <1>2, <1>3, EndsWithout DEF TimerEnds
<1>4. CASE AttentionEnds
  BY <1>1, <1>4, GoesOn DEF AttentionEnds
<1>5. CASE ReadModified
  <2>1. /\ job.pc \in {"attn", "get"} /\ UNCHANGED d58
        /\ Return(1) \/ Return(7002) \/ Return(4) \/ ReturnWith(OK, Clipped(tube.keyed, job.room))
    BY <1>5 DEF ReadModified
  <2>2. Silent
    BY <1>1, <1>2, <2>1, EndsWithout, EndsSilent
  <2>. QED BY <2>1, <2>2
<1>. QED BY <1>3, <1>4, <1>5

LEMMA WriteMoves ==
    ASSUME Shapes, WriteAnswer
    PROVE  /\ job.pc = "answer" /\ job.fn = "fswr"
           /\ Silent \/ Goes("chunks")
           /\ stack # <<>> /\ stack' = Tail(stack)
           /\ UNCHANGED <<terminal, api, con, rcv, typed, d58, tube>>
<1>1. DOMAIN job = JobFields
  BY DEF Shapes, JobFields
<1>2. \/ job' = [job EXCEPT !.pc = "chunks", !.got = job.data] /\ UNCHANGED last
      \/ \E rc \in {1, 2, 3} : Return(rc)
  BY DEF WriteAnswer
<1>3. \A rc \in {1, 2, 3} : rc # INPUT_AVAILABLE
  BY DEF INPUT_AVAILABLE
<1>4. Silent \/ Goes("chunks")
  <2>1. CASE job' = [job EXCEPT !.pc = "chunks", !.got = job.data] /\ UNCHANGED last
    BY <1>1, <2>1 DEF Goes, JobFields
  <2>2. CASE \E rc \in {1, 2, 3} : Return(rc)
    BY <1>1, <1>3, <2>2, EndsWithout
  <2>. QED BY <1>2, <2>1, <2>2
<1>. QED BY <1>4 DEF WriteAnswer, Reads

LEMMA ChunkMoves ==
    ASSUME Shapes, con.part \in Seq(Nat), job.got \in Seq(Nat), WriteChunk
    PROVE  /\ job.pc = "chunks"
           /\ Silent \/ Goes("chunks")
           /\ con'.sid = con.sid /\ con'.callback = con.callback /\ con'.chunks = con.chunks
           /\ con'.wants = con.wants
           /\ UNCHANGED <<terminal, api, rcv, prompt, stack, typed, d58, tube>>
<1>1. DOMAIN job = JobFields
  BY DEF Shapes, JobFields
<1>2. OK # INPUT_AVAILABLE
  BY DEF OK, INPUT_AVAILABLE
<1>3. \A body : \A k \in {"f", "F"} : LET c == Handled(con, k, body) IN
         /\ c.sid = con.sid /\ c.callback = con.callback
         /\ c.chunks = con.chunks /\ c.wants = con.wants
  <2> TAKE body
  <2> DEFINE d == DecodeData(body, Len(body) + 1).data
             w == con.part \o d
  <2>1. Handled(con, "f", body) = [con EXCEPT !.part = @ \o d]
    BY DEF Handled
  <2>2. Handled(con, "F", body) = Shown(con, w)
    BY DEF Handled
  <2> HIDE DEF d, w
  <2> DEFINE same(c) == /\ c.sid = con.sid /\ c.callback = con.callback
                        /\ c.chunks = con.chunks /\ c.wants = con.wants
  <2>3. same([con EXCEPT !.part = @ \o d])
    BY DEF Shapes
  <2>4. same(Shown(con, w))
    <3>1. CASE con.fs
      BY <3>1 DEF Shown, Shapes
    <3>2. CASE ~con.fs
      BY <3>2 DEF Shown, Shapes
    <3>. QED BY <3>1, <3>2
  <2>5. same(Handled(con, "f", body)) /\ same(Handled(con, "F", body))
    <3> HIDE DEF same
    <3>. QED BY <2>1, <2>2, <2>3, <2>4
  <2>. QED BY <2>5
<1>4. \/ \E body : con' = Handled(con, "f", body) /\ job'.pc = "chunks" /\ Goes("chunks")
      \/ \E body : con' = Handled(con, "F", body) /\ Return(OK)
  <2>1. CASE Len(job.got) > ChunkSize
    <3>1. \E body : con' = Handled(con, "f", body)
      BY <2>1 DEF WriteChunk
    <3>2. job.pc = "chunks" /\ job' = [job EXCEPT !.got = SubSeq(@, ChunkSize + 1, Len(@))]
          /\ UNCHANGED last
      BY <2>1 DEF WriteChunk
    <3>3. Goes("chunks") /\ job'.pc = "chunks"
      BY <1>1, <3>2 DEF Goes, JobFields
    <3>. QED BY <3>1, <3>3
  <2>2. CASE ~(Len(job.got) > ChunkSize)
    <3>1. \E body : con' = Handled(con, "F", body)
      BY <2>2 DEF WriteChunk
    <3>2. Return(OK)
      BY <2>2 DEF WriteChunk
    <3>. QED BY <3>1, <3>2
  <2>. QED BY <2>1, <2>2
<1>5. job.pc = "chunks" /\ UNCHANGED <<terminal, api, rcv, prompt, stack, typed, d58, tube>>
  BY DEF WriteChunk
<1>6. Silent \/ Goes("chunks")
  BY <1>1, <1>2, <1>4, EndsWithout
<1>7. con'.sid = con.sid /\ con'.callback = con.callback /\ con'.chunks = con.chunks
           /\ con'.wants = con.wants
  BY <1>3, <1>4
<1>. QED BY <1>5, <1>6, <1>7

LEMMA SettingMoves ==
    ASSUME Shapes, SettingAnswer
    PROVE  /\ job.pc = "answer" /\ Asks(job.fn)
           /\ Silent
           /\ stack # <<>> /\ stack' = Tail(stack)
           /\ UNCHANGED <<terminal, api, con, rcv, typed, d58, tube>>
<1>1. DOMAIN job = JobFields
  BY DEF Shapes, JobFields
<1>2. OK # INPUT_AVAILABLE /\ 2 # INPUT_AVAILABLE
  BY DEF OK, INPUT_AVAILABLE
<1>3. Return(OK) \/ Return(2)
  BY DEF SettingAnswer
<1>4. Silent
  BY <1>1, <1>2, <1>3, EndsWithout
<1>. QED BY <1>4 DEF SettingAnswer, Reads

LEMMA ReadMoves ==
    ASSUME Shapes, ReadAnswer
    PROVE  /\ job.pc = "answer" /\ ServedBy(job.fn) = "fsrdp"
           /\ \/ Silent
              \/ Line.k = "i" /\ \E pc \in {"answer", "rest"} : Goes(pc)
              \/ Reports /\ TellsInput(Line)
           /\ stack # <<>> /\ stack' = Tail(stack)
           /\ UNCHANGED <<terminal, api, con, rcv, typed, d58, tube>>
<1>1. DOMAIN job = JobFields /\ job.pc = "answer" /\ ServedBy(job.fn) = "fsrdp"
  BY DEF Shapes, JobFields, ReadAnswer
<1>2. /\ OK # INPUT_AVAILABLE /\ 2 # INPUT_AVAILABLE /\ 3004 # INPUT_AVAILABLE
      /\ 4004 # INPUT_AVAILABLE /\ 5004 # INPUT_AVAILABLE
      /\ \A rc : rc # 0 => StateMeant(rc) # INPUT_AVAILABLE
  BY DEF OK, INPUT_AVAILABLE, TIMEDOUT, NO_INPUT, StateMeant
<1>3. \/ Silent
      \/ Line.k = "i" /\ \E pc \in {"answer", "rest"} : Goes(pc)
      \/ Reports /\ TellsInput(Line)
  <2>1. CASE Line.k = "typed"
    <3>1. Return(2) \/ Return(3004)
      BY <2>1 DEF ReadAnswer
    <3>. QED BY <1>1, <1>2, <3>1, EndsWithout
  <2>2. CASE Line.k = "E"
    <3> DEFINE rc == DecodeInt(Line.body).val
    <3>1. Return(4004) \/ Return(StateMeant(rc))
      BY <2>2 DEF ReadAnswer
    <3> HIDE DEF rc
    <3>2. CASE Return(StateMeant(rc)) /\ rc = 0
      <4>1. Reports
        BY <1>1, <3>2, EndsCall DEF Return, Reports, ServedBy
      <4>. QED BY <2>2, <3>2, <4>1 DEF TellsInput, rc
    <3>3. CASE Return(StateMeant(rc)) /\ rc # 0
      BY <1>1, <1>2, <3>3, EndsWithout
    <3>4. CASE Return(4004)
      BY <1>1, <1>2, <3>4, EndsWithout
    <3>. QED BY <3>1, <3>2, <3>3, <3>4
  <2>3. CASE Line.k \in {"i", "I"}
    <3> DEFINE data == IF Line.body = <<>> THEN [ok |-> TRUE, data |-> <<>>]
                       ELSE DecodeData(Line.body, job.room - Len(job.got))
    <3>1. InputChunk(data)
      BY <2>3 DEF ReadAnswer
    <3> HIDE DEF data
    <3>2. CASE Line.k = "i"
      <4>1. job' = [job EXCEPT !.got = @ \o data.data, !.pc = IF data.ok THEN @ ELSE "rest"]
            /\ UNCHANGED last
        BY <3>1, <3>2 DEF InputChunk
      <4>2. job'.fn = job.fn /\ job'.t = job.t /\ last'.told = last.told /\ (job'.pc = "answer" \/ job'.pc = "rest")
        BY <1>1, <4>1 DEF JobFields
      <4>3. Goes("answer") \/ Goes("rest")
        BY <4>2 DEF Goes
      <4>. QED BY <3>2, <4>3
    <3>3. CASE Line.k # "i"
      <4>1. ReturnWith(OK, job.got \o data.data) \/ Return(5004)
        BY <3>1, <3>3 DEF InputChunk
      <4>. QED BY <1>1, <1>2, <4>1, EndsSilent, EndsWithout
    <3>. QED BY <3>2, <3>3
  <2>4. CASE Line.k \notin {"typed", "E", "i", "I"}
    <3>1. Return(4004)
      BY <2>4 DEF ReadAnswer
    <3>. QED BY <1>1, <1>2, <3>1, EndsWithout
  <2>. QED BY <2>1, <2>2, <2>3, <2>4
<1>. QED BY <1>1, <1>3 DEF ReadAnswer, Reads

LEMMA RestMoves ==
    ASSUME Shapes, ReadRest
    PROVE  /\ job.pc = "rest"
           /\ Silent \/ (Line.k = "i" /\ Goes("rest"))
           /\ stack # <<>> /\ stack' = Tail(stack)
           /\ UNCHANGED <<terminal, api, con, rcv, typed, d58, tube>>
<1>1. DOMAIN job = JobFields
  BY DEF Shapes, JobFields
<1>2. 1004 # INPUT_AVAILABLE /\ 2004 # INPUT_AVAILABLE
  BY DEF INPUT_AVAILABLE
<1>3. Return(1004) \/ Return(2004) \/ (Line.k = "i" /\ UNCHANGED <<job, last>>)
  BY DEF ReadRest
<1>4. job.pc = "rest"
  BY DEF ReadRest
<1>5. Silent \/ (Line.k = "i" /\ Goes("rest"))
  BY <1>1, <1>2, <1>3, <1>4, EndsWithout DEF Goes
<1>. QED BY <1>4, <1>5 DEF ReadRest, Reads

\* The steps of the environment do not move the call.
LEMMA EnvironmentMoves ==
    ASSUME Shapes, Environment
    PROVE  /\ job'.pc = job.pc /\ job'.fn = job.fn /\ job'.n = job.n /\ job'.t = job.t
           /\ UNCHANGED <<terminal, api, last>>
           /\ d58' = d58
<1>1. CASE VmRead
  <2>1. UNCHANGED job \/ \E bytes : job' = [job EXCEPT !.used = bytes]
    BY <1>1 DEF VmRead, VmReadAnswered, SendNextChunk, ReadFullScreen, SendsInput
  <2>2. job'.pc = job.pc /\ job'.fn = job.fn /\ job'.n = job.n /\ job'.t = job.t
    BY <2>1 DEF Shapes
  <2>. QED BY <1>1, <2>2 DEF VmRead
<1>2. CASE InputArrives
  <2>1. UNCHANGED job \/ \E bytes : job' = [job EXCEPT !.used = bytes]
    BY <1>2 DEF InputArrives, SendsInput
  <2>2. job'.pc = job.pc /\ job'.fn = job.fn /\ job'.n = job.n /\ job'.t = job.t
    BY <2>1 DEF Shapes
  <2>. QED BY <1>2, <2>2 DEF InputArrives
<1>3. CASE TimesOut \/ GraceEnds \/ NewSession \/ UserTypes \/ LineArrives
  BY <1>3 DEF TimesOut, GraceEnds, NewSession, UserTypes, LineArrives
<1>4. CASE (UserKeys \/ AttentionMissed) /\ UNCHANGED <<terminal, api, con, rcv, prompt, stack, typed>>
  BY <1>4 DEF UserKeys, AttentionMissed
<1>. QED BY <1>1, <1>2, <1>3, <1>4 DEF Environment

\* The steps of the program.
LEMMA ProgramCases ==
    ASSUME Program
    PROVE  \/ Call \/ AskTerminal \/ ReadTerminal \/ SendRequest \/ D58Request \/ WriteAnswer
           \/ WriteChunk \/ SettingAnswer \/ ReadAnswer \/ ReadRest
           \/ Fast58 /\ UNCHANGED <<terminal, api, con, rcv, prompt, stack, typed, job, last>>
           \/ /\ TimerEnds \/ AttentionEnds \/ ReadModified
              /\ UNCHANGED <<terminal, api, con, rcv, prompt, stack, typed>>
BY DEF Program

\* Of the program, only these steps have to do with the console.
LEMMA ProgramLines ==
    ASSUME Program
    PROVE  \/ AskTerminal \/ ReadTerminal \/ SendRequest \/ WriteAnswer \/ WriteChunk
           \/ SettingAnswer \/ ReadAnswer \/ ReadRest
           \/ UNCHANGED <<terminal, api, con, rcv, prompt, stack, typed>>
<1>1. Call \/ D58Request => UNCHANGED <<terminal, api, con, rcv, prompt, stack, typed>>
  BY DEF Call, D58Request
<1>. QED BY <1>1, ProgramCases

-----------------------------------------------------------------------------
(* The parts, one by one *)

LEMMA RecordsStep == ASSUME Records, [Next]_vars PROVE Records'
<1>1. DOMAIN api' = {"tested", "connected", "diag58", "sid"}
  <2>1. CASE UNCHANGED api
    BY <2>1 DEF Records
  <2>2. CASE AskTerminal
    BY <2>2 DEF Records, AskTerminal
  <2>3. CASE ReadTerminal
    BY <2>3 DEF Records, ReadTerminal
  <2>4. Program => UNCHANGED api \/ AskTerminal \/ ReadTerminal
    BY DEF Program, Call, SendRequest, D58Request, WriteAnswer, WriteChunk, SettingAnswer,
           ReadAnswer, ReadRest
  <2>5. Environment => UNCHANGED api
    BY DEF Environment, VmRead, InputArrives, TimesOut, GraceEnds, NewSession, UserTypes,
           LineArrives
  <2>. QED BY <2>1, <2>2, <2>3, <2>4, <2>5 DEF Next, vars
<1>2. DOMAIN d58' = {"poll", "fast", "answer"}
  <2>1. CASE UNCHANGED d58
    BY <2>1 DEF Records
  <2>2. CASE AskTerminal
    BY <2>2 DEF Records, AskTerminal, D58Query
  <2>3. CASE SendRequest
    BY <2>3 DEF Records, SendRequest
  <2>4. CASE D58Request
    <3>1. \/ UNCHANGED d58
          \/ \E x : d58' = [d58 EXCEPT !.answer = x]
          \/ d58' = [d58 EXCEPT !.fast = FALSE]
          \/ d58' = [d58 EXCEPT !.fast = FALSE, !.answer = <<>>]
          \/ \E x : d58' = [d58 EXCEPT !.poll = x]
      <4>1. CASE D58Write
        BY <4>1 DEF D58Write, FastWrite, PollWrite, PutWrite
      <4>2. CASE D58Read
        BY <4>2 DEF D58Read, FastRead
      <4>. QED BY <2>4, <4>1, <4>2 DEF D58Request
    <3>. QED BY <3>1 DEF Records
  <2>5. CASE Fast58
    BY <2>5 DEF Records, Fast58
  <2>6. Program => UNCHANGED d58 \/ AskTerminal \/ SendRequest \/ D58Request \/ Fast58
    BY DEF Program, Call, ReadTerminal, WriteAnswer, WriteChunk, SettingAnswer,
           ReadAnswer, ReadRest, TimerEnds, AttentionEnds, ReadModified
  <2>7. Environment => UNCHANGED d58
    BY DEF Environment, VmRead, InputArrives, TimesOut, GraceEnds, NewSession, UserTypes,
           LineArrives, UserKeys, AttentionMissed
  <2>. QED BY <2>1, <2>2, <2>3, <2>4, <2>5, <2>6, <2>7 DEF Next, vars
<1>3. DOMAIN tube' = {"shown", "keyed"}
  <2>1. CASE UNCHANGED tube
    BY <2>1 DEF Records
  <2>2. CASE D58Request
    BY <2>2 DEF Records, D58Request, D58Write, FastWrite, PollWrite, PutWrite, D58Read,
                FastRead, PollRead
  <2>3. CASE ReadModified
    BY <2>3 DEF Records, ReadModified
  <2>4. CASE UserKeys \/ AttentionMissed
    BY <2>4 DEF Records, UserKeys, AttentionMissed
  <2>5. Program => UNCHANGED tube \/ D58Request \/ ReadModified
    BY DEF Program, Call, AskTerminal, D58Query, ReadTerminal, SendRequest, WriteAnswer,
           WriteChunk, SettingAnswer, ReadAnswer, ReadRest, Fast58, TimerEnds, AttentionEnds
  <2>6. Environment => UNCHANGED tube \/ UserKeys \/ AttentionMissed
    BY DEF Environment, VmRead, InputArrives, TimesOut, GraceEnds, NewSession, UserTypes,
           LineArrives
  <2>. QED BY <2>1, <2>2, <2>3, <2>4, <2>5, <2>6 DEF Next, vars
<1>. QED BY <1>1, <1>2, <1>3 DEF Records

LEMMA LinkedStep == ASSUME IInv, Records, Linked, [Next]_vars PROVE Linked'
<1>1. Shapes /\ Calling
  BY DEF IInv, Core, Lines
<1>2. CASE Program
  <2>1. CASE Call
    <3>1. /\ job.pc = "idle" /\ job'.pc \in {"idle", "request", "ask"}
          /\ job'.pc = "request" => api.tested /\ api.connected
          /\ job'.pc = "ask" /\ api.tested /\ api.connected => job'.fn = "qtrm"
          /\ UNCHANGED <<terminal, api, last>>
      BY <1>1, <2>1, CallMoves
    <3>. QED BY <3>1 DEF Linked
  <2>2. CASE AskTerminal
    <3>1. /\ job.pc = "ask" /\ UNCHANGED terminal
          /\ \/ /\ terminal = "diag58" /\ api'.tested /\ api'.connected /\ api'.diag58
                /\ Silent \/ Goes("request")
             \/ /\ terminal # "diag58" /\ api'.tested /\ ~api'.diag58
                /\ api'.connected = api.connected /\ Goes("probe")
      BY <1>1, <2>2, AskMoves
    <3>. QED BY <3>1 DEF Linked, Silent, Goes
  <2>3. CASE ReadTerminal
    <3>1. /\ job.pc = "probe" /\ UNCHANGED terminal
          /\ api'.tested = api.tested /\ api'.diag58 = api.diag58
          /\ \/ api'.connected /\ (Silent \/ Goes("request"))
             \/ Silent /\ UNCHANGED api
      BY <1>1, <2>3, ProbeMoves
    <3>. QED BY <3>1 DEF Linked, Silent, Goes
  <2>4. CASE SendRequest
    <3>1. /\ job.pc = "request" /\ ~api.diag58 /\ UNCHANGED <<terminal, api>>
          /\ Silent \/ Goes("answer")
      BY <1>1, <2>4, RequestMoves
    <3>. QED BY <3>1 DEF Linked, Silent, Goes
  <2>5. CASE D58Request
    <3>1. /\ job.pc = "request" /\ UNCHANGED <<terminal, api>>
          /\ \/ Silent
             \/ job.fn # "fswr" /\ \E pc \in {"timer", "attn", "get"} : Goes(pc)
             \/ Reports
      BY <1>1, <2>5, D58RequestMoves
    <3>2. job.pc \notin {"idle", "ask", "probe"} => api.tested /\ api.connected
      BY DEF Linked
    <3>3. CASE Silent \/ Reports
      BY <3>1, <3>2, <3>3 DEF Linked, Silent, Reports
    <3>4. CASE job.fn # "fswr" /\ \E pc \in {"timer", "attn", "get"} : Goes(pc)
      BY <3>1, <3>2, <3>4 DEF Linked, Goes
    <3>. QED BY <3>1, <3>3, <3>4
  <2>6. CASE WriteAnswer
    <3>1. /\ job.pc = "answer" /\ UNCHANGED <<terminal, api>> /\ (Silent \/ Goes("chunks"))
      BY <1>1, <2>6, WriteMoves
    <3>. QED BY <3>1 DEF Linked, Silent, Goes
  <2>7. CASE WriteChunk
    <3>1. con.part \in Seq(Nat) /\ job.got \in Seq(Nat)
      BY <1>1, <2>7 DEF Calling, WriteChunk
    <3>2. /\ job.pc = "chunks" /\ UNCHANGED <<terminal, api>> /\ (Silent \/ Goes("chunks"))
      BY <1>1, <2>7, <3>1, ChunkMoves
    <3>. QED BY <3>2 DEF Linked, Silent, Goes
  <2>8. CASE SettingAnswer
    <3>1. /\ job.pc = "answer" /\ UNCHANGED <<terminal, api>> /\ Silent
      BY <1>1, <2>8, SettingMoves
    <3>. QED BY <3>1 DEF Linked, Silent
  <2>9. CASE ReadAnswer
    <3>1. /\ job.pc = "answer" /\ UNCHANGED <<terminal, api>>
          /\ Silent \/ Reports \/ \E pc \in {"answer", "rest"} : Goes(pc)
      BY <1>1, <2>9, ReadMoves
    <3>. QED BY <3>1 DEF Linked, Silent, Goes, Reports
  <2>10. CASE ReadRest
    <3>1. /\ job.pc = "rest" /\ UNCHANGED <<terminal, api>> /\ (Silent \/ Goes("rest"))
      BY <1>1, <2>10, RestMoves
    <3>. QED BY <3>1 DEF Linked, Silent, Goes
  <2>11. CASE UNCHANGED <<terminal, api, job, last>>
    BY <2>11 DEF Linked
  <2>12. CASE /\ TimerEnds \/ AttentionEnds \/ ReadModified
              /\ UNCHANGED <<terminal, api>>
    <3>1. job.pc \in {"timer", "attn", "get"} /\ (Silent \/ Goes("attn"))
      BY <1>1, <2>12, D58OtherMoves
    <3>. QED BY <2>12, <3>1 DEF Linked, Silent, Goes
  <2>. QED BY <1>2, <2>1, <2>2, <2>3, <2>4, <2>5, <2>6, <2>7, <2>8, <2>9, <2>10, <2>11, <2>12,
              ProgramCases
<1>3. CASE Environment
  BY <1>1, <1>3, EnvironmentMoves DEF Linked
<1>4. CASE UNCHANGED vars
  BY <1>4 DEF Linked, vars
<1>. QED BY <1>2, <1>3, <1>4 DEF Next

\* What is on the screen of a terminal that CP drives.
LEMMA OnScreenStep ==
    ASSUME IInv, Records, Linked, OnScreen, [Next]_vars
    PROVE  OnScreen'
<1>1. Shapes /\ Calling
  BY DEF IInv, Core, Lines
<1>2. OnScreen <=> (ToldIdle /\ api.diag58 => ScreenKept)
  BY DEF OnScreen, ScreenKept
<1>3. ASSUME ToldIdle /\ api.diag58 => ScreenKept, ToldIdle' /\ api'.diag58 => ScreenKept'
      PROVE  OnScreen'
  BY <1>3 DEF OnScreen, ScreenKept
<1>4. CASE UNCHANGED <<api, d58, tube>> /\ (ToldIdle' => ToldIdle)
  BY <1>2, <1>3, <1>4 DEF ScreenKept
<1>5. CASE Program
  <2>1. CASE Call
    <3>1. job.pc = "idle" /\ UNCHANGED <<api, d58, tube, last>>
      BY <1>1, <2>1, CallMoves
    <3>. QED BY <1>4, <3>1 DEF ToldIdle
  <2>2. CASE AskTerminal
    <3>1. /\ job.pc = "ask"
          /\ Silent \/ Goes("request") \/ Goes("probe")
      BY <1>1, <2>2, AskMoves
    <3>2. ~ToldIdle'
      BY <3>1 DEF Linked, ToldIdle, Silent, Goes
    <3>. QED BY <1>2, <1>3, <3>2
  <2>3. CASE ReadTerminal
    <3>1. /\ job.pc = "probe" /\ (Silent \/ Goes("request"))
      BY <1>1, <2>3, ProbeMoves
    <3>2. ~ToldIdle'
      BY <3>1 DEF Linked, ToldIdle, Silent, Goes
    <3>. QED BY <1>2, <1>3, <3>2
  <2>4. CASE SendRequest
    <3>1. ~api'.diag58
      BY <1>1, <2>4, RequestMoves
    <3>. QED BY <1>2, <1>3, <3>1
  <2>5. CASE D58Request
    <3>1. /\ job.pc = "request" /\ UNCHANGED api
          /\ \/ Silent /\ (ScreenKept /\ job.fn = "fswr" => ScreenKept')
             \/ job.fn # "fswr" /\ \E pc \in {"timer", "attn", "get"} : Goes(pc)
             \/ Reports /\ ScreenKept'
      BY <1>1, <2>5, D58RequestMoves
    <3>2. CASE Silent /\ (ScreenKept /\ job.fn = "fswr" => ScreenKept')
      <4>1. ToldIdle' => ToldIdle /\ job.fn = "fswr"
        BY <3>2 DEF ToldIdle, Silent
      <4>. QED BY <1>2, <1>3, <3>1, <3>2, <4>1
    <3>3. CASE job.fn # "fswr" /\ \E pc \in {"timer", "attn", "get"} : Goes(pc)
      <4>1. ~ToldIdle'
        BY <3>3 DEF ToldIdle, Goes
      <4>. QED BY <1>2, <1>3, <4>1
    <3>4. CASE Reports /\ ScreenKept'
      BY <1>2, <1>3, <3>4
    <3>. QED BY <3>1, <3>2, <3>3, <3>4
  <2>6. CASE WriteAnswer \/ WriteChunk \/ SettingAnswer \/ ReadAnswer \/ ReadRest
    <3>1. job.pc \in {"answer", "chunks", "rest"} /\ UNCHANGED api
      BY <2>6 DEF WriteAnswer, WriteChunk, SettingAnswer, ReadAnswer, ReadRest
    <3>2. ~api'.diag58
      BY <3>1 DEF Linked
    <3>. QED BY <1>2, <1>3, <3>2
  <2>7. CASE Fast58 /\ UNCHANGED <<terminal, api, con, rcv, prompt, stack, typed, job, last>>
    <3>1. ScreenKept => ScreenKept'
      BY <2>7 DEF Fast58, ScreenKept
    <3>. QED BY <1>2, <1>3, <2>7, <3>1 DEF ToldIdle
  <2>8. CASE /\ TimerEnds \/ AttentionEnds \/ ReadModified
             /\ UNCHANGED <<terminal, api, con, rcv, prompt, stack, typed>>
    <3>1. job.pc \in {"timer", "attn", "get"} /\ (Silent \/ Goes("attn"))
      BY <1>1, <2>8, D58OtherMoves
    <3>2. ~ToldIdle'
      BY <3>1 DEF Linked, ToldIdle, Silent, Goes
    <3>. QED BY <1>2, <1>3, <3>2
  <2>. QED BY <1>5, <2>1, <2>2, <2>3, <2>4, <2>5, <2>6, <2>7, <2>8, ProgramCases
<1>6. CASE Environment
  <2>1. /\ job'.pc = job.pc /\ job'.fn = job.fn /\ UNCHANGED <<api, last, d58>>
    BY <1>1, <1>6, EnvironmentMoves
  <2>2. ToldIdle' => ToldIdle
    BY <2>1 DEF ToldIdle
  <2>3. ScreenKept => ScreenKept'
    <3> SUFFICES ASSUME ScreenKept PROVE tube' = tube
      BY <2>1 DEF ScreenKept
    <3>. QED BY <1>6 DEF ScreenKept, Environment, VmRead, InputArrives, TimesOut, GraceEnds,
                         NewSession, UserTypes, LineArrives, UserKeys, AttentionMissed
  <2>. QED BY <1>2, <1>3, <2>1, <2>2, <2>3
<1>7. CASE UNCHANGED vars
  BY <1>4, <1>7 DEF vars, ToldIdle
<1>. QED BY <1>5, <1>6, <1>7 DEF Next

-----------------------------------------------------------------------------
(* What the steps of the console do to the lines *)

LEMMA InputLines ==
    ASSUME IsSeq(stack), NEW c, DOMAIN c = Fields, NEW asked, NEW bytes \in Seq(Nat),
           SendsInput(c, asked, bytes)
    PROVE  /\ con'.sid = c.sid /\ con'.callback /\ con'.chunks # <<>>
           /\ \A line \in In(con'.chunks) : line.k \in {"i", "I"}
           /\ \E line : line.k = "i" /\ In(stack') = In(stack) \cup {line}
<1> DEFINE t == Transfer(asked, bytes)
<1>1. /\ con' = [c EXCEPT !.chunks = Tail(t), !.callback = TRUE, !.wants = <<>>,
                          !.waits = <<>>, !.grace = c.toFs]
      /\ stack' = Append(stack, Head(t))
  BY DEF SendsInput, Sends
<1>2. Head(t).k = "i" /\ Tail(t) # <<>> /\ \A line \in In(Tail(t)) : line.k \in {"i", "I"}
  BY InTransfer
<1> HIDE DEF t
<1>3. In(stack') = In(stack) \cup {Head(t)}
  BY <1>1, InAppend
<1>. QED BY <1>1, <1>2, <1>3 DEF Fields

LEMMA StateLines ==
    ASSUME IsSeq(stack), NEW c, DOMAIN c = Fields, NEW asked, NEW rc, SendsState(c, asked, rc)
    PROVE  /\ con'.sid = c.sid /\ con'.callback = c.callback /\ con'.chunks = <<>>
           /\ In(stack') = In(stack) \cup {AnswerTo(asked, "E", EncodeInt(rc))}
           /\ AnswerTo(asked, "E", EncodeInt(rc)).k = "E"
           /\ TellsInput(AnswerTo(asked, "E", EncodeInt(rc))) => rc = 0 \/ rc \notin 0 .. 4
<1> DEFINE line == AnswerTo(asked, "E", EncodeInt(rc))
<1>1. line.k = "E" /\ line.body = EncodeInt(rc)
  BY DEF AnswerTo
<1>2. TellsInput(line) => rc = 0 \/ rc \notin 0 .. 4
  BY <1>1, CodesArrive DEF TellsInput
<1>3. con' = [c EXCEPT !.chunks = <<>>, !.wants = <<>>] /\ stack' = Append(stack, line)
  BY DEF SendsState, Sends
<1> HIDE DEF line
<1>4. In(stack') = In(stack) \cup {line}
  BY <1>3, InAppend
<1>5. con'.sid = c.sid /\ con'.callback = c.callback /\ con'.chunks = <<>>
  BY <1>3 DEF Fields
<1>. QED BY <1>1, <1>2, <1>4, <1>5 DEF line

LEMMA ChunkLines ==
    ASSUME Shapes, con.chunks # <<>>, SendNextChunk
    PROVE  /\ con'.sid = con.sid
           /\ In(con'.chunks) \subseteq In(con.chunks)
           /\ In(stack') = In(stack) \cup {Head(con.chunks)} /\ Head(con.chunks) \in In(con.chunks)
           /\ con'.callback => con.callback /\ con'.chunks # <<>>
           /\ ~con.callback => UNCHANGED rcv
<1> DEFINE done == con.callback /\ Len(con.chunks) = 1
<1>1. IsSeq(stack) /\ IsSeq(con.chunks)
  BY DEF Shapes
<1>2. /\ con'.sid = con.sid /\ con'.chunks = Tail(con.chunks)
      /\ con'.callback = (con.callback /\ ~done)
      /\ stack' = Append(stack, Head(con.chunks))
      /\ ~done => UNCHANGED rcv
  BY DEF SendNextChunk, Sends, Shapes
<1>3. In(stack') = In(stack) \cup {Head(con.chunks)}
  BY <1>1, <1>2, InAppend
<1>4. Head(con.chunks) \in In(con.chunks) /\ In(con'.chunks) \subseteq In(con.chunks)
  BY <1>1, <1>2, InTake
<1>5. /\ Len(con.chunks) \in Nat \ {0} /\ IsSeq(Tail(con.chunks))
      /\ Len(Tail(con.chunks)) = Len(con.chunks) - 1
  BY <1>1, SeqTake
<1>6. con'.callback => con.callback /\ con'.chunks # <<>>
  <2> SUFFICES ASSUME con'.callback PROVE con.callback /\ con'.chunks # <<>>
    OBVIOUS
  <2>1. con.callback /\ Len(con.chunks) # 1
    BY <1>2
  <2>2. Len(con'.chunks) # 0
    BY <1>2, <1>5, <2>1
  <2>. QED BY <1>2, <1>5, <2>1, <2>2, SeqLen
<1>. QED BY <1>2, <1>3, <1>4, <1>6

\* What the console makes of a read: nothing but a new wait, an answer, or the
\* input that is there.
LEMMA FullScreenLines ==
    ASSUME Shapes, rcv.data \in Seq(Nat), NEW asked, asked.t \in Int, ReadFullScreen(asked)
    PROVE  \/ /\ con'.sid = con.sid /\ con'.callback = con.callback /\ con'.chunks = con.chunks
              /\ UNCHANGED stack
           \/ /\ con'.sid = con.sid /\ con'.callback = con.callback /\ con'.chunks = <<>>
              /\ \E line : /\ In(stack') = In(stack) \cup {line} /\ line.k = "E"
                           /\ TellsInput(line) => Available'
           \/ /\ con'.sid = con.sid /\ con'.callback /\ con'.chunks # <<>>
              /\ \A line \in In(con'.chunks) : line.k \in {"i", "I"}
              /\ \E line : line.k = "i" /\ In(stack') = In(stack) \cup {line}
              /\ Available
<1> DEFINE free == [con EXCEPT !.waits = <<>>, !.grace = FALSE, !.fs = FALSE, !.over = TRUE]
           empty == [con EXCEPT !.waits = <<>>, !.grace = TRUE]
<1>0. asked.t \in Int
  OBVIOUS
<1>1. /\ DOMAIN free = Fields /\ free.sid = con.sid /\ free.callback = con.callback
      /\ DOMAIN empty = Fields /\ empty.sid = con.sid /\ empty.callback = con.callback
      /\ DOMAIN con = Fields /\ IsSeq(stack)
  BY DEF Shapes, Fields
<1>2. \/ con' = [con EXCEPT !.wants = <<>>] /\ UNCHANGED stack
      \/ SendsState(free, asked, 4)
      \/ Available /\ Prepared = rcv /\ rcv' = Prepared /\ SendsState(empty, asked, 0)
      \/ SendsState(empty, asked, 4)
      \/ Available /\ SendsInput(con, asked, rcv.data)
      \/ /\ UNCHANGED stack
         /\ \E t : con' = [con EXCEPT !.waits = <<asked>>, !.grace = FALSE, !.fs = TRUE,
                                      !.toFs = t, !.wants = <<>>]
  <2> DEFINE state == IF Available THEN 0 ELSE 4
  <2>1. \/ con' = [con EXCEPT !.wants = <<>>] /\ UNCHANGED stack
        \/ SendsState(free, asked, 4)
        \/ ~con.over /\ asked.t < 0 /\ SendsState(empty, asked, state)
        \/ Available /\ SendsInput(con, asked, rcv.data)
        \/ SendsState(empty, asked, 4)
        \/ /\ UNCHANGED stack
           /\ con' = [con EXCEPT !.waits = <<asked>>, !.grace = FALSE, !.fs = TRUE,
                                 !.toFs = con.lock > 0 /\ con.lock = asked.t, !.wants = <<>>]
    BY Zenon DEF ReadFullScreen, Available
  <2>2. ASSUME ~con.over, asked.t < 0 PROVE rcv' = Prepared
    <3>1. rcv' = IF con.over THEN rcv
                 ELSE IF asked.t >= 0 /\ Available THEN [rcv EXCEPT !.locked = TRUE]
                 ELSE Prepared
      BY DEF ReadFullScreen, Available
    <3>2. ~(asked.t >= 0 /\ Available)
      BY <1>0, <2>2
    <3>. QED BY <2>2, <3>1, <3>2
  <2>3. Available => Prepared = rcv
    BY DEF Available, Prepared
  <2>4. CASE Available
    <3>1. state = 0
      BY <2>4
    <3> HIDE DEF state
    <3>. QED BY <2>1, <2>2, <2>3, <2>4, <3>1
  <2>5. CASE ~Available
    <3>1. state = 4
      BY <2>5
    <3> HIDE DEF state
    <3>. QED BY <2>1, <3>1
  <2>. QED BY <2>4, <2>5
<1> HIDE DEF free, empty
<1>3. CASE con' = [con EXCEPT !.wants = <<>>] /\ UNCHANGED stack
  BY <1>1, <1>3 DEF Fields
<1>4. CASE SendsState(free, asked, 4)
  <2>1. /\ con'.sid = con.sid /\ con'.callback = con.callback /\ con'.chunks = <<>>
        /\ In(stack') = In(stack) \cup {AnswerTo(asked, "E", EncodeInt(4))}
        /\ AnswerTo(asked, "E", EncodeInt(4)).k = "E"
        /\ ~TellsInput(AnswerTo(asked, "E", EncodeInt(4)))
    BY <1>1, <1>4, StateLines
  <2>. QED BY <2>1
<1>5. CASE Available /\ Prepared = rcv /\ rcv' = Prepared /\ SendsState(empty, asked, 0)
  <2>1. /\ con'.sid = con.sid /\ con'.callback = con.callback /\ con'.chunks = <<>>
        /\ In(stack') = In(stack) \cup {AnswerTo(asked, "E", EncodeInt(0))}
        /\ AnswerTo(asked, "E", EncodeInt(0)).k = "E"
    BY <1>1, <1>5, StateLines
  <2>2. Available'
    BY <1>5 DEF Available
  <2>. QED BY <2>1, <2>2
<1>6. CASE SendsState(empty, asked, 4)
  <2>1. /\ con'.sid = con.sid /\ con'.callback = con.callback /\ con'.chunks = <<>>
        /\ In(stack') = In(stack) \cup {AnswerTo(asked, "E", EncodeInt(4))}
        /\ AnswerTo(asked, "E", EncodeInt(4)).k = "E"
        /\ ~TellsInput(AnswerTo(asked, "E", EncodeInt(4)))
    BY <1>1, <1>6, StateLines
  <2>. QED BY <2>1
<1>7. CASE Available /\ SendsInput(con, asked, rcv.data) /\ rcv.data \in Seq(Nat)
  BY <1>1, <1>7, InputLines
<1>8. CASE /\ UNCHANGED stack
           /\ \E t : con' = [con EXCEPT !.waits = <<asked>>, !.grace = FALSE, !.fs = TRUE,
                                        !.toFs = t, !.wants = <<>>]
  BY <1>1, <1>8 DEF Fields
<1>. QED BY <1>2, <1>3, <1>4, <1>5, <1>6, <1>7, <1>8

-----------------------------------------------------------------------------
(* Timeouts and sessions *)

LEMMA CommandIsText ==
    ASSUME job.t \in Int, api.sid \in Int, Command.k = "I"
    PROVE  Command.body \in Seq(Chars)
<1>1. ServedBy(job.fn) = "fsrdp" /\ job.fn # "fswr"
  BY Letters DEF ServedBy
<1> DEFINE ns == IF TimeoutSent THEN <<api.sid, job.t, Grace>> ELSE <<api.sid>>
<1>2. Command.body = EncodeInts(ns)
  BY <1>1 DEF Command
<1>3. ns \in Seq(Int)
  BY ApiAssumption
<1>. QED BY <1>2, <1>3, TextOfNumbers

LEMMA TimedStep == ASSUME IInv, Timed, Records, Sessions, [Next]_vars PROVE Timed'
<1>1. Shapes /\ Calling
  BY DEF IInv, Core, Lines
<1>2. CASE Program
  <2>1. CASE UNCHANGED con
    <3>1. CASE Call
      BY <1>1, <2>1, <3>1, CallMoves DEF Timed
    <3>2. CASE ~Call
      <4>1. job'.t = job.t
        <5>1. CASE AskTerminal \/ ReadTerminal \/ SendRequest
          BY <1>1, <5>1, AskMoves, ProbeMoves, RequestMoves DEF Silent, Goes
        <5>2. CASE D58Request \/ TimerEnds \/ AttentionEnds \/ ReadModified
          BY <1>1, <5>2, D58RequestMoves, D58OtherMoves DEF Silent, Goes, Reports
        <5>3. CASE WriteAnswer \/ SettingAnswer \/ ReadAnswer \/ ReadRest
          BY <1>1, <5>3, WriteMoves, SettingMoves, ReadMoves, RestMoves DEF Silent, Goes, Reports
        <5>4. CASE WriteChunk
          <6>1. con.part \in Seq(Nat) /\ job.got \in Seq(Nat)
            BY <1>1, <5>4 DEF Calling, WriteChunk
          <6>. QED BY <1>1, <5>4, <6>1, ChunkMoves DEF Silent, Goes
        <5>. QED BY <1>2, <3>2, <5>1, <5>2, <5>3, <5>4, ProgramCases
      <4>. QED BY <2>1, <4>1 DEF Timed
    <3>. QED BY <3>1, <3>2
  <2>2. CASE AskTerminal /\ con' = Handled(con, "T", <<>>)
    <3>1. job'.t = job.t
      BY <1>1, <2>2, AskMoves DEF Silent, Goes
    <3> DEFINE c == Handled(con, "T", <<>>)
    <3>2. c = [con EXCEPT !.chunks = <<Answer("T", EncodeInt(con.sid))>>]
      BY DEF Handled
    <3>3. c.wants = con.wants
      BY <1>1, <3>2 DEF Shapes
    <3>. QED BY <2>2, <3>1, <3>3 DEF Timed
  <2>3. CASE SendRequest /\ con' = Handled(con, Command.k, Command.body)
    <3> DEFINE k == Command.k
               body == Command.body
    <3>1. job'.t = job.t
      BY <1>1, <2>3, RequestMoves DEF Silent, Goes
    <3>2. k \in {"T", "t", "C", "W", "I", "&", "|"}
      BY Letters
    <3>3. k = "I" => body \in Seq(Chars)
      BY CommandIsText DEF Timed, Sessions
    <3>4. con' = Handled(con, k, body)
      BY <2>3
    <3> HIDE DEF k, body
    <3>5. Answered(con', k)
      BY <1>1, <3>2, <3>3, <3>4, HandledLines
    <3>6. CASE con'.wants = con.wants
      BY <3>1, <3>6 DEF Timed
    <3>7. CASE AsksInTime(con'.wants)
      <4>1. PICK t \in Int : con'.wants = <<[t |-> t, n |-> job.n]>>
        BY <3>7 DEF AsksInTime
      <4>2. Head(con'.wants) = [t |-> t, n |-> job.n]
        BY <4>1
      <4>. QED BY <3>1, <4>2 DEF Timed
    <3>. QED BY <3>5, <3>6, <3>7 DEF Answered
  <2>4. CASE WriteChunk
    <3>1. con.part \in Seq(Nat) /\ job.got \in Seq(Nat)
      BY <1>1, <2>4 DEF Calling, WriteChunk
    <3>2. con'.wants = con.wants /\ (Silent \/ Goes("chunks"))
      BY <1>1, <2>4, <3>1, ChunkMoves
    <3>. QED BY <3>2 DEF Timed, Silent, Goes
  <2>5. \/ UNCHANGED con
        \/ AskTerminal /\ con' = Handled(con, "T", <<>>)
        \/ SendRequest /\ con' = Handled(con, Command.k, Command.body)
        \/ WriteChunk
    <3>1. CASE UNCHANGED <<terminal, api, con, rcv, prompt, stack, typed>>
      BY <3>1
    <3>2. CASE AskTerminal
      BY <1>1, <3>2, AskMoves
    <3>3. CASE ReadTerminal \/ WriteAnswer \/ SettingAnswer \/ ReadAnswer \/ ReadRest
      BY <3>3 DEF ReadTerminal, WriteAnswer, SettingAnswer, ReadAnswer, ReadRest
    <3>4. CASE SendRequest
      BY <1>1, <3>4, RequestMoves
    <3>. QED BY <1>2, <3>1, <3>2, <3>3, <3>4, ProgramLines
  <2>. QED BY <2>1, <2>2, <2>3, <2>4, <2>5
<1>3. CASE Environment
  <2>1. job'.t = job.t
    BY <1>1, <1>3, EnvironmentMoves
  <2>2. con'.wants = con.wants \/ con'.wants = <<>>
    <3>1. CASE VmRead
      <4>1. \/ UNCHANGED con
            \/ \E c, asked, rc : DOMAIN c = Fields /\ SendsState(c, asked, rc)
            \/ \E asked, bytes : SendsInput(con, asked, bytes)
            \/ con' = [con EXCEPT !.wants = <<>>]
            \/ \E w, t : con' = [con EXCEPT !.waits = w, !.grace = FALSE, !.fs = TRUE, !.toFs = t,
                                            !.wants = <<>>]
            \/ con'.wants = con.wants
        <5>1. CASE con.wants # <<>> /\ ReadFullScreen(Head(con.wants))
          <6> DEFINE asked == Head(con.wants)
                     free == [con EXCEPT !.waits = <<>>, !.grace = FALSE, !.fs = FALSE, !.over = TRUE]
                     empty == [con EXCEPT !.waits = <<>>, !.grace = TRUE]
                     state == IF rcv.complete /\ ~rcv.locked THEN 0 ELSE 4
          <6>1. \/ con' = [con EXCEPT !.wants = <<>>]
                \/ SendsState(free, asked, 4)
                \/ SendsState(empty, asked, state)
                \/ SendsInput(con, asked, rcv.data)
                \/ SendsState(empty, asked, 4)
                \/ con' = [con EXCEPT !.waits = <<asked>>, !.grace = FALSE, !.fs = TRUE,
                                      !.toFs = con.lock > 0 /\ con.lock = asked.t, !.wants = <<>>]
            BY <5>1, Zenon DEF ReadFullScreen
          <6>2. DOMAIN free = Fields /\ DOMAIN empty = Fields
            BY <1>1 DEF Shapes, Fields
          <6> HIDE DEF asked, free, empty, state
          <6>. QED BY <6>1, <6>2
        <5>2. CASE SendNextChunk
          BY <1>1, <5>2 DEF SendNextChunk, Shapes
        <5>3. CASE UNCHANGED con
          BY <5>3
        <5>. QED BY <3>1, <5>1, <5>2, <5>3 DEF VmRead, VmReadAnswered
      <4>2. CASE \E c, asked, rc : DOMAIN c = Fields /\ SendsState(c, asked, rc)
        BY <4>2 DEF SendsState, Fields
      <4>3. CASE \E asked, bytes : SendsInput(con, asked, bytes)
        BY <1>1, <4>3 DEF SendsInput, Shapes
      <4>4. CASE ~(\E c, asked, rc : DOMAIN c = Fields /\ SendsState(c, asked, rc))
                 /\ ~(\E asked, bytes : SendsInput(con, asked, bytes))
        BY <1>1, <4>1, <4>4 DEF Shapes
      <4>. QED BY <4>2, <4>3, <4>4
    <3>2. CASE InputArrives
      BY <1>1, <3>2 DEF InputArrives, SendsInput, Shapes
    <3>3. CASE TimesOut
      BY <1>1, <3>3 DEF TimesOut, SendsState, Shapes
    <3>4. CASE GraceEnds
      BY <1>1, <3>4 DEF GraceEnds, Shapes
    <3>5. CASE NewSession
      BY <3>5 DEF NewSession, FreshConsole
    <3>6. Environment => UNCHANGED con \/ VmRead \/ InputArrives \/ TimesOut \/ GraceEnds \/ NewSession
      BY DEF Environment, UserTypes, LineArrives
    <3>. QED BY <1>3, <3>1, <3>2, <3>3, <3>4, <3>5, <3>6
  <2>. QED BY <2>1, <2>2 DEF Timed
<1>4. CASE UNCHANGED vars
  BY <1>4 DEF Timed, vars
<1>. QED BY <1>2, <1>3, <1>4 DEF Next

\* The lines are those of before, or answers that name no session, or the one
\* that names the session that is there.
LEMMA SessionsKept ==
    ASSUME Sessions, api'.sid = api.sid, con'.sid = con.sid,
           \A line \in In(stack') \cup In(con'.chunks) :
              \/ line \in In(stack) \cup In(con.chunks)
              \/ line.k # "T"
              \/ line = Answer("T", EncodeInt(con.sid))
    PROVE  Sessions'
<1>1. OldSession(Answer("T", EncodeInt(con.sid)))
  BY CodesArrive DEF OldSession, Answer, Sessions
<1>. QED BY <1>1 DEF Sessions, OldSession

LEMMA SessionsStep == ASSUME IInv, Records, Timed, Sessions, [Next]_vars PROVE Sessions'
<1>1. Shapes /\ Calling /\ IsSeq(stack) /\ DOMAIN con = Fields
  BY DEF IInv, Core, Lines, Shapes, Fields
<1>2. CASE UNCHANGED <<con, stack>> /\ api'.sid = api.sid
  BY <1>2, SessionsKept
<1>3. ASSUME con'.sid = con.sid, con'.chunks = con.chunks, api'.sid = api.sid, stack # <<>>,
             stack' = Tail(stack)
      PROVE  Sessions'
  <2>1. In(stack') \subseteq In(stack)
    BY <1>1, <1>3, InTake
  <2>. QED BY <1>3, <2>1, SessionsKept
<1>4. CASE Program
  <2>1. CASE UNCHANGED <<terminal, api, con, rcv, prompt, stack, typed>>
    BY <1>2, <2>1
  <2>2. CASE AskTerminal
    <3>1. api'.sid = api.sid
      BY <1>1, <2>2, AskMoves
    <3>2. CASE UNCHANGED <<con, stack>>
      BY <1>2, <3>1, <3>2
    <3>3. CASE stack' = <<>> /\ con' = Handled(con, "T", <<>>)
      <4> DEFINE c == Handled(con, "T", <<>>)
      <4>1. c.sid = con.sid /\ c.chunks = <<Answer("T", EncodeInt(con.sid))>>
        BY <1>1, HandledLines DEF Answered
      <4>2. con' = c
        BY <3>3
      <4> HIDE DEF c
      <4>3. In(stack') = {} /\ In(con'.chunks) = {Answer("T", EncodeInt(con.sid))}
        BY <3>3, <4>1, <4>2, InNone, InOne
      <4>. QED BY <3>1, <4>1, <4>2, <4>3, SessionsKept
    <3>. QED BY <1>1, <2>2, <3>2, <3>3, AskMoves
  <2>3. CASE ReadTerminal
    <3>1. /\ UNCHANGED con /\ stack # <<>> /\ stack' = Tail(stack)
          /\ api'.sid = api.sid \/ (Line.k = "T" /\ api'.sid = DecodeInt(Line.body).val)
      BY <1>1, <2>3, ProbeMoves
    <3>2. In(stack') \subseteq In(stack) /\ Line \in In(stack)
      BY <1>1, <3>1, InTake DEF Line
    <3>3. OldSession(Line)
      BY <3>2 DEF Sessions
    <3>4. api'.sid \in Int /\ api'.sid =< con.sid
      BY <3>1, <3>3 DEF Sessions, OldSession
    <3>. QED BY <3>1, <3>2, <3>4 DEF Sessions, OldSession
  <2>4. CASE SendRequest
    <3>1. UNCHANGED api
      BY <1>1, <2>4, RequestMoves
    <3>2. CASE UNCHANGED <<con, stack>>
      BY <1>2, <3>1, <3>2
    <3>3. CASE stack' = <<>> /\ con' = Handled(con, Command.k, Command.body)
      <4> DEFINE k == Command.k
                 body == Command.body
      <4>1. k \in {"T", "t", "C", "W", "I", "&", "|"}
        BY Letters
      <4>2. k = "I" => body \in Seq(Chars)
        BY CommandIsText DEF Timed, Sessions
      <4>3. con' = Handled(con, k, body)
        BY <3>3
      <4> HIDE DEF k, body
      <4>4. Answered(con', k)
        BY <1>1, <4>1, <4>2, <4>3, HandledLines
      <4>10. /\ con'.sid = con.sid
             /\ k = "T" => con'.chunks = <<Answer("T", EncodeInt(con.sid))>>
             /\ k \in {"t", "C", "W"} => \E b : con'.chunks = <<Answer(k, b)>>
             /\ k \in {"&", "|"} => con'.chunks = con.chunks
             /\ k = "I" => \/ con'.chunks = con.chunks
                           \/ \E rc \in {1, 2} : con'.chunks = <<Answer("E", EncodeInt(rc))>>
        BY <4>4 DEF Answered
      <4>5. In(stack') = {}
        BY <3>3, InNone
      <4>6. \/ con'.chunks = con.chunks
            \/ con'.chunks = <<Answer("T", EncodeInt(con.sid))>>
            \/ \E l \in {"t", "C", "W", "E"} : \E b : con'.chunks = <<Answer(l, b)>>
        <5>1. CASE k = "T" \/ k \in {"&", "|"}
          BY <4>3, <4>10, <5>1
        <5>2. CASE k \in {"t", "C", "W"}
          BY <4>3, <4>10, <5>2
        <5>3. CASE k = "I"
          BY <4>3, <4>10, <5>3
        <5>. QED BY <4>1, <5>1, <5>2, <5>3
      <4>7. CASE con'.chunks = con.chunks
        BY <3>1, <4>3, <4>10, <4>5, <4>7, SessionsKept
      <4>8. CASE con'.chunks = <<Answer("T", EncodeInt(con.sid))>>
        <5>1. In(con'.chunks) = {Answer("T", EncodeInt(con.sid))}
          BY <4>8, InOne
        <5>. QED BY <3>1, <4>3, <4>10, <4>5, <5>1, SessionsKept
      <4>9. CASE \E l \in {"t", "C", "W", "E"} : \E b : con'.chunks = <<Answer(l, b)>>
        <5>1. PICK l \in {"t", "C", "W", "E"} : \E b : con'.chunks = <<Answer(l, b)>>
          BY <4>9
        <5>4. PICK b : con'.chunks = <<Answer(l, b)>>
          BY <5>1
        <5>2. Answer(l, b).k # "T"
          BY DEF Answer
        <5>3. In(con'.chunks) = {Answer(l, b)}
          BY <5>4, InOne
        <5>. QED BY <3>1, <4>3, <4>10, <4>5, <5>2, <5>3, SessionsKept
      <4>. QED BY <4>6, <4>7, <4>8, <4>9
    <3>. QED BY <1>1, <2>4, <3>2, <3>3, RequestMoves
  <2>5. CASE WriteAnswer \/ SettingAnswer \/ ReadAnswer \/ ReadRest
    BY <1>3, <2>5 DEF WriteAnswer, SettingAnswer, ReadAnswer, ReadRest, Reads
  <2>6. CASE WriteChunk
    <3>1. con.part \in Seq(Nat) /\ job.got \in Seq(Nat)
      BY <1>1, <2>6 DEF Calling, WriteChunk
    <3>2. con'.sid = con.sid /\ con'.chunks = con.chunks /\ UNCHANGED <<api, stack>>
      BY <1>1, <2>6, <3>1, ChunkMoves
    <3>. QED BY <3>2, SessionsKept
  <2>. QED BY <1>4, <2>1, <2>2, <2>3, <2>4, <2>5, <2>6, ProgramLines
<1>5. CASE Environment
  <2>1. UNCHANGED api
    BY <1>1, <1>5, EnvironmentMoves
  <2>2. ASSUME con'.sid = con.sid,
               \A line \in In(con'.chunks) : line \in In(con.chunks) \/ line.k \in {"i", "I"},
               \A line \in In(stack') : \/ line \in In(stack) \cup In(con.chunks)
                                        \/ line.k \in {"i", "E", "typed"}
        PROVE  Sessions'
    BY <2>1, <2>2, SessionsKept
  <2>3. CASE VmRead
    <3>1. CASE con.wants # <<>> /\ ReadFullScreen(Head(con.wants))
      <4>1. rcv.data \in Seq(Nat) /\ Head(con.wants).t \in Int
        BY <3>1 DEF IInv, Received, Timed
      <4>2. \/ /\ con'.sid = con.sid /\ con'.chunks = con.chunks
               /\ UNCHANGED stack
            \/ /\ con'.sid = con.sid /\ con'.chunks = <<>>
               /\ \E line : In(stack') = In(stack) \cup {line} /\ line.k = "E"
            \/ /\ con'.sid = con.sid
               /\ \A line \in In(con'.chunks) : line.k \in {"i", "I"}
               /\ \E line : line.k = "i" /\ In(stack') = In(stack) \cup {line}
        BY <1>1, <3>1, <4>1, FullScreenLines
      <4>. QED BY <2>2, <4>2, InNone
    <3>2. CASE con.chunks # <<>> /\ SendNextChunk
      BY <1>1, <2>2, <3>2, ChunkLines
    <3>3. CASE UNCHANGED <<con, stack>>
      BY <2>2, <3>3
    <3>. QED BY <2>3, <3>1, <3>2, <3>3 DEF VmRead, VmReadAnswered
  <2>4. CASE InputArrives
    <3>1. CASE UNCHANGED <<con, stack>>
      BY <2>2, <3>1
    <3>2. CASE \E input \in Inputs : SendsInput(con, Head(con.waits), input)
      <4>1. PICK input \in Inputs : SendsInput(con, Head(con.waits), input)
        BY <3>2
      <4>2. input \in Seq(Nat)
        BY ApiAssumption
      <4>3. /\ con'.sid = con.sid
            /\ \A line \in In(con'.chunks) : line.k \in {"i", "I"}
            /\ \E line : line.k = "i" /\ In(stack') = In(stack) \cup {line}
        BY <1>1, <4>1, <4>2, InputLines
      <4>. QED BY <2>2, <4>3
    <3>. QED BY <2>4, <3>1, <3>2 DEF InputArrives
  <2>5. CASE TimesOut
    <3> DEFINE c == [con EXCEPT !.waits = <<>>, !.grace = TRUE]
               asked == Head(con.waits)
    <3>1. SendsState(c, asked, 3) /\ DOMAIN c = Fields /\ c.sid = con.sid
      BY <1>1, <2>5 DEF TimesOut, Fields
    <3> HIDE DEF c, asked
    <3>2. /\ con'.sid = con.sid /\ con'.chunks = <<>>
          /\ In(stack') = In(stack) \cup {AnswerTo(asked, "E", EncodeInt(3))}
          /\ AnswerTo(asked, "E", EncodeInt(3)).k = "E"
      BY <1>1, <3>1, StateLines
    <3>. QED BY <2>2, <3>2, InNone
  <2>6. CASE GraceEnds
    <3>1. con'.sid = con.sid /\ con'.chunks = con.chunks /\ UNCHANGED stack
      BY <1>1, <2>6 DEF GraceEnds, Fields
    <3>. QED BY <2>2, <3>1
  <2>7. CASE NewSession
    <3>1. con'.sid = con.sid + 1 /\ con'.chunks = <<>> /\ UNCHANGED stack
      BY <2>7 DEF NewSession, FreshConsole
    <3>2. con'.sid \in Nat /\ con.sid =< con'.sid /\ api'.sid \in Int /\ api'.sid =< con'.sid
      BY <2>1, <3>1 DEF Sessions
    <3>3. \A line \in In(stack') \cup In(con'.chunks) : OldSession(line)
      BY <3>1, InNone DEF Sessions
    <3>4. \A line : OldSession(line) => OldSession(line)'
      <4> SUFFICES ASSUME NEW line, OldSession(line), line.k = "T"
                   PROVE  DecodeInt(line.body).val \in Int /\ DecodeInt(line.body).val =< con'.sid
        BY DEF OldSession
      <4>1. DecodeInt(line.body).val \in Int /\ DecodeInt(line.body).val =< con.sid
        BY DEF OldSession
      <4>. QED BY <3>1, <4>1 DEF Sessions
    <3>. QED BY <3>2, <3>3, <3>4 DEF Sessions
  <2>8. CASE UserTypes
    BY <2>2, <2>8 DEF UserTypes
  <2>9. CASE LineArrives
    <3> DEFINE line == [k |-> "typed", body |-> <<>>, n |-> 0]
    <3>1. stack' = Append(stack, line) /\ UNCHANGED con /\ line.k = "typed"
      BY <2>9 DEF LineArrives, Sends
    <3> HIDE DEF line
    <3>2. In(stack') = In(stack) \cup {line}
      BY <1>1, <3>1, InAppend
    <3>. QED BY <2>2, <3>1, <3>2
  <2>10. CASE UNCHANGED <<con, stack>>
    BY <2>2, <2>10
  <2>. QED BY <1>5, <2>3, <2>4, <2>5, <2>6, <2>7, <2>8, <2>9, <2>10 DEF Environment
<1>6. CASE UNCHANGED vars
  BY <1>2, <1>6 DEF vars
<1>. QED BY <1>4, <1>5, <1>6 DEF Next

-----------------------------------------------------------------------------
(* Nobody has typed *)

LEMMA UndisturbedStep ==
    ASSUME IInv, IInv', Records, Timed, Linked, Sessions, Undisturbed, [Next]_vars,
           typed.made = 0, typed'.made = 0
    PROVE  Undisturbed'
<1>1. /\ Shapes /\ Calling /\ Orderly /\ Orderly' /\ Lines /\ IsSeq(stack)
      /\ DOMAIN con = Fields /\ rcv.data \in Seq(Nat)
  BY DEF IInv, Core, Lines, Shapes, Fields, Received
<1>2. ~Reading' => con'.chunks = <<>>
  BY <1>1 DEF Orderly, NothingUnderWay
<1>3. (ReadsInput => Reading) /\ (ReadsInput' => Reading')
  BY DEF ReadsInput, Reading
<1>4. ASSUME con'.callback = con.callback, con'.chunks = con.chunks, ~Reading'
      PROVE  Undisturbed'
  BY <1>2, <1>3, <1>4 DEF Undisturbed
<1>5. ASSUME UNCHANGED <<con, rcv, api>>, In(stack') \subseteq In(stack), ReadsInput, ReadsInput'
      PROVE  Undisturbed'
  BY <1>5 DEF Undisturbed, Available
<1>6. ASSUME con'.callback = con.callback, ~ReadsInput, ~ReadsInput'
      PROVE  Undisturbed'
  BY <1>6 DEF Undisturbed
<1>7. ASSUME UNCHANGED <<con, rcv, api, stack, job>> PROVE Undisturbed'
  BY <1>7 DEF Undisturbed, ReadsInput, Available
<1>8. CASE Program
  <2>1. CASE Call
    <3>1. UNCHANGED con /\ ~Reading'
      BY <1>1, <2>1, CallMoves DEF Reading
    <3>. QED BY <1>4, <3>1
  <2>2. CASE AskTerminal
    <3>1. ~ReadsInput /\ ~ReadsInput'
      BY <1>1, <2>2, AskMoves DEF ReadsInput, Silent, Goes
    <3>2. con'.callback = con.callback
      <4>1. CASE UNCHANGED con
        BY <4>1
      <4>2. CASE con' = Handled(con, "T", <<>>)
        <5>1. Answered(con', "T")
          BY <1>1, <4>2, HandledLines
        <5>. QED BY <5>1 DEF Answered
      <4>. QED BY <1>1, <2>2, <4>1, <4>2, AskMoves
    <3>. QED BY <1>6, <3>1, <3>2
  <2>3. CASE ReadTerminal
    <3>1. UNCHANGED con /\ ~ReadsInput /\ ~ReadsInput'
      BY <1>1, <2>3, ProbeMoves DEF ReadsInput, Silent, Goes
    <3>. QED BY <1>6, <3>1
  <2>4. CASE SendRequest
    <3>1. job.pc = "request" /\ UNCHANGED <<api, rcv>> /\ ~ReadsInput /\ ~Reading
      BY <1>1, <2>4, RequestMoves DEF ReadsInput, Reading
    <3>2. CASE Silent /\ UNCHANGED <<con, stack>>
      BY <1>6, <3>1, <3>2 DEF Silent, ReadsInput
    <3>3. CASE stack' = <<>> /\ con' = Handled(con, Command.k, Command.body)
      <4> DEFINE k == Command.k
                 body == Command.body
      <4>1. /\ k \in {"T", "t", "C", "W", "I", "&", "|"}
            /\ k = "I" <=> ServedBy(job.fn) = "fsrdp"
        BY Letters
      <4>2. k = "I" => body \in Seq(Chars)
        BY CommandIsText DEF Timed, Sessions
      <4>3. con' = Handled(con, k, body)
        BY <3>3
      <4> HIDE DEF k, body
      <4>4. Answered(con', k)
        BY <1>1, <4>1, <4>2, <4>3, HandledLines
      <4>5. con'.callback = con.callback
        BY <4>4 DEF Answered
      <4>6. CASE ~ReadsInput'
        BY <1>6, <3>1, <4>5, <4>6
      <4>7. CASE ReadsInput'
        <5>1. k = "I"
          BY <1>1, <2>4, <4>1, <4>7, RequestMoves DEF ReadsInput, Silent, Goes
        <5>2. \/ con'.chunks = con.chunks
              \/ \E rc \in {1, 2} : con'.chunks = <<Answer("E", EncodeInt(rc))>>
          BY <4>4, <5>1 DEF Answered
        <5>3. \A line \in In(con'.chunks) : ~TellsInput(line)
          <6>1. CASE con'.chunks = con.chunks
            <7>1. con'.chunks = <<>>
              BY <1>1, <3>1, <6>1 DEF Orderly, NothingUnderWay
            <7>. QED BY <7>1, InNone
          <6>2. CASE \E rc \in {1, 2} : con'.chunks = <<Answer("E", EncodeInt(rc))>>
            <7>1. PICK rc \in {1, 2} : con'.chunks = <<Answer("E", EncodeInt(rc))>>
              BY <6>2
            <7>2. In(con'.chunks) = {Answer("E", EncodeInt(rc))}
              BY <7>1, InOne
            <7>3. DecodeInt(EncodeInt(rc)).val # 0
              BY CodesArrive
            <7>4. Answer("E", EncodeInt(rc)).body = EncodeInt(rc)
              BY DEF Answer
            <7>5. ~TellsInput(Answer("E", EncodeInt(rc)))
              BY <7>3, <7>4 DEF TellsInput
            <7>. QED BY <7>2, <7>5
          <6>. QED BY <5>2, <6>1, <6>2
        <5>4. In(stack') = {}
          BY <3>3, InNone
        <5>5. ~con'.callback
          BY <3>1, <4>5 DEF Undisturbed
        <5>. QED BY <5>3, <5>4, <5>5 DEF Undisturbed
      <4>. QED BY <4>6, <4>7
    <3>. QED BY <1>1, <2>4, <3>2, <3>3, RequestMoves
  <2>5. CASE D58Request
    <3>1. UNCHANGED con /\ ~Reading'
      BY <1>1, <2>5, D58RequestMoves DEF Reading, Silent, Goes, Reports
    <3>. QED BY <1>4, <3>1
  <2>6. CASE WriteAnswer
    <3>1. UNCHANGED con /\ ~Reading'
      BY <1>1, <2>6, WriteMoves DEF Reading, Silent, Goes
    <3>. QED BY <1>4, <3>1
  <2>7. CASE WriteChunk
    <3>1. con.part \in Seq(Nat) /\ job.got \in Seq(Nat)
      BY <1>1, <2>7 DEF Calling, WriteChunk
    <3>2. con'.callback = con.callback /\ con'.chunks = con.chunks /\ ~Reading'
      BY <1>1, <2>7, <3>1, ChunkMoves DEF Reading, Silent, Goes
    <3>. QED BY <1>4, <3>2
  <2>8. CASE SettingAnswer
    <3>1. UNCHANGED con /\ ~Reading'
      BY <1>1, <2>8, SettingMoves DEF Reading, Silent
    <3>. QED BY <1>4, <3>1
  <2>9. CASE ReadAnswer
    <3>1. /\ UNCHANGED <<con, rcv, api>> /\ stack # <<>> /\ stack' = Tail(stack) /\ ReadsInput
          /\ Silent \/ Reports \/ \E pc \in {"answer", "rest"} : Goes(pc)
      BY <1>1, <2>9, ReadMoves DEF ReadsInput
    <3>2. CASE Silent \/ Reports
      BY <1>4, <3>1, <3>2 DEF Reading, Silent, Reports
    <3>3. CASE \E pc \in {"answer", "rest"} : Goes(pc)
      <4>1. ReadsInput'
        BY <3>1, <3>3 DEF ReadsInput, Goes
      <4>2. In(stack') \subseteq In(stack)
        BY <1>1, <3>1, InTake
      <4>. QED BY <1>5, <3>1, <4>1, <4>2
    <3>. QED BY <3>1, <3>2, <3>3
  <2>10. CASE ReadRest
    <3>1. /\ UNCHANGED <<con, rcv, api>> /\ stack # <<>> /\ stack' = Tail(stack) /\ ReadsInput
          /\ Silent \/ Goes("rest")
      BY <1>1, <2>10, RestMoves DEF ReadsInput, Calling
    <3>2. CASE Silent
      BY <1>4, <3>1, <3>2 DEF Reading, Silent
    <3>3. CASE Goes("rest")
      <4>1. ReadsInput'
        BY <3>1, <3>3 DEF ReadsInput, Goes
      <4>2. In(stack') \subseteq In(stack)
        BY <1>1, <3>1, InTake
      <4>. QED BY <1>5, <3>1, <4>1, <4>2
    <3>. QED BY <3>1, <3>2, <3>3
  <2>11. CASE UNCHANGED <<terminal, api, con, rcv, prompt, stack, typed, job, last>>
    BY <1>7, <2>11
  <2>12. CASE /\ TimerEnds \/ AttentionEnds \/ ReadModified
              /\ UNCHANGED <<terminal, api, con, rcv, prompt, stack, typed>>
    <3>1. UNCHANGED con /\ ~Reading'
      BY <1>1, <2>12, D58OtherMoves DEF Reading, Silent, Goes
    <3>. QED BY <1>4, <3>1
  <2>. QED BY <1>8, <2>1, <2>2, <2>3, <2>4, <2>5, <2>6, <2>7, <2>8, <2>9, <2>10, <2>11, <2>12,
              ProgramCases
<1>9. CASE Environment
  <2>1. UNCHANGED api /\ (ReadsInput' <=> ReadsInput)
    BY <1>1, <1>9, EnvironmentMoves DEF ReadsInput
  <2>2. con.chunks = <<>> => ~con.callback
    BY DEF Undisturbed
  \* an input is sent
  <2>3. ASSUME ReadsInput, stack = <<>>, con'.chunks # <<>>,
               \A line \in In(con'.chunks) : line.k \in {"i", "I"},
               \E line : line.k = "i" /\ In(stack') = In(stack) \cup {line}
        PROVE  Undisturbed'
    BY <2>1, <2>3, InNone DEF Undisturbed, TellsInput
  \* an answer is sent
  <2>4. ASSUME stack = <<>>, con.chunks = <<>>, con'.chunks = <<>>, con'.callback = con.callback,
               \E line : In(stack') = In(stack) \cup {line} /\ (TellsInput(line) => Available')
        PROVE  Undisturbed'
    BY <2>2, <2>4, InNone DEF Undisturbed
  <2>5. CASE VmRead
    <3>1. CASE con.wants # <<>> /\ ReadFullScreen(Head(con.wants))
      <4>1. Head(con.wants).t \in Int
        BY <3>1 DEF Timed
      <4>2. ReadsInput /\ stack = <<>> /\ con.chunks = <<>>
        BY <1>1, <3>1, ReadIsMine
      <4>3. \/ /\ con'.callback = con.callback /\ con'.chunks = con.chunks
               /\ UNCHANGED stack
            \/ /\ con'.callback = con.callback /\ con'.chunks = <<>>
               /\ \E line : In(stack') = In(stack) \cup {line} /\ (TellsInput(line) => Available')
            \/ /\ con'.chunks # <<>>
               /\ \A line \in In(con'.chunks) : line.k \in {"i", "I"}
               /\ \E line : line.k = "i" /\ In(stack') = In(stack) \cup {line}
        BY <1>1, <3>1, <4>1, FullScreenLines
      <4>4. CASE /\ con'.callback = con.callback /\ con'.chunks = con.chunks
                 /\ UNCHANGED stack
        BY <2>2, <4>2, <4>4, InNone DEF Undisturbed
      <4>. QED BY <2>3, <2>4, <4>2, <4>3, <4>4
    <3>2. CASE con.chunks # <<>> /\ SendNextChunk /\ stack = <<>>
      <4>1. /\ In(con'.chunks) \subseteq In(con.chunks)
            /\ In(stack') = In(stack) \cup {Head(con.chunks)} /\ Head(con.chunks) \in In(con.chunks)
            /\ con'.callback => con.callback /\ con'.chunks # <<>>
        BY <1>1, <3>2, ChunkLines
      <4>. QED BY <2>1, <3>2, <4>1, InNone DEF Undisturbed
    <3>3. CASE UNCHANGED <<con, rcv, stack, job>>
      BY <1>7, <2>1, <3>3
    <3>. QED BY <2>5, <3>1, <3>2, <3>3 DEF VmRead, VmReadAnswered
  <2>6. CASE InputArrives
    <3>1. CASE UNCHANGED <<con, stack>> /\ ~rcv.complete
      BY <2>1, <3>1 DEF Undisturbed, Available
    <3>2. CASE con.waits # <<>> /\ \E input \in Inputs : SendsInput(con, Head(con.waits), input)
      <4>1. PICK input \in Inputs : SendsInput(con, Head(con.waits), input)
        BY <3>2
      <4>2. input \in Seq(Nat)
        BY ApiAssumption
      <4>3. ReadsInput /\ stack = <<>>
        BY <1>1, <3>2, ReadIsMine
      <4>4. /\ con'.chunks # <<>>
            /\ \A line \in In(con'.chunks) : line.k \in {"i", "I"}
            /\ \E line : line.k = "i" /\ In(stack') = In(stack) \cup {line}
        BY <1>1, <4>1, <4>2, InputLines
      <4>. QED BY <2>3, <4>3, <4>4
    <3>. QED BY <2>6, <3>1, <3>2 DEF InputArrives
  <2>7. CASE TimesOut
    <3> DEFINE c == [con EXCEPT !.waits = <<>>, !.grace = TRUE]
               asked == Head(con.waits)
    <3>1. SendsState(c, asked, 3) /\ DOMAIN c = Fields /\ c.callback = con.callback
      BY <1>1, <2>7 DEF TimesOut, Fields
    <3>2. stack = <<>> /\ con.chunks = <<>>
      BY <1>1, <2>7, ReadIsMine DEF TimesOut
    <3> HIDE DEF c, asked
    <3>3. /\ con'.callback = con.callback /\ con'.chunks = <<>>
          /\ In(stack') = In(stack) \cup {AnswerTo(asked, "E", EncodeInt(3))}
          /\ ~TellsInput(AnswerTo(asked, "E", EncodeInt(3)))
      BY <1>1, <3>1, StateLines
    <3>. QED BY <2>4, <3>2, <3>3
  <2>8. CASE GraceEnds
    <3>1. /\ con'.callback = con.callback /\ con'.chunks = con.chunks /\ con'.sid = con.sid
          /\ UNCHANGED <<stack, rcv>>
      BY <1>1, <2>8 DEF GraceEnds, Fields
    <3>. QED BY <2>1, <3>1 DEF Undisturbed, Available
  <2>9. CASE NewSession
    <3>1. con'.sid = con.sid + 1 /\ con'.chunks = <<>> /\ ~con'.callback
      BY <2>9 DEF NewSession, FreshConsole
    <3>2. con'.sid # api'.sid
      BY <2>1, <3>1 DEF Sessions
    <3>. QED BY <3>1, <3>2, InNone DEF Undisturbed
  <2>10. ~UserTypes /\ ~LineArrives
    BY <1>1 DEF UserTypes, LineArrives, Shapes
  <2>11. CASE /\ UserKeys \/ AttentionMissed
              /\ UNCHANGED <<terminal, api, con, rcv, prompt, stack, typed>>
    BY <1>7, <2>11 DEF UserKeys, AttentionMissed
  <2>. QED BY <1>9, <2>5, <2>6, <2>7, <2>8, <2>9, <2>10, <2>11 DEF Environment
<1>10. CASE UNCHANGED vars
  BY <1>7, <1>10 DEF vars
<1>. QED BY <1>8, <1>9, <1>10 DEF Next

-----------------------------------------------------------------------------
(* The input that was reported *)

LEMMA StaysStep ==
    ASSUME IInv, Keeping, OnScreen', Linked', [Next]_vars
    PROVE  AvailableStays'
<1>1. Shapes /\ Calling /\ Lines /\ IsSeq(stack) /\ DOMAIN con = Fields /\ rcv.data \in Seq(Nat)
  BY DEF IInv, Core, Lines, Shapes, Fields, Received
<1>2. SUFFICES ASSUME ToldIdle', ~api'.diag58, typed'.made = 0
               PROVE  Available' \/ con'.sid # api'.sid
  <2>1. typed.made \in Nat /\ typed'.made \in Nat
    <3>1. typed' \in [made : Nat, underway : Nat]
      BY StepInv DEF IInv, Core, Lines, Shapes
    <3>. QED BY <1>1, <3>1 DEF Shapes
  <2>2. ToldIdle' /\ api'.diag58 => tube'.keyed # <<>>
    BY DEF OnScreen
  <2>. QED BY <2>1, <2>2 DEF AvailableStays, KeptInput, ToldIdle, Available
<1>3. terminal' = "mecaff"
  BY <1>2 DEF Linked, ToldIdle
<1>4. typed.made = 0
  <2>1. UNCHANGED typed \/ UserTypes \/ LineArrives
    BY DEF Next, Program, Call, AskTerminal, ReadTerminal, SendRequest, D58Request, WriteAnswer,
           WriteChunk, SettingAnswer, ReadAnswer, ReadRest, Environment, VmRead, InputArrives,
           TimesOut, GraceEnds, NewSession, vars
  <2>2. ~UserTypes
    BY <1>1, <1>2 DEF UserTypes, Shapes
  <2>3. LineArrives => typed'.made = typed.made
    BY <1>1 DEF LineArrives, Shapes
  <2>. QED BY <1>2, <2>1, <2>2, <2>3
<1>5. Undisturbed /\ Records /\ Timed /\ Linked /\ Sessions /\ OnScreen
  BY <1>4 DEF Keeping
<1>6. ASSUME ToldIdle, ~api.diag58 PROVE Available \/ con.sid # api.sid
  BY <1>4, <1>6 DEF Keeping, AvailableStays, KeptInput, ToldIdle, Available
<1>7. ASSUME ToldIdle, con'.sid = con.sid, UNCHANGED <<api, rcv>>
      PROVE  Available' \/ con'.sid # api'.sid
  BY <1>2, <1>6, <1>7 DEF Available
<1>8. CASE Program
  <2>1. CASE Call
    <3>1. job.pc = "idle" /\ UNCHANGED <<last, con, api, rcv>>
      BY <1>1, <2>1, CallMoves
    <3>. QED BY <1>2, <1>7, <3>1 DEF ToldIdle
  <2>2. CASE AskTerminal
    <3>1. job.pc = "ask" /\ (Silent \/ Goes("request") \/ Goes("probe"))
      BY <1>1, <1>5, <2>2, AskMoves
    <3>. QED BY <1>2, <1>5, <3>1 DEF Linked, ToldIdle, Silent, Goes
  <2>3. CASE ReadTerminal
    <3>1. job.pc = "probe" /\ (Silent \/ Goes("request"))
      BY <1>1, <1>5, <2>3, ProbeMoves
    <3>. QED BY <1>2, <1>5, <3>1 DEF Linked, ToldIdle, Silent, Goes
  <2>4. CASE SendRequest
    <3>1. UNCHANGED <<api, rcv>> /\ (Silent \/ Goes("answer"))
      BY <1>1, <2>4, RequestMoves
    <3>2. ToldIdle
      BY <1>2, <3>1 DEF ToldIdle, Silent, Goes
    <3>3. con'.sid = con.sid
      <4>1. CASE UNCHANGED con
        BY <4>1
      <4>2. CASE con' = Handled(con, Command.k, Command.body)
        <5> DEFINE k == Command.k
                   body == Command.body
        <5>1. k \in {"T", "t", "C", "W", "I", "&", "|"}
          BY Letters
        <5>2. k = "I" => body \in Seq(Chars)
          BY <1>5, CommandIsText DEF Timed, Sessions
        <5>3. con' = Handled(con, k, body)
          BY <4>2
        <5> HIDE DEF k, body
        <5>4. Answered(con', k)
          BY <1>1, <5>1, <5>2, <5>3, HandledLines
        <5>. QED BY <5>4 DEF Answered
      <4>. QED BY <1>1, <2>4, <4>1, <4>2, RequestMoves
    <3>. QED BY <1>7, <3>1, <3>2, <3>3
  <2>5. ~D58Request
    <3>1. D58Request => api.diag58 /\ UNCHANGED api
      BY DEF D58Request
    <3>. QED BY <1>2, <3>1
  <2>6. CASE WriteAnswer
    <3>1. UNCHANGED <<con, api, rcv>> /\ (Silent \/ Goes("chunks"))
      BY <1>1, <2>6, WriteMoves
    <3>. QED BY <1>2, <1>7, <3>1 DEF ToldIdle, Silent, Goes
  <2>7. CASE WriteChunk
    <3>1. con.part \in Seq(Nat) /\ job.got \in Seq(Nat)
      BY <1>1, <2>7 DEF Calling, WriteChunk
    <3>2. con'.sid = con.sid /\ UNCHANGED <<api, rcv>> /\ (Silent \/ Goes("chunks"))
      BY <1>1, <2>7, <3>1, ChunkMoves
    <3>. QED BY <1>2, <1>7, <3>2 DEF ToldIdle, Silent, Goes
  <2>8. CASE SettingAnswer
    <3>1. UNCHANGED <<con, api, rcv>> /\ Silent
      BY <1>1, <2>8, SettingMoves
    <3>. QED BY <1>2, <1>7, <3>1 DEF ToldIdle, Silent
  <2>9. CASE ReadAnswer
    <3>1. /\ UNCHANGED <<con, rcv, api>> /\ stack # <<>> /\ ServedBy(job.fn) = "fsrdp"
          /\ job.pc = "answer"
          /\ \/ Silent
             \/ \E pc \in {"answer", "rest"} : Goes(pc)
             \/ Reports /\ TellsInput(Line)
      BY <1>1, <2>9, ReadMoves
    <3>2. job.fn # "fswr" /\ ReadsInput
      BY <3>1 DEF ServedBy, ReadsInput
    <3>3. TellsInput(Line)
      BY <1>2, <3>1, <3>2 DEF ToldIdle, Silent, Goes
    <3>4. Line \in In(stack)
      BY <1>1, <3>1, InTake DEF Line
    <3>. QED BY <1>5, <3>1, <3>2, <3>3, <3>4 DEF Undisturbed, Available
  <2>10. CASE ReadRest
    <3>1. job.pc = "rest" /\ (Silent \/ Goes("rest"))
      BY <1>1, <2>10, RestMoves
    <3>2. job.fn # "fswr"
      BY <1>1, <3>1 DEF Calling, ServedBy
    <3>. QED BY <1>2, <3>1, <3>2 DEF ToldIdle, Silent, Goes
  <2>11. CASE UNCHANGED <<terminal, api, con, rcv, prompt, stack, typed, job, last>>
    BY <1>2, <1>7, <2>11 DEF ToldIdle
  <2>12. CASE TimerEnds \/ AttentionEnds \/ ReadModified
    <3>1. job.pc \in {"timer", "attn", "get"} /\ (Silent \/ Goes("attn"))
      BY <1>1, <2>12, D58OtherMoves
    <3>. QED BY <1>2, <1>5, <3>1 DEF Linked, ToldIdle, Silent, Goes
  <2>. QED BY <1>8, <2>1, <2>2, <2>3, <2>4, <2>5, <2>6, <2>7, <2>8, <2>9, <2>10, <2>11, <2>12,
              ProgramCases
<1>9. CASE Environment
  <2>1. ToldIdle /\ UNCHANGED api
    BY <1>1, <1>2, <1>9, EnvironmentMoves DEF ToldIdle
  <2>2. ~ReadsInput
    BY <2>1 DEF ToldIdle, ReadsInput, ServedBy
  <2>3. con.wants = <<>> /\ con.waits = <<>>
    BY <1>1, <1>4, <2>2, ReadIsMine
  <2>4. CASE VmRead
    <3>1. con'.sid = con.sid /\ UNCHANGED rcv
      <4>1. CASE con.chunks # <<>> /\ SendNextChunk
        <5>1. ~con.callback
          BY <1>5, <2>2 DEF Undisturbed
        <5>. QED BY <1>1, <4>1, <5>1, ChunkLines
      <4>. QED BY <2>3, <2>4, <4>1 DEF VmRead, VmReadAnswered
    <3>. QED BY <1>7, <2>1, <3>1
  <2>5. CASE InputArrives
    <3>1. UNCHANGED con /\ ~rcv.complete
      BY <2>3, <2>5 DEF InputArrives
    <3>. QED BY <1>2, <1>6, <2>1, <3>1 DEF Available
  <2>6. CASE GraceEnds
    <3>1. con'.sid = con.sid /\ UNCHANGED rcv
      BY <1>1, <2>6 DEF GraceEnds, Fields
    <3>. QED BY <1>7, <2>1, <3>1
  <2>7. CASE NewSession
    <3>1. con'.sid = con.sid + 1
      BY <2>7 DEF NewSession, FreshConsole
    <3>. QED BY <1>5, <2>1, <3>1 DEF Sessions
  <2>8. ~TimesOut
    BY <2>3 DEF TimesOut
  <2>9. CASE UserTypes \/ LineArrives
    BY <1>7, <2>1, <2>9 DEF UserTypes, LineArrives
  <2>10. CASE UNCHANGED <<terminal, api, con, rcv, prompt, stack, typed>>
    BY <1>7, <2>1, <2>10
  <2>. QED BY <1>9, <2>4, <2>5, <2>6, <2>7, <2>8, <2>9, <2>10 DEF Environment
<1>10. CASE UNCHANGED vars
  BY <1>2, <1>7, <1>10 DEF vars, ToldIdle
<1>. QED BY <1>8, <1>9, <1>10 DEF Next

LEMMA InitKeeping == Init => Keeping
<1>. SUFFICES ASSUME Init PROVE Keeping
  OBVIOUS
<1>1. /\ con = FreshConsole(0) /\ stack = <<>> /\ job = IdleJob /\ terminal \in {"mecaff", "diag58"}
      /\ api = [tested |-> FALSE, connected |-> FALSE, diag58 |-> FALSE, sid |-> -1]
      /\ d58 = [poll |-> FALSE, fast |-> FALSE, answer |-> <<>>]
      /\ tube = [shown |-> <<>>, keyed |-> <<>>]
      /\ ~last.told
  BY ApiAssumption DEF Init, D58Init
<1>2. con.sid = 0 /\ con.wants = <<>> /\ con.chunks = <<>> /\ ~con.callback
  BY <1>1 DEF FreshConsole
<1>3. job.pc = "idle" /\ job.t = 0
  BY <1>1 DEF IdleJob
<1>4. Records /\ Timed /\ Linked
  BY <1>1, <1>2, <1>3 DEF Records, Timed, Linked
<1>5. Sessions
  BY <1>1, <1>2, InNone DEF Sessions
<1>6. OnScreen /\ AvailableStays
  BY <1>1 DEF OnScreen, AvailableStays, ToldIdle
<1>7. Undisturbed
  BY <1>2, <1>3 DEF Undisturbed, ReadsInput
<1>. QED BY <1>4, <1>5, <1>6, <1>7 DEF Keeping

LEMMA StepKeeping == IInv /\ IInv' /\ Keeping /\ [Next]_vars => Keeping'
<1>. SUFFICES ASSUME IInv, IInv', Keeping, [Next]_vars PROVE Keeping'
  OBVIOUS
<1>1. Records /\ Timed /\ Linked /\ Sessions /\ OnScreen
  BY DEF Keeping
<1>2. Records' /\ Timed' /\ Linked' /\ Sessions' /\ OnScreen'
  BY <1>1, RecordsStep, TimedStep, LinkedStep, SessionsStep, OnScreenStep
<1>3. AvailableStays'
  BY <1>2, StaysStep
<1>4. typed'.made = 0 => Undisturbed'
  <2> SUFFICES ASSUME typed'.made = 0 PROVE Undisturbed'
    OBVIOUS
  <2>1. typed.made = 0
    <3>1. UNCHANGED typed \/ UserTypes \/ LineArrives
      BY DEF Next, Program, Call, AskTerminal, ReadTerminal, SendRequest, D58Request, WriteAnswer,
             WriteChunk, SettingAnswer, ReadAnswer, ReadRest, Environment, VmRead, InputArrives,
             TimesOut, GraceEnds, NewSession, vars
    <3>2. typed \in [made : Nat, underway : Nat]
      BY DEF IInv, Core, Lines, Shapes
    <3>. QED BY <3>1, <3>2 DEF UserTypes, LineArrives
  <2>. QED BY <1>1, <2>1, UndisturbedStep DEF Keeping
<1>. QED BY <1>2, <1>3, <1>4 DEF Keeping

(* fsio.h:166, FSRDP_RC_INPUT_AVAILABLE: once a call told the program that *)
(* an input is available, the console still has it for the next read,      *)
(* whatever the program writes, asks or sets in between, and whatever the  *)
(* timeouts do; a line typed at the wrong moment, or a new console, are    *)
(* the only things that take it away.                                      *)
THEOREM ReportedInputStays == Spec => []AvailableStays
<1>1. Keeping => AvailableStays
  BY DEF Keeping
<1>. QED BY <1>1, InitInv, StepInv, InitKeeping, StepKeeping, PTL DEF Spec

-----------------------------------------------------------------------------
(* An input on its way to a call *)

\* Reads that were asked for are not younger than the call.
Counted(asked) == asked # <<>> => Head(asked).n \in Nat /\ Head(asked).n =< job.n
ByThisCall(asked) == asked # <<>> /\ Head(asked).n = job.n
FromUser(line) == line.k = "typed"

\* A call whose read the console still owes an answer has got nothing, and
\* nothing but what the user typed is on its way to it.
Open ==
    job.pc # "idle" /\ (ByThisCall(con.wants) \/ ByThisCall(con.waits)) =>
        /\ job.pc = "answer" /\ ServedBy(job.fn) = "fsrdp"
        /\ job.got = <<>> /\ job.used = <<>>
        /\ Each(stack, FromUser)
        /\ ByThisCall(con.waits) => ~prompt /\ con.wants = <<>>

\* The first i - 1 lines of a transfer carry this much of the input.
PieceSize(bytes) == IF Len(bytes) =< ChunkSize THEN 1 ELSE ChunkSize
Upto(bytes, i) == SubSeq(bytes, 1, (i - 1) * PieceSize(bytes))

\* The console keeps the lines of a transfer from the i-th on, if any.
Way == Transfer(job, job.used)
Kept(i) ==
    con.chunks = <<>>
    \/ /\ Len(con.chunks) = Len(Way) - i + 1
       /\ \A j \in 1 .. Len(con.chunks) : con.chunks[j] = Way[i + j - 1]

\* The call has read the lines before the i-th: that one comes next, or no
\* line comes.
Reached(i) ==
    /\ job.pc = "answer" => job.got = Upto(job.used, i)
    /\ stack = <<>> => Kept(i)
    /\ stack # <<>> => Head(stack) = Way[i] /\ Each(Tail(stack), FromUser) /\ Kept(i + 1)

\* What is under way to a call that has used up an input is the rest of that
\* input, unless a typed line comes first, which ends the call.
Flow ==
    job.used # <<>> =>
        /\ ReadsInput /\ job.used \in Seq(Nat)
        /\ con.wants = <<>> /\ con.waits = <<>>
        /\ (stack # <<>> /\ FromUser(Head(stack))) \/ \E i \in 1 .. Len(Way) : Reached(i)

Using ==
    /\ job.n \in Nat /\ Counted(con.wants) /\ Counted(con.waits)
    /\ job.pc \in {"ask", "probe", "request"} => job.got = <<>>
    /\ Open /\ Flow /\ InputWhole

-----------------------------------------------------------------------------
(* The lines of a transfer carry the input *)

LEMMA TransferSame ==
    ASSUME NEW asked, NEW other, asked.n = other.n, NEW bytes
    PROVE  Transfer(asked, bytes) = Transfer(other, bytes)
BY DEF Transfer, AnswerTo

\* As many chunks of one size as there are fit into the input.
LEMMA ChunksFit ==
    ASSUME NEW len \in Nat \ {0}
    PROVE  LET full == IF len =< ChunkSize THEN 1 ELSE (len - 1) \div ChunkSize
               size == IF len =< ChunkSize THEN 1 ELSE ChunkSize
           IN  \A i \in 1 .. full : /\ (i - 1) * size \in Nat /\ i * size \in Nat
                                    /\ (i - 1) * size =< i * size /\ i * size =< len
<1>1. ChunkSize \in Nat \ {0}
  BY ApiAssumption
<1>2. CASE len =< ChunkSize
  BY <1>2
<1>3. CASE ~(len =< ChunkSize)
  <2> DEFINE q == (len - 1) \div ChunkSize
  <2>1. len - 1 \in Nat
    OBVIOUS
  <2>2. q \in Nat /\ len - 1 = q * ChunkSize + ((len - 1) % ChunkSize)
        /\ (len - 1) % ChunkSize \in 0 .. ChunkSize - 1
    BY <1>1, <2>1, Divided
  <2> HIDE DEF q
  <2>3. q * ChunkSize =< len
    BY <1>1, <2>2
  <2>4. ASSUME NEW i \in 1 .. q
        PROVE  /\ (i - 1) * ChunkSize \in Nat /\ i * ChunkSize \in Nat
               /\ (i - 1) * ChunkSize =< i * ChunkSize /\ i * ChunkSize =< q * ChunkSize
    <3>1. PICK k \in Nat : q = i + k
      <4>1. q - i \in Nat /\ q = i + (q - i)
        BY <2>2
      <4>. QED BY <4>1
    <3>2. q * ChunkSize = i * ChunkSize + k * ChunkSize
      BY <1>1, <3>1
    <3>3. k * ChunkSize \in Nat /\ (i - 1) * ChunkSize \in Nat /\ i * ChunkSize \in Nat
      BY <1>1, <3>1
    <3>4. (i - 1) * ChunkSize + ChunkSize = i * ChunkSize
      BY <1>1
    <3>. QED BY <1>1, <3>2, <3>3, <3>4
  <2>5. \A i \in 1 .. q : /\ (i - 1) * ChunkSize \in Nat /\ i * ChunkSize \in Nat
                          /\ (i - 1) * ChunkSize =< i * ChunkSize /\ i * ChunkSize =< len
    <3> SUFFICES ASSUME NEW i \in 1 .. q
                 PROVE  /\ (i - 1) * ChunkSize \in Nat /\ i * ChunkSize \in Nat
                        /\ (i - 1) * ChunkSize =< i * ChunkSize /\ i * ChunkSize =< len
      OBVIOUS
    <3>1. q * ChunkSize \in Nat
      BY <1>1, <2>2
    <3>. QED BY <2>3, <2>4, <3>1
  <2>. QED BY <1>3, <2>5 DEF q
<1>. QED BY <1>2, <1>3

LEMMA TwoParts ==
    ASSUME NEW bytes \in Seq(Nat), NEW a \in Nat, NEW b \in Nat, a =< b, b =< Len(bytes)
    PROVE  /\ SubSeq(bytes, a + 1, b) \in Seq(Nat)
           /\ SubSeq(bytes, 1, a) \o SubSeq(bytes, a + 1, b) = SubSeq(bytes, 1, b)
<1>1. Len(bytes) \in Nat /\ \A i \in 1 .. Len(bytes) : bytes[i] \in Nat
  BY LenProperties
<1>2. 1 \in 1 .. Len(bytes) + 1 /\ a \in 0 .. Len(bytes) /\ b \in a .. Len(bytes)
  BY <1>1
<1>3. SubSeq(bytes, 1, a) \o SubSeq(bytes, a + 1, b) = SubSeq(bytes, 1, b)
  BY <1>2, ConcatAdjacentSubSeq
<1>4. \A i \in a + 1 .. b : bytes[i] \in Nat
  BY <1>1
<1>. QED BY <1>3, <1>4, SubSeqProperties

\* Each line carries what comes after the ones before it.
Carries(line, before, after) ==
    \E p \in Seq(Nat) : line.body = EncodeData(p) /\ before \o p = after

LEMMA TransferPieces ==
    ASSUME NEW asked, NEW bytes \in Seq(Nat), bytes # <<>>
    PROVE  LET t == Transfer(asked, bytes)
           IN  \A i \in 1 .. Len(t) :
                  Carries(t[i], Upto(bytes, i), IF i < Len(t) THEN Upto(bytes, i + 1) ELSE bytes)
<1> DEFINE t == Transfer(asked, bytes)
           len == Len(bytes)
           full == IF len =< ChunkSize THEN 1 ELSE (len - 1) \div ChunkSize
           size == IF len =< ChunkSize THEN 1 ELSE ChunkSize
           piece(i) == SubSeq(bytes, (i - 1) * size + 1, i * size)
           tail == SubSeq(bytes, full * size + 1, len)
           line(i) == IF i =< full THEN AnswerTo(asked, "i", EncodeData(piece(i)))
                      ELSE AnswerTo(asked, "I", EncodeData(tail))
<1>1. len \in Nat \ {0} /\ ChunkSize \in Nat \ {0}
  BY LenProperties, EmptySeq, ApiAssumption
<1>2. full \in Nat \ {0} /\ size \in Nat \ {0} /\ size = PieceSize(bytes)
  <2> HIDE DEF len
  <2>1. full \in Nat \ {0}
    <3>1. CASE len =< ChunkSize
      BY <3>1
    <3>2. CASE ~(len =< ChunkSize)
      <4>1. len - 1 \in Nat /\ len - 1 >= ChunkSize
        BY <1>1, <3>2
      <4>. QED BY <1>1, <3>2, <4>1, AtLeastOnce
    <3>. QED BY <3>1, <3>2
  <2>2. size \in Nat \ {0}
    BY <1>1
  <2>. QED BY <2>1, <2>2 DEF PieceSize, len
<1>3. \A i \in 1 .. full : /\ (i - 1) * size \in Nat /\ i * size \in Nat
                           /\ (i - 1) * size =< i * size /\ i * size =< len
  <2> HIDE DEF len
  <2>. QED BY <1>1, ChunksFit
<1>4. t = [i \in 1 .. full + 1 |-> line(i)]
  BY DEF Transfer
<1>5. \A i \in 1 .. full : line(i).body = EncodeData(piece(i))
  BY DEF AnswerTo
<1>6. line(full + 1).body = EncodeData(tail)
  BY <1>2 DEF AnswerTo
<1> HIDE DEF t, line, full, size, len
<1>7. t = [i \in 1 .. full + 1 |-> t[i]] /\ \A i \in 1 .. full + 1 : t[i] = line(i)
  BY <1>4
<1>8. Len(t) = full + 1
  BY <1>2, <1>7, SeqFunction
<1>9. ASSUME NEW i \in 1 .. full
      PROVE  Carries(t[i], Upto(bytes, i), Upto(bytes, i + 1))
  <2> DEFINE a == (i - 1) * size
             b == i * size
  <2>1. a \in Nat /\ b \in Nat /\ a =< b /\ b =< len
    BY <1>3
  <2>2. t[i].body = EncodeData(piece(i))
    BY <1>2, <1>5, <1>7
  <2>3. Upto(bytes, i) = SubSeq(bytes, 1, a) /\ Upto(bytes, i + 1) = SubSeq(bytes, 1, b)
    <3>1. (i + 1) - 1 = i
      BY <1>2
    <3>. QED BY <1>2, <3>1 DEF Upto
  <2>4. piece(i) = SubSeq(bytes, a + 1, b)
    OBVIOUS
  <2> HIDE DEF a, b, piece
  <2>5. piece(i) \in Seq(Nat) /\ Upto(bytes, i) \o piece(i) = Upto(bytes, i + 1)
    BY <2>1, <2>3, <2>4, TwoParts DEF len
  <2>. QED BY <2>2, <2>5 DEF Carries
<1>10. Carries(t[full + 1], Upto(bytes, full + 1), bytes)
  <2> DEFINE a == full * size
  <2>1. full \in 1 .. full
    BY <1>2
  <2>2. a \in Nat /\ a =< len
    BY <1>3, <2>1
  <2>3. full + 1 \in 1 .. full + 1 /\ (full + 1) - 1 = full
    BY <1>2
  <2>4. t[full + 1].body = EncodeData(tail)
    BY <1>6, <1>7, <2>3
  <2>5. Upto(bytes, full + 1) = SubSeq(bytes, 1, a)
    BY <1>2, <2>3 DEF Upto
  <2>6. tail = SubSeq(bytes, a + 1, len)
    OBVIOUS
  <2> HIDE DEF a, tail
  <2>7. tail \in Seq(Nat) /\ Upto(bytes, full + 1) \o tail = SubSeq(bytes, 1, len)
    <3>1. len \in Nat /\ len =< Len(bytes)
      BY <1>1 DEF len
    <3>2. /\ SubSeq(bytes, a + 1, len) \in Seq(Nat)
          /\ SubSeq(bytes, 1, a) \o SubSeq(bytes, a + 1, len) = SubSeq(bytes, 1, len)
      BY <2>2, <3>1, TwoParts
    <3>. QED BY <2>5, <2>6, <3>2
  <2>8. SubSeq(bytes, 1, len) = bytes
    BY SubSeqFull DEF len
  <2>. QED BY <2>4, <2>7, <2>8 DEF Carries
<1>11. \A i \in 1 .. Len(t) :
          Carries(t[i], Upto(bytes, i), IF i < Len(t) THEN Upto(bytes, i + 1) ELSE bytes)
  <2> SUFFICES ASSUME NEW i \in 1 .. full + 1
               PROVE  Carries(t[i], Upto(bytes, i),
                              IF i < full + 1 THEN Upto(bytes, i + 1) ELSE bytes)
    BY <1>8
  <2>1. (i \in 1 .. full /\ i < full + 1) \/ (i = full + 1 /\ ~(i < full + 1))
    BY <1>2
  <2>. QED BY <1>9, <1>10, <2>1
<1>. QED BY <1>11 DEF t

\* A chunk is understood as it was sent, or as too long.
Understood(body, room) ==
    IF body = <<>> THEN [ok |-> TRUE, data |-> <<>>] ELSE DecodeData(body, room)

LEMMA PieceArrives ==
    ASSUME NEW p \in Seq(Nat), NEW room, Understood(EncodeData(p), room).ok
    PROVE  Understood(EncodeData(p), room).data = p
<1> DEFINE n == Len(p)
           s == EncodeData(p)
           ends == {i \in DOMAIN s : s[i].last}
           len == IF ends = {} THEN room ELSE CHOOSE i \in ends : \A j \in ends : i =< j
           got == IF len < room THEN len ELSE IF room > 0 THEN room - 1 ELSE 0
           fits == room > 1 /\ len < room
           taken == [i \in 1 .. got |-> IF i \in DOMAIN s THEN s[i].v ELSE 0]
<1>1. n \in Nat /\ DOMAIN p = 1 .. n
  BY LenProperties
<1>2. DOMAIN s = 1 .. n /\ \A i \in 1 .. n : s[i].v = p[i] /\ s[i].last = (i = n)
  BY <1>1 DEF EncodeData
<1>3. CASE s = <<>>
  <2>1. IsSeq(s) /\ Len(s) = n
    <3>1. s = [i \in 1 .. n |-> s[i]]
      BY <1>1 DEF EncodeData
    <3> HIDE DEF s
    <3>. QED BY <1>1, <3>1, SeqFunction
  <2>2. p = <<>>
    BY <1>3, <2>1, SeqLen, EmptySeq
  <2>. QED BY <1>3, <2>2 DEF Understood
<1>4. CASE s # <<>>
  <2>1. n > 0
    <3>1. CASE n = 0
      <4>1. p = <<>>
        BY <3>1, EmptySeq
      <4>2. s = <<>>
        BY <4>1, SeqNone DEF EncodeData
      <4>. QED BY <1>4, <4>2
    <3>. QED BY <1>1, <3>1
  <2>2. \A i \in DOMAIN s : s[i].last <=> i = n
    BY <1>2
  <2>3. Understood(s, room).ok = fits /\ Understood(s, room).data = taken
    <3>1. Understood(s, room) = [ok |-> fits, data |-> taken]
      BY <1>4 DEF Understood, DecodeData
    <3> HIDE DEF fits, taken, s
    <3>. QED BY <3>1
  <2>13. Understood(s, room).ok
    OBVIOUS
  <2> HIDE DEF s, n, fits, taken
  <2>4. n \in DOMAIN s
    <3>1. n \in 1 .. n
      BY <1>1, <2>1
    <3>. QED BY <1>2, <3>1
  <2>5. ends = {n}
    BY <2>2, <2>4
  <2> DEFINE first == CHOOSE i \in {n} : \A j \in {n} : i =< j
  <2>6. first = n
    BY <1>1
  <2>7. len = first
    BY <2>5
  <2>8. len = n
    BY <2>6, <2>7
  <2> HIDE DEF ends, first, len
  <2>9. len < room
    <3>1. fits
      BY <2>3, <2>13, Zenon
    <3>. QED BY <3>1 DEF fits
  <2>10. got = n
    BY <2>8, <2>9
  <2> HIDE DEF got
  <2>11. [i \in 1 .. got |-> IF i \in DOMAIN s THEN s[i].v ELSE 0] = [i \in 1 .. n |-> p[i]]
    BY <1>2, <2>10
  <2>12. p = [i \in 1 .. n |-> p[i]]
    BY <1>1, LenProperties
  <2>14. Understood(s, room).data = p
    BY <2>3, <2>11, <2>12 DEF taken
  <2>. QED BY <2>14 DEF s
<1>. QED BY <1>3, <1>4

-----------------------------------------------------------------------------
(* The steps that have nothing to do with an input *)

\* The call ends, or goes on as it was.
Ended == job'.pc = "idle" /\ job'.used = <<>> /\ job'.n = job.n /\ last'.used = job.used
Carried == job'.used = job.used /\ job'.n = job.n /\ last' = last

LEMMA EndedBy ==
    ASSUME DOMAIN job = JobFields, NEW rc, NEW got, ReturnWith(rc, got)
    PROVE  Ended /\ last'.got = got /\ last'.rc = rc
BY DEF ReturnWith, JobFields, Ended

LEMMA EndedWith == ASSUME DOMAIN job = JobFields, NEW rc, Return(rc) PROVE Ended /\ last'.rc = rc
BY EndedBy DEF Return

LEMMA CarriedTo ==
    ASSUME DOMAIN job = JobFields, NEW pc, Goto(pc), UNCHANGED last
    PROVE  Carried /\ job'.pc = pc /\ job'.got = job.got
BY DEF Goto, JobFields, Carried

LEMMA NotAsked ==
    ASSUME Open, job.pc # "idle", job.pc # "answer" \/ ServedBy(job.fn) # "fsrdp"
    PROVE  ~ByThisCall(con.wants) /\ ~ByThisCall(con.waits)
BY DEF Open

LEMMA NotUsed == ASSUME Flow, ~ReadsInput PROVE job.used = <<>>
BY DEF Flow

\* The calls whose answer, if any, is no input.
LEMMA OtherStep ==
    ASSUME Using, ~ReadsInput, job.pc # "idle",
           \/ Ended
           \/ Carried /\ (job'.pc \in {"ask", "probe", "request"} => job'.got = <<>>),
           con'.wants = con.wants, con'.waits = con.waits
    PROVE  Using'
<1>1. job.used = <<>>
  BY NotUsed DEF Using
<1>2. ~ByThisCall(con.wants) /\ ~ByThisCall(con.waits)
  BY NotAsked DEF Using, ReadsInput
<1>3. job'.n = job.n /\ job'.used = <<>> /\ (last'.used = <<>> \/ last' = last)
  BY <1>1 DEF Ended, Carried
<1>4. job'.n \in Nat /\ Counted(con.wants)' /\ Counted(con.waits)'
  BY <1>3 DEF Using, Counted
<1>5. Open'
  BY <1>2, <1>3 DEF Open, ByThisCall
<1>6. Flow'
  BY <1>3 DEF Flow
<1>7. InputWhole'
  BY <1>3 DEF Using, InputWhole
<1>8. job'.pc \in {"ask", "probe", "request"} => job'.got = <<>>
  BY DEF Ended
<1>. QED BY <1>4, <1>5, <1>6, <1>7, <1>8 DEF Using

LEMMA CallUses == ASSUME Shapes, Using, Call PROVE Using'
<1>1. /\ job'.n = job.n + 1 /\ job'.used = <<>> /\ job'.got = <<>>
      /\ UNCHANGED <<con, last>>
  <2> DEFINE next(r) == CASE r.fn = "fscncl" /\ api.diag58 -> "idle"
                           [] r.fn # "qtrm" /\ api.tested /\ api.connected -> "request"
                           [] OTHER -> "ask"
             time(r) == IF ServedBy(r.fn) # "fsrdp" THEN r.t
                        ELSE IF r.fn = "fscncl" THEN Cancel
                        ELSE IF r.fn = "fsrd" THEN NoTimeout
                        ELSE IF r.room = 0 \/ r.t < 0 THEN QueryOnly ELSE r.t
  <2>1. \E r \in Requests :
          job' = [IdleJob EXCEPT !.fn = r.fn, !.cmd = r.cmd, !.data = r.data, !.room = r.room,
                                 !.n = job.n + 1, !.t = time(r), !.pc = next(r)]
    BY DEF Call
  <2> HIDE DEF next, time
  <2>. QED BY <2>1 DEF Call, IdleJob
<1>2. job.n \in Nat /\ Counted(con.wants) /\ Counted(con.waits)
  BY DEF Using
<1>3. job'.n \in Nat /\ Counted(con.wants)' /\ Counted(con.waits)'
  BY <1>1, <1>2 DEF Counted
<1>4. ~ByThisCall(con.wants)' /\ ~ByThisCall(con.waits)'
  BY <1>1, <1>2 DEF Counted, ByThisCall
<1>5. Open' /\ Flow' /\ InputWhole'
  BY <1>1, <1>4 DEF Using, Open, Flow, InputWhole
<1>. QED BY <1>1, <1>3, <1>5 DEF Using

LEMMA AskUses == ASSUME Shapes, Using, AskTerminal PROVE Using'
<1>1. DOMAIN job = JobFields /\ job.pc = "ask" /\ job.got = <<>>
  BY DEF Shapes, JobFields, AskTerminal, Using
<1>2. con'.wants = con.wants /\ con'.waits = con.waits
  <2>1. UNCHANGED con \/ con' = Handled(con, "T", <<>>)
    BY DEF AskTerminal
  <2>. QED BY <2>1, HandledFacts
<1>3. Return(OK) \/ \E pc \in {"probe", "request"} : Goto(pc) /\ UNCHANGED last
  BY DEF AskTerminal
<1>4. Ended \/ (Carried /\ job'.got = <<>>)
  BY <1>1, <1>3, EndedWith, CarriedTo
<1>. QED BY <1>1, <1>2, <1>4, OtherStep DEF ReadsInput

LEMMA ProbeUses == ASSUME Shapes, Using, ReadTerminal PROVE Using'
<1>1. DOMAIN job = JobFields /\ job.pc = "probe" /\ job.got = <<>> /\ UNCHANGED con
  BY DEF Shapes, JobFields, ReadTerminal, Using
<1>2. Return(OK) \/ Return(CheckFailed) \/ (Goto("request") /\ UNCHANGED last)
  BY DEF ReadTerminal
<1>3. Ended \/ (Carried /\ job'.got = <<>>)
  BY <1>1, <1>2, EndedWith, CarriedTo
<1>. QED BY <1>1, <1>3, OtherStep DEF ReadsInput

LEMMA D58RequestUses == ASSUME Shapes, Using, D58Request PROVE Using'
<1>1. DOMAIN job = JobFields /\ job.pc = "request" /\ job.got = <<>> /\ UNCHANGED con
  BY DEF Shapes, JobFields, D58Request, Using
<1>2. (\E rc, got : ReturnWith(rc, got)) \/ \E pc : Goto(pc) /\ UNCHANGED last
  <2>1. CASE D58Write
    BY <2>1 DEF D58Write, FastWrite, PollWrite, PutWrite, Return
  <2>2. CASE D58Read
    BY <2>2 DEF D58Read, FastRead, PollRead, PollEmpty, Return
  <2>3. CASE Return(OK) \/ Return(1)
    BY <2>3 DEF Return
  <2>. QED BY <2>1, <2>2, <2>3 DEF D58Request
<1>3. Ended \/ (Carried /\ job'.got = <<>>)
  BY <1>1, <1>2, EndedBy, CarriedTo
<1>. QED BY <1>1, <1>3, OtherStep DEF ReadsInput

LEMMA D58OtherUses ==
    ASSUME Shapes, Using, TimerEnds \/ AttentionEnds \/ ReadModified, UNCHANGED con
    PROVE  Using'
<1>1. DOMAIN job = JobFields /\ job.pc \in {"timer", "attn", "get"}
  BY DEF Shapes, JobFields, TimerEnds, AttentionEnds, ReadModified
<1>2. (\E rc, got : ReturnWith(rc, got)) \/ (Goto("attn") /\ UNCHANGED last)
  BY DEF TimerEnds, AttentionEnds, ReadModified, Return
<1>3. Ended \/ (Carried /\ job'.pc = "attn")
  BY <1>1, <1>2, EndedBy, CarriedTo
<1>. QED BY <1>1, <1>3, OtherStep DEF ReadsInput

LEMMA WriteUses == ASSUME Shapes, Using, WriteAnswer PROVE Using'
<1>1. /\ DOMAIN job = JobFields /\ job.pc = "answer" /\ ServedBy(job.fn) # "fsrdp"
      /\ UNCHANGED con
  BY DEF Shapes, JobFields, WriteAnswer, ServedBy
<1>2. \/ \E rc : Return(rc)
      \/ job' = [job EXCEPT !.pc = "chunks", !.got = job.data] /\ UNCHANGED last
  BY DEF WriteAnswer
<1>3. Ended \/ (Carried /\ job'.pc = "chunks")
  <2>1. CASE \E rc : Return(rc)
    BY <1>1, <2>1, EndedWith
  <2>2. CASE job' = [job EXCEPT !.pc = "chunks", !.got = job.data] /\ UNCHANGED last
    BY <1>1, <2>2 DEF JobFields, Carried
  <2>. QED BY <1>2, <2>1, <2>2
<1>. QED BY <1>1, <1>3, OtherStep DEF ReadsInput

LEMMA ChunkAsks ==
    ASSUME Shapes, NEW k \in {"f", "F"}, NEW body
    PROVE  Handled(con, k, body).wants = con.wants /\ Handled(con, k, body).waits = con.waits
<1> DEFINE d == DecodeData(body, Len(body) + 1).data
<1>1. CASE k = "f"
  <2>1. Handled(con, k, body) = [con EXCEPT !.part = @ \o d]
    BY <1>1 DEF Handled
  <2> HIDE DEF d
  <2>. QED BY <2>1 DEF Shapes
<1>2. CASE k = "F"
  <2>1. Handled(con, k, body) = Shown(con, con.part \o d)
    BY <1>2 DEF Handled
  <2> HIDE DEF d
  <2>. QED BY <2>1 DEF Shapes, Shown
<1>. QED BY <1>1, <1>2

LEMMA ChunkUses == ASSUME Shapes, Using, WriteChunk PROVE Using'
<1>1. DOMAIN job = JobFields /\ job.pc = "chunks"
  BY DEF Shapes, JobFields, WriteChunk
<1>2. \E k \in {"f", "F"} : \E body : con' = Handled(con, k, body)
  BY DEF WriteChunk
<1>3. con'.wants = con.wants /\ con'.waits = con.waits
  BY <1>2, ChunkAsks
<1>4. \/ Return(OK)
      \/ \E rest : job' = [job EXCEPT !.got = rest] /\ UNCHANGED last
  BY DEF WriteChunk
<1>5. Ended \/ (Carried /\ job'.pc = "chunks")
  <2>1. CASE Return(OK)
    BY <1>1, <2>1, EndedWith
  <2>2. CASE \E rest : job' = [job EXCEPT !.got = rest] /\ UNCHANGED last
    BY <1>1, <2>2 DEF JobFields, Carried
  <2>. QED BY <1>4, <2>1, <2>2
<1>. QED BY <1>1, <1>3, <1>5, OtherStep DEF ReadsInput

LEMMA SettingUses == ASSUME Shapes, Using, SettingAnswer PROVE Using'
<1>1. /\ DOMAIN job = JobFields /\ job.pc = "answer" /\ ServedBy(job.fn) # "fsrdp"
      /\ UNCHANGED con
  BY DEF Shapes, JobFields, SettingAnswer, Asks, ServedBy
<1>2. Return(OK) \/ Return(2)
  BY DEF SettingAnswer
<1>3. Ended
  BY <1>1, <1>2, EndedWith
<1>. QED BY <1>1, <1>3, OtherStep DEF ReadsInput

\* Only a command that reads makes the console owe an input.
LEMMA RequestUses == ASSUME Core, Using, SendRequest PROVE Using'
<1>1. /\ Shapes /\ DOMAIN job = JobFields /\ job.pc = "request" /\ job.got = <<>>
      /\ job.n \in Nat /\ job.fn \in ApiFunctions \ {"qtrm"}
  BY DEF Core, Lines, Calling, Shapes, JobFields, SendRequest, Using
<1>2. job.used = <<>> /\ ~ByThisCall(con.wants) /\ ~ByThisCall(con.waits)
  BY <1>1, NotUsed, NotAsked DEF Using, ReadsInput
<1>3. CASE UNCHANGED con /\ (Return(OK) \/ Return(4))
  <2>1. Ended
    BY <1>1, <1>3, EndedWith
  <2>. QED BY <1>1, <1>3, <2>1, OtherStep DEF ReadsInput
<1>4. CASE /\ stack' = <<>> /\ con' = Handled(con, Command.k, Command.body)
           /\ \/ Return(OK)
              \/ Goto("answer") /\ UNCHANGED last /\ job.fn \notin {"fslkto", "fssfm", "fsqvrs"}
  <2>1. Command.k \in {"T", "t", "C", "W", "I", "&", "|"}
        /\ (Command.k = "I" <=> ServedBy(job.fn) = "fsrdp")
    BY Letters
  <2>2. con'.waits = con.waits /\ (con'.wants = con.wants \/ (Command.k = "I" /\ Asked(con'.wants)))
    BY <1>1, <1>4, <2>1, HandledFacts
  <2>3. CASE con'.wants = con.wants
    <3>1. Ended \/ (Carried /\ job'.pc = "answer")
      BY <1>1, <1>4, EndedWith, CarriedTo
    <3>. QED BY <1>1, <2>2, <2>3, <3>1, OtherStep DEF ReadsInput
  <2>4. CASE Command.k = "I" /\ Asked(con'.wants)
    <3>1. Goto("answer") /\ UNCHANGED last
      <4>1. job.fn \notin {"fslkto", "fssfm", "fsqvrs"} /\ job.fn # "fswr"
        BY <2>1, <2>4 DEF ServedBy
      <4>. QED BY <1>1, <4>1 DEF SendRequest, Unsupported
    <3>2. /\ job'.used = <<>> /\ job'.n = job.n /\ last' = last /\ job'.pc = "answer"
          /\ job'.got = <<>> /\ job'.fn = job.fn
      BY <1>1, <1>2, <3>1, CarriedTo DEF Carried, Goto, JobFields
    <3>3. Head(con'.wants).n = job.n
      BY <2>4 DEF Asked
    <3>4. Counted(con.wants)' /\ Counted(con.waits)' /\ job'.n \in Nat
      BY <1>1, <2>2, <3>2, <3>3 DEF Counted, Using
    <3>5. ~ByThisCall(con.waits)'
      BY <1>2, <2>2, <3>2 DEF ByThisCall
    <3>6. Each(stack, FromUser)'
      <4>1. Len(stack') = 0
        BY <1>4, SeqNone
      <4>. QED BY <4>1 DEF Each
    <3>7. Open'
      BY <2>1, <2>4, <3>2, <3>5, <3>6 DEF Open
    <3>8. Flow' /\ InputWhole'
      BY <3>2 DEF Flow, Using, InputWhole
    <3>. QED BY <3>2, <3>4, <3>7, <3>8 DEF Using
  <2>. QED BY <2>2, <2>3, <2>4
<1>. QED BY <1>3, <1>4 DEF SendRequest

-----------------------------------------------------------------------------
(* The call reads the lines *)

\* Nothing but a typed line answers a read that the console still owes, and a
\* typed line ends a call.
LEMMA OwedToNobody ==
    ASSUME Shapes, Open, Reading, stack # <<>>, Line.k # "typed"
    PROVE  ~ByThisCall(con.wants) /\ ~ByThisCall(con.waits)
<1>1. IsSeq(stack) /\ job.pc # "idle"
  BY DEF Shapes, Reading
<1>2. 1 \in 1 .. Len(stack) /\ Head(stack) = stack[1]
  <2>1. Len(stack) \in Nat \ {0} /\ Head(stack) = stack[1]
    BY <1>1, SeqTake
  <2>. QED BY <2>1
<1>3. ~Each(stack, FromUser)
  BY <1>2 DEF Each, FromUser, Line
<1>. QED BY <1>1, <1>3 DEF Open

\* The call ends: what it has used up it returns whole, or it tells an error.
LEMMA EndUses ==
    ASSUME Using, Ended, UNCHANGED con,
           job.used # <<>> => last'.got = job.used \/ last'.rc > 0
    PROVE  Using'
<1>1. job'.pc = "idle" /\ job'.used = <<>> /\ job'.n = job.n /\ last'.used = job.used
  BY DEF Ended
<1>2. job'.n \in Nat /\ Counted(con.wants)' /\ Counted(con.waits)'
  BY <1>1 DEF Using, Counted
<1>3. Open' /\ Flow' /\ InputWhole'
  BY <1>1 DEF Open, Flow, InputWhole
<1>. QED BY <1>1, <1>2, <1>3 DEF Using

\* A call that has used up an input takes the next of its lines, which carries
\* the next of its bytes.
LEMMA NextLine ==
    ASSUME Shapes, Flow, job.used # <<>>, stack # <<>>, Line.k # "typed"
    PROVE  \E i \in 1 .. Len(Way) :
              /\ Reached(i)
              /\ i < Len(Way) => /\ Line.k = "i" /\ i + 1 \in 1 .. Len(Way)
                                 /\ Carries(Line, Upto(job.used, i), Upto(job.used, i + 1))
              /\ i = Len(Way) => Line.k = "I" /\ Carries(Line, Upto(job.used, i), job.used)
              /\ i < Len(Way) \/ i = Len(Way)
<1>1. PICK i \in 1 .. Len(Way) : Reached(i)
  BY DEF Flow, FromUser, Line
<1>2. Line = Way[i]
  BY <1>1 DEF Reached, Line
<1>3. job.used \in Seq(Nat)
  BY DEF Flow
<1>4. /\ Len(Way) \in Nat
      /\ Way[i].k = IF i < Len(Way) THEN "i" ELSE "I"
  BY <1>3, TransferLines DEF Way
<1>5. Carries(Way[i], Upto(job.used, i), IF i < Len(Way) THEN Upto(job.used, i + 1) ELSE job.used)
  BY <1>3, TransferPieces DEF Way
<1>6. i < Len(Way) => i + 1 \in 1 .. Len(Way)
  BY <1>4
<1>7. (i < Len(Way) \/ i = Len(Way)) /\ ~(i < Len(Way) /\ i = Len(Way))
  BY <1>4
<1>. QED BY <1>1, <1>2, <1>4, <1>5, <1>6, <1>7

\* The call has taken that line, and the next one follows, or a typed one.
LEMMA Follows ==
    ASSUME Shapes, Flow, job.used # <<>>, stack # <<>>, stack' = Tail(stack), UNCHANGED con,
           job'.n = job.n, job'.used = job.used, ReadsInput',
           NEW i \in 1 .. Len(Way), i + 1 \in 1 .. Len(Way), Reached(i),
           job'.pc = "answer" => job'.got = Upto(job.used, i + 1)
    PROVE  Flow'
<1>1. IsSeq(stack) /\ IsSeq(stack')
  BY SeqTake DEF Shapes
<1>2. Way' = Way
  BY TransferSame DEF Way
<1>3. job'.used \in Seq(Nat) /\ con'.wants = <<>> /\ con'.waits = <<>>
  BY DEF Flow
<1>4. CASE stack' # <<>>
  <2>1. Head(stack') = stack'[1] /\ 1 \in 1 .. Len(stack')
    BY <1>1, <1>4, SeqTake
  <2>2. Each(Tail(stack), FromUser)
    BY DEF Reached
  <2>3. FromUser(Head(stack'))
    BY <2>1, <2>2 DEF Each
  <2>4. FromUser(Head(stack))'
    BY <2>3 DEF FromUser
  <2>. QED BY <1>3, <1>4, <2>4 DEF Flow
<1>5. CASE stack' = <<>>
  <2>1. Kept(i + 1)
    BY DEF Reached
  <2>2. Kept(i + 1)'
    BY <1>2, <2>1 DEF Kept
  <2>3. Reached(i + 1)'
    BY <1>5, <2>2 DEF Reached
  <2>. QED BY <1>2, <1>3, <2>3 DEF Flow
<1>. QED BY <1>4, <1>5

\* The call goes on reading.
LEMMA GoesOnUses ==
    ASSUME Using, UNCHANGED <<con, last>>, job'.n = job.n, job'.used = job.used,
           job'.pc \in {"answer", "rest"},
           ~ByThisCall(con.wants), ~ByThisCall(con.waits),
           job.used # <<>> => Flow'
    PROVE  Using'
<1>1. job'.n \in Nat /\ Counted(con.wants)' /\ Counted(con.waits)' /\ InputWhole'
  BY DEF Using, Counted, InputWhole
<1>2. Open'
  BY DEF Open, ByThisCall
<1>3. Flow'
  BY DEF Flow
<1>. QED BY <1>1, <1>2, <1>3 DEF Using

LEMMA ReadAnswerUses == ASSUME Shapes, Using, ReadAnswer PROVE Using'
<1>1. /\ DOMAIN job = JobFields /\ job.pc = "answer" /\ ServedBy(job.fn) = "fsrdp"
      /\ stack # <<>> /\ stack' = Tail(stack) /\ UNCHANGED con /\ Reading /\ Open /\ Flow
  BY DEF Shapes, JobFields, ReadAnswer, Reads, Reading, Using
<1>2. CASE Line.k = "typed"
  <2>1. PICK rc \in {2, 3004} : Return(rc)
    BY <1>2 DEF ReadAnswer
  <2>2. Ended /\ last'.rc > 0
    BY <1>1, <2>1, EndedWith
  <2>. QED BY <1>1, <2>2, EndUses
<1>3. CASE Line.k \notin {"typed", "i", "I"}
  <2>1. \E rc : Return(rc)
    BY <1>3 DEF ReadAnswer
  <2>2. Ended
    BY <1>1, <2>1, EndedWith
  <2>3. job.used = <<>>
    BY <1>1, <1>3, NextLine
  <2>. QED BY <1>1, <2>2, <2>3, EndUses
<1>4. CASE Line.k \in {"i", "I"}
  <2> DEFINE data == Understood(Line.body, job.room - Len(job.got))
  <2>1. InputChunk(data)
    BY <1>4 DEF ReadAnswer, Understood
  <2>2. ASSUME NEW before, NEW after, Carries(Line, before, after), data.ok
        PROVE  before \o data.data = after
    BY <2>2, PieceArrives DEF Carries
  <2>3. ~ByThisCall(con.wants) /\ ~ByThisCall(con.waits)
    BY <1>1, <1>4, OwedToNobody
  <2> HIDE DEF data
  <2>4. CASE Line.k = "i"
    <3>1. job' = [job EXCEPT !.got = @ \o data.data, !.pc = IF data.ok THEN @ ELSE "rest"]
          /\ UNCHANGED last
      BY <2>1, <2>4 DEF InputChunk
    <3>2. /\ job'.n = job.n /\ job'.used = job.used /\ job'.fn = job.fn
          /\ job'.got = job.got \o data.data
          /\ IF data.ok THEN job'.pc = "answer" ELSE job'.pc = "rest"
      BY <1>1, <3>1 DEF JobFields
    <3>3. ReadsInput'
      BY <1>1, <3>2 DEF ReadsInput
    <3>4. ASSUME job.used # <<>> PROVE Flow'
      <4>1. PICK i \in 1 .. Len(Way) :
               /\ Reached(i) /\ i + 1 \in 1 .. Len(Way)
               /\ Carries(Line, Upto(job.used, i), Upto(job.used, i + 1))
        BY <1>1, <2>4, <3>4, NextLine
      <4>2. job.got = Upto(job.used, i)
        BY <1>1, <4>1 DEF Reached
      <4>3. job'.pc = "answer" => job'.got = Upto(job.used, i + 1)
        BY <2>2, <3>2, <4>1, <4>2
      <4>. QED BY <1>1, <3>2, <3>3, <3>4, <4>1, <4>3, Follows
    <3>. QED BY <1>1, <2>3, <3>1, <3>2, <3>4, GoesOnUses
  <2>5. CASE Line.k # "i"
    <3>1. (data.ok /\ ReturnWith(OK, job.got \o data.data)) \/ Return(5004)
      BY <2>1, <2>5 DEF InputChunk
    <3>2. CASE Return(5004)
      <4>1. Ended /\ last'.rc > 0
        BY <1>1, <3>2, EndedWith
      <4>. QED BY <1>1, <4>1, EndUses
    <3>3. CASE data.ok /\ ReturnWith(OK, job.got \o data.data)
      <4>1. Ended /\ last'.got = job.got \o data.data
        BY <1>1, <3>3, EndedBy
      <4>2. ASSUME job.used # <<>> PROVE last'.got = job.used
        <5>1. PICK i \in 1 .. Len(Way) :
                 Reached(i) /\ Carries(Line, Upto(job.used, i), job.used)
          BY <1>1, <1>4, <2>5, <4>2, NextLine
        <5>2. job.got = Upto(job.used, i)
          BY <1>1, <5>1 DEF Reached
        <5>. QED BY <2>2, <3>3, <4>1, <5>1, <5>2
      <4>. QED BY <1>1, <4>1, <4>2, EndUses
    <3>. QED BY <3>1, <3>2, <3>3
  <2>. QED BY <2>4, <2>5
<1>. QED BY <1>2, <1>3, <1>4

LEMMA ReadRestUses == ASSUME Shapes, Using, ReadRest PROVE Using'
<1>1. /\ DOMAIN job = JobFields /\ job.pc = "rest"
      /\ stack # <<>> /\ stack' = Tail(stack) /\ UNCHANGED con /\ Reading /\ Open /\ Flow
  BY DEF Shapes, JobFields, ReadRest, Reads, Reading, Using
<1>2. CASE Return(1004) \/ Return(2004)
  <2>1. Ended /\ last'.rc > 0
    BY <1>1, <1>2, EndedWith
  <2>. QED BY <1>1, <2>1, EndUses
<1>3. CASE Line.k = "i" /\ UNCHANGED <<job, last>>
  <2>1. ~ByThisCall(con.wants) /\ ~ByThisCall(con.waits)
    BY <1>1, <1>3, OwedToNobody
  <2>2. ASSUME job.used # <<>> PROVE Flow'
    <3>1. PICK i \in 1 .. Len(Way) : Reached(i) /\ i + 1 \in 1 .. Len(Way)
      BY <1>1, <1>3, <2>2, NextLine
    <3>2. ReadsInput'
      BY <1>1, <1>3, <2>2 DEF Flow, ReadsInput
    <3>. QED BY <1>1, <1>3, <2>2, <3>1, <3>2, Follows
  <2>. QED BY <1>1, <1>3, <2>1, <2>2, GoesOnUses
<1>. QED BY <1>2, <1>3 DEF ReadRest

-----------------------------------------------------------------------------
(* The console and the user *)

\* Nothing is read, and the console is asked for as much as before.
LEMMA SameAsked ==
    ASSUME Using, UNCHANGED <<job, last>>, con'.wants = con.wants, con'.waits = con.waits,
           stack' = stack \/ (~ByThisCall(con.waits) /\ ~ByThisCall(con.wants)),
           prompt' = prompt \/ prompt' = FALSE,
           job.used # <<>> => Flow'
    PROVE  Using'
<1>1. Counted(con.wants)' /\ Counted(con.waits)' /\ InputWhole'
  BY DEF Using, Counted, InputWhole
<1>2. Open'
  <2>1. ByThisCall(con.wants)' <=> ByThisCall(con.wants)
    BY DEF ByThisCall
  <2>2. ByThisCall(con.waits)' <=> ByThisCall(con.waits)
    BY DEF ByThisCall
  <2>. QED BY <2>1, <2>2 DEF Using, Open, Each
<1>3. Flow'
  BY DEF Flow
<1>. QED BY <1>1, <1>3, <1>2 DEF Using

LEMMA WayStays == ASSUME UNCHANGED job PROVE Way' = Way
BY DEF Way

\* The lines stay where they are, or those the console keeps are lost.
LEMMA FlowStays ==
    ASSUME Flow, UNCHANGED <<job, stack>>, con'.wants = con.wants, con'.waits = con.waits,
           con'.chunks = con.chunks \/ con'.chunks = <<>>
    PROVE  Flow'
<1>1. Way' = Way
  BY WayStays
<1>2. ASSUME NEW i \in Int, Kept(i) PROVE Kept(i)'
  BY <1>1, <1>2 DEF Kept
<1>3. ASSUME NEW i \in Int, Reached(i) PROVE Reached(i)'
  <2>1. i + 1 \in Int
    OBVIOUS
  <2>. QED BY <1>1, <1>2, <1>3, <2>1 DEF Reached, Each, FromUser
<1>4. \A i \in 1 .. Len(Way) : i \in Int
  OBVIOUS
<1>. QED BY <1>1, <1>3, <1>4 DEF Flow, ReadsInput, FromUser

LEMMA NothingHappens ==
    ASSUME Using, UNCHANGED <<job, last, stack>>, prompt' = prompt \/ prompt' = FALSE,
           con'.wants = con.wants, con'.waits = con.waits, con'.chunks = con.chunks
    PROVE  Using'
<1>1. UNCHANGED <<job, last>> /\ stack' = stack
  OBVIOUS
<1>2. Flow'
  BY FlowStays DEF Using
<1>. QED BY <1>1, <1>2, SameAsked

\* What the console sends, it owes no more.
LEMMA OwesNothing ==
    ASSUME Using, con'.wants = <<>>, con'.waits = <<>>, UNCHANGED last,
           job'.n = job.n, job'.pc = job.pc, job'.got = job.got, Flow'
    PROVE  Using'
BY DEF Using, Counted, Open, ByThisCall, InputWhole

LEMMA StateUses ==
    ASSUME Using, job.used = <<>>, NEW c, DOMAIN c = Fields, c.waits = <<>>, NEW asked, NEW rc,
           SendsState(c, asked, rc), UNCHANGED <<job, last>>
    PROVE  Using'
<1>1. con'.wants = <<>> /\ con'.waits = <<>>
  BY DEF SendsState, Fields
<1>2. Flow'
  BY DEF Flow
<1>. QED BY <1>1, <1>2, OwesNothing

LEMMA FirstLines ==
    ASSUME Shapes, NEW asked, NEW bytes \in Seq(Nat)
    PROVE  LET t == Transfer(asked, bytes)
           IN  /\ Len(t) \in Nat \ {0, 1} /\ Head(t) = t[1]
               /\ Len(Tail(t)) = Len(t) - 1
               /\ \A j \in 1 .. Len(Tail(t)) : Tail(t)[j] = t[2 + j - 1]
<1> DEFINE t == Transfer(asked, bytes)
<1>1. IsSeq(t) /\ t # <<>> /\ Len(t) \in Nat \ {0, 1}
  BY TransferLines
<1> HIDE DEF t
<1>2. /\ Head(t) = t[1] /\ Len(Tail(t)) = Len(t) - 1
      /\ \A j \in 1 .. Len(t) - 1 : Tail(t)[j] = t[j + 1]
  BY <1>1, SeqTake
<1>3. \A j \in 1 .. Len(t) - 1 : 2 + j - 1 = j + 1
  OBVIOUS
<1>4. \A j \in 1 .. Len(Tail(t)) : Tail(t)[j] = t[2 + j - 1]
  BY <1>2, <1>3
<1>. QED BY <1>1, <1>2, <1>4 DEF t

\* The console sends an input: the call that it is for gets it from its start.
LEMMA InputUses ==
    ASSUME Shapes, Using, NEW asked, NEW bytes \in Seq(Nat), SendsInput(con, asked, bytes),
           asked.n = job.n => ByThisCall(con.wants) \/ ByThisCall(con.waits),
           job.used = <<>>, UNCHANGED last
    PROVE  Using'
<1> DEFINE t == Transfer(asked, bytes)
<1>1. DOMAIN con = Fields /\ DOMAIN job = JobFields /\ IsSeq(stack)
  BY DEF Shapes, Fields, JobFields
<1>2. /\ con' = [con EXCEPT !.chunks = Tail(t), !.callback = TRUE, !.wants = <<>>,
                            !.waits = <<>>, !.grace = con.toFs]
      /\ stack' = Append(stack, Head(t))
      /\ job' = IF Reading /\ asked.n = job.n THEN [job EXCEPT !.used = bytes] ELSE job
  BY DEF SendsInput, Sends
<1>3. /\ Len(t) \in Nat \ {0, 1} /\ Head(t) = t[1] /\ Len(Tail(t)) = Len(t) - 1
      /\ \A j \in 1 .. Len(Tail(t)) : Tail(t)[j] = t[2 + j - 1]
  BY FirstLines
<1> HIDE DEF t
<1>4. con'.chunks = Tail(t) /\ con'.wants = <<>> /\ con'.waits = <<>>
  BY <1>1, <1>2 DEF Fields
<1>5. CASE ~(Reading /\ asked.n = job.n)
  <2>1. UNCHANGED job
    BY <1>2, <1>5
  <2>2. Flow'
    BY <2>1 DEF Flow
  <2>. QED BY <1>4, <2>1, <2>2, OwesNothing
<1>6. CASE Reading /\ asked.n = job.n
  <2>1. job' = [job EXCEPT !.used = bytes]
    BY <1>2, <1>6
  <2>2. /\ job'.n = asked.n /\ job'.n = job.n /\ job'.pc = job.pc /\ job'.got = job.got
        /\ job'.fn = job.fn /\ job'.used = bytes
    BY <1>1, <1>6, <2>1 DEF JobFields
  <2>3. /\ job.pc = "answer" /\ ServedBy(job.fn) = "fsrdp" /\ job.got = <<>>
        /\ Each(stack, FromUser)
    <3>1. job.pc # "idle"
      BY <1>6 DEF Reading
    <3>. QED BY <1>6, <3>1 DEF Using, Open
  <2>4. Way' = t
    <3>1. Way' = Transfer(job', bytes)
      BY <2>2 DEF Way
    <3>2. Transfer(job', bytes) = Transfer(asked, bytes)
      <4>1. \A a, b : a.n = b.n => Transfer(a, bytes) = Transfer(b, bytes)
        BY TransferSame
      <4>. QED BY <2>2, <4>1
    <3>. QED BY <3>1, <3>2 DEF t
  <2>5. Flow'
    <3>1. ReadsInput'
      BY <2>2, <2>3 DEF ReadsInput
    <3>2. CASE stack = <<>>
      <4>1. IsSeq(stack') /\ Len(stack') = 1 /\ stack'[1] = t[1] /\ stack' # <<>>
        BY <1>2, <1>3, <3>2, SeqFirst
      <4>2. Head(stack') = t[1] /\ Len(Tail(stack')) = 0
        BY <4>1, SeqTake, SeqNone
      <4>3. Each(Tail(stack), FromUser)'
        BY <4>2 DEF Each
      <4>4. Kept(2)'
        <5>1. Len(t) - 1 = Len(t) - 2 + 1
          BY <1>3
        <5>. QED BY <1>3, <1>4, <2>4, <5>1 DEF Kept
      <4>5. job'.got = Upto(bytes, 1)
        <5>1. SubSeq(bytes, 1, 0) = <<>>
          BY SubSeqEmpty
        <5>2. (1 - 1) * PieceSize(bytes) = 0
          BY ApiAssumption DEF PieceSize
        <5>. QED BY <2>2, <2>3, <5>1, <5>2 DEF Upto
      <4>6. Reached(1)'
        <5>1. 1 + 1 = 2
          OBVIOUS
        <5>. QED BY <2>2, <2>4, <4>1, <4>2, <4>3, <4>4, <4>5, <5>1 DEF Reached
      <4>7. 1 \in 1 .. Len(t)
        BY <1>3
      <4>. QED BY <1>4, <2>2, <2>4, <3>1, <4>6, <4>7 DEF Flow
    <3>3. CASE stack # <<>>
      <4>1. Len(stack) \in Nat \ {0}
        BY <1>1, <3>3, SeqTake
      <4>2. 1 \in 1 .. Len(stack)
        BY <4>1
      <4>3. IsSeq(stack') /\ stack' # <<>> /\ stack'[1] = stack[1]
        BY <1>1, <1>2, <4>2, SeqAppend
      <4>4. Head(stack') = stack[1]
        BY <4>3, SeqTake
      <4>5. FromUser(Head(stack'))
        BY <2>3, <4>2, <4>4 DEF Each
      <4>. QED BY <1>4, <2>2, <3>1, <4>3, <4>5 DEF Flow, FromUser
    <3>. QED BY <3>2, <3>3
  <2>. QED BY <1>4, <2>2, <2>5, OwesNothing
<1>. QED BY <1>5, <1>6

LEMMA ReadScreenUses ==
    ASSUME IInv, Using, Reading, stack = <<>>, con.wants # <<>>, prompt' = FALSE,
           ReadFullScreen(Head(con.wants)), UNCHANGED last
    PROVE  Using'
<1> DEFINE asked == Head(con.wants)
           free == [con EXCEPT !.waits = <<>>, !.grace = FALSE, !.fs = FALSE, !.over = TRUE]
           empty == [con EXCEPT !.waits = <<>>, !.grace = TRUE]
<1>1. /\ Shapes /\ DOMAIN con = Fields /\ rcv.data \in Seq(Nat) /\ job.used = <<>>
      /\ job.pc # "idle"
  BY DEF IInv, Core, Lines, Shapes, Fields, Received, Using, Flow, Reading
<1>2. /\ DOMAIN free = Fields /\ free.waits = <<>>
      /\ DOMAIN empty = Fields /\ empty.waits = <<>>
  BY <1>1 DEF Fields
<1>3. \/ con' = [con EXCEPT !.wants = <<>>] /\ UNCHANGED <<stack, job>>
      \/ \E rc : SendsState(free, asked, rc) /\ UNCHANGED job
      \/ \E rc : SendsState(empty, asked, rc) /\ UNCHANGED job
      \/ SendsInput(con, asked, rcv.data)
      \/ /\ UNCHANGED <<stack, job>>
         /\ \E t : con' = [con EXCEPT !.waits = <<asked>>, !.grace = FALSE, !.fs = TRUE,
                                      !.toFs = t, !.wants = <<>>]
  BY DEF ReadFullScreen
<1> HIDE DEF free, empty
<1>4. ~ByThisCall(con.waits)
  BY <1>1 DEF Using, Open
<1>5. CASE con' = [con EXCEPT !.wants = <<>>] /\ UNCHANGED <<stack, job>>
  <2>1. con'.wants = <<>> /\ con'.waits = con.waits
    BY <1>1, <1>5 DEF Fields
  <2>2. ~ByThisCall(con.wants)' /\ ~ByThisCall(con.waits)'
    BY <1>4, <1>5, <2>1 DEF ByThisCall
  <2>. QED BY <1>1, <1>5, <2>1, <2>2 DEF Using, Open, Flow, Counted, InputWhole
<1>6. CASE \E rc : SendsState(free, asked, rc) /\ UNCHANGED job
  BY <1>1, <1>2, <1>6, StateUses
<1>7. CASE \E rc : SendsState(empty, asked, rc) /\ UNCHANGED job
  BY <1>1, <1>2, <1>7, StateUses
<1>8. CASE SendsInput(con, asked, rcv.data)
  <2>1. asked.n = job.n => ByThisCall(con.wants)
    BY DEF ByThisCall
  <2>. QED BY <1>1, <1>8, <2>1, InputUses
<1>9. CASE /\ UNCHANGED <<stack, job>>
           /\ \E t : con' = [con EXCEPT !.waits = <<asked>>, !.grace = FALSE, !.fs = TRUE,
                                        !.toFs = t, !.wants = <<>>]
  <2>1. con'.wants = <<>> /\ con'.waits = <<asked>>
    BY <1>1, <1>9 DEF Fields
  <2>2. Head(con'.waits) = asked
    BY <2>1
  <2>3. Counted(con.wants)' /\ Counted(con.waits)'
    BY <1>9, <2>1, <2>2 DEF Using, Counted
  <2>4. ByThisCall(con.waits)' => ByThisCall(con.wants)
    BY <1>9, <2>2 DEF ByThisCall
  <2>5. Each(stack, FromUser)'
    <3>1. Len(stack') = 0
      BY <1>9, SeqNone
    <3>. QED BY <3>1 DEF Each
  <2>6. ~ByThisCall(con.wants)'
    BY <2>1 DEF ByThisCall
  <2>7. Open'
    BY <1>1, <1>9, <2>1, <2>4, <2>5, <2>6 DEF Using, Open
  <2>. QED BY <1>1, <1>9, <2>3, <2>7 DEF Using, Flow, InputWhole
<1>. QED BY <1>3, <1>5, <1>6, <1>7, <1>8, <1>9

\* The next line of a transfer is sent.
LEMMA ChunkSentUses ==
    ASSUME Shapes, Using, Reading, stack = <<>>, prompt, prompt' = FALSE,
           con.wants = <<>>, con.chunks # <<>>, SendNextChunk, UNCHANGED last
    PROVE  Using'
<1>1. /\ DOMAIN con = Fields /\ IsSeq(con.chunks) /\ job.pc # "idle" /\ UNCHANGED job
  BY DEF Shapes, Fields, Reading, SendNextChunk
<1>2. /\ con'.chunks = Tail(con.chunks) /\ con'.wants = con.wants /\ con'.waits = con.waits
      /\ stack' = Append(stack, Head(con.chunks))
  <2> DEFINE done == con.callback /\ Len(con.chunks) = 1
  <2>1. /\ stack' = Append(stack, Head(con.chunks))
        /\ \E lines : con' = [con EXCEPT !.chunks = Tail(@), !.callback = @ /\ ~done,
                                         !.fs = @ /\ (~done \/ con.toFs), !.over = @ \/ lines]
    BY DEF SendNextChunk, Sends
  <2> HIDE DEF done
  <2>. QED BY <1>1, <2>1 DEF Fields
<1>3. ~ByThisCall(con.waits) /\ ~ByThisCall(con.wants)
  BY <1>1 DEF Using, Open, ByThisCall
<1>4. /\ Len(con.chunks) \in Nat \ {0} /\ Head(con.chunks) = con.chunks[1]
      /\ Len(Tail(con.chunks)) = Len(con.chunks) - 1
      /\ \A j \in 1 .. Len(con.chunks) - 1 : Tail(con.chunks)[j] = con.chunks[j + 1]
      /\ Len(con.chunks) = 1 => Tail(con.chunks) = <<>>
  BY <1>1, SeqTake
<1>5. ASSUME job.used # <<>> PROVE Flow'
  <2>1. PICK i \in 1 .. Len(Way) : Reached(i)
    BY <1>5 DEF Using, Flow
  <2>2. /\ Len(con.chunks) = Len(Way) - i + 1
        /\ \A j \in 1 .. Len(con.chunks) : con.chunks[j] = Way[i + j - 1]
    BY <2>1 DEF Reached, Kept
  <2>3. IsSeq(stack') /\ Len(stack') = 1 /\ stack'[1] = Head(con.chunks) /\ stack' # <<>>
    BY <1>2, SeqFirst
  <2>4. Head(stack') = Head(con.chunks) /\ Len(Tail(stack')) = 0
    BY <2>3, SeqTake, SeqNone
  <2>5. Len(Way) \in Nat
    <3>1. job.used \in Seq(Nat)
      BY <1>5 DEF Using, Flow
    <3>. QED BY <3>1, TransferLines DEF Way
  <2>6. Head(stack') = Way[i]
    <3>1. i + 1 - 1 = i /\ 1 \in 1 .. Len(con.chunks)
      BY <1>4, <2>5
    <3>. QED BY <1>4, <2>2, <2>4, <3>1
  <2>7. Way' = Way
    BY <1>1, WayStays
  <2>8. Each(Tail(stack), FromUser)'
    BY <2>4 DEF Each
  <2>9. Kept(i + 1)'
    <3> DEFINE rest == Tail(con.chunks)
    <3>1. Len(rest) = Len(Way) - (i + 1) + 1
      BY <1>4, <2>2, <2>5
    <3>2. ASSUME NEW j \in 1 .. Len(rest) PROVE rest[j] = Way[(i + 1) + j - 1]
      <4>1. j \in 1 .. Len(con.chunks) - 1 /\ j + 1 \in 1 .. Len(con.chunks)
        BY <1>4
      <4>2. (i + 1) + j - 1 = i + (j + 1) - 1
        BY <2>5, <4>1
      <4>. QED BY <1>4, <2>2, <4>1, <4>2
    <3>. QED BY <1>2, <2>7, <3>1, <3>2 DEF Kept
  <2>10. Reached(i)'
    BY <1>1, <2>1, <2>3, <2>6, <2>7, <2>8, <2>9 DEF Reached
  <2>. QED BY <1>1, <1>2, <1>5, <2>7, <2>10 DEF Using, Flow, ReadsInput
<1>. QED BY <1>1, <1>2, <1>3, <1>5, SameAsked

LEMMA VmReadUses == ASSUME IInv, Using, VmRead PROVE Using'
<1>1. /\ Reading /\ stack = <<>> /\ prompt /\ prompt' = FALSE /\ UNCHANGED last /\ Shapes
  BY DEF VmRead, IInv, Core, Lines
<1>2. CASE con.wants # <<>> /\ ReadFullScreen(Head(con.wants))
  BY <1>1, <1>2, ReadScreenUses
<1>3. CASE con.wants = <<>> /\ con.chunks # <<>> /\ SendNextChunk
  BY <1>1, <1>3, ChunkSentUses
<1>4. CASE UNCHANGED <<con, rcv, stack, job>>
  BY <1>1, <1>4, NothingHappens
<1>. QED BY <1>2, <1>3, <1>4 DEF VmRead, VmReadAnswered

LEMMA InputArrivesUses == ASSUME Shapes, Using, InputArrives PROVE Using'
<1>1. UNCHANGED <<last, prompt>>
  BY DEF InputArrives
<1>2. CASE con.waits # <<>> /\ \E input \in Inputs : SendsInput(con, Head(con.waits), input)
  <2>1. PICK input \in Inputs : SendsInput(con, Head(con.waits), input)
    BY <1>2
  <2>2. input \in Seq(Nat)
    BY <2>1, ApiAssumption
  <2>3. job.used = <<>>
    BY <1>2 DEF Using, Flow
  <2>4. Head(con.waits).n = job.n => ByThisCall(con.waits)
    BY <1>2 DEF ByThisCall
  <2>. QED BY <1>1, <2>1, <2>2, <2>3, <2>4, InputUses
<1>3. CASE UNCHANGED <<con, stack, job>>
  BY <1>1, <1>3, NothingHappens
<1>. QED BY <1>2, <1>3 DEF InputArrives

LEMMA TimesOutUses == ASSUME Shapes, Using, TimesOut PROVE Using'
<1> DEFINE c == [con EXCEPT !.waits = <<>>, !.grace = TRUE]
<1>1. /\ con.waits # <<>> /\ SendsState(c, Head(con.waits), 3) /\ UNCHANGED <<job, last>>
  BY DEF TimesOut
<1>2. DOMAIN c = Fields /\ c.waits = <<>>
  BY DEF Shapes, Fields
<1>3. job.used = <<>>
  BY <1>1 DEF Using, Flow
<1> HIDE DEF c
<1>. QED BY <1>1, <1>2, <1>3, StateUses

\* The new console owes nothing, and what the old one kept is gone.
LEMMA NewSessionUses == ASSUME Shapes, Using, NewSession PROVE Using'
<1>1. /\ con' = FreshConsole(con.sid + 1) /\ UNCHANGED <<job, last, stack>>
  BY DEF NewSession
<1>2. con'.wants = <<>> /\ con'.waits = <<>> /\ con'.chunks = <<>>
  BY <1>1 DEF FreshConsole
<1>3. Flow'
  <2>1. CASE job.used = <<>>
    BY <1>1, <2>1 DEF Flow
  <2>2. CASE job.used # <<>>
    BY <1>1, <1>2, <2>2, FlowStays DEF Using, Flow
  <2>. QED BY <2>1, <2>2
<1>. QED BY <1>1, <1>2, <1>3, OwesNothing

LEMMA LineArrivesUses == ASSUME Shapes, Using, LineArrives PROVE Using'
<1> DEFINE line == [k |-> "typed", body |-> <<>>, n |-> 0]
<1>1. /\ stack' = Append(stack, line) /\ UNCHANGED <<con, prompt, job, last>> /\ IsSeq(stack)
  BY DEF LineArrives, Sends, Shapes
<1>2. FromUser(line)
  BY DEF FromUser
<1> HIDE DEF line
<1>3. /\ IsSeq(stack') /\ Len(stack) \in Nat /\ Len(stack') = Len(stack) + 1
      /\ \A i \in 1 .. Len(stack) : stack'[i] = stack[i]
      /\ stack'[Len(stack) + 1] = line /\ stack' # <<>>
  BY <1>1, SeqAppend
<1>4. Head(stack') = stack'[1]
  BY <1>3, SeqTake
<1>5. ASSUME Each(stack, FromUser) PROVE Each(stack, FromUser)'
  <2>1. \A i \in 1 .. Len(stack') : FromUser(stack'[i])
    <3> SUFFICES ASSUME NEW i \in 1 .. Len(stack') PROVE FromUser(stack'[i])
      OBVIOUS
    <3>1. i \in 1 .. Len(stack) \/ i = Len(stack) + 1
      BY <1>3
    <3>. QED BY <1>2, <1>3, <1>5, <3>1 DEF Each
  <2>. QED BY <2>1 DEF Each, FromUser
<1>6. Open'
  BY <1>1, <1>5 DEF Using, Open, ByThisCall
<1>7. ASSUME job.used # <<>> PROVE Flow'
  <2>1. CASE stack = <<>>
    <3>1. Len(stack) = 0
      BY <2>1, SeqNone
    <3>2. FromUser(Head(stack'))
      BY <1>2, <1>3, <1>4, <3>1
    <3>. QED BY <1>1, <1>3, <3>2 DEF Using, Flow, ReadsInput, FromUser
  <2>2. CASE stack # <<>>
    <3>1. Len(stack) \in Nat \ {0} /\ Head(stack) = stack[1]
      BY <1>1, <2>2, SeqTake
    <3>2. 1 \in 1 .. Len(stack)
      BY <3>1
    <3>3. Head(stack') = Head(stack)
      BY <1>3, <1>4, <3>1, <3>2
    <3>4. CASE FromUser(Head(stack))
      BY <1>1, <1>3, <1>7, <3>3, <3>4 DEF Using, Flow, ReadsInput, FromUser
    <3>5. CASE ~FromUser(Head(stack))
      <4>1. PICK i \in 1 .. Len(Way) : Reached(i)
        BY <1>7, <3>5 DEF Using, Flow
      <4>2. Way' = Way
        BY <1>1, WayStays
      <4>3. Each(Tail(stack), FromUser)'
        <5>1. /\ Len(Tail(stack)) = Len(stack) - 1
              /\ \A j \in 1 .. Len(stack) - 1 : Tail(stack)[j] = stack[j + 1]
          BY <1>1, <2>2, SeqTake
        <5>2. /\ Len(Tail(stack')) = Len(stack') - 1
              /\ \A j \in 1 .. Len(stack') - 1 : Tail(stack')[j] = stack'[j + 1]
          BY <1>3, SeqTake
        <5>3. ASSUME NEW j \in 1 .. Len(Tail(stack')) PROVE FromUser(Tail(stack')[j])
          <6>1. /\ j \in 1 .. Len(stack') - 1 /\ j \in Nat
                /\ (j \in 1 .. Len(stack) - 1 /\ j + 1 \in 1 .. Len(stack)) \/ j = Len(stack)
            BY <1>3, <3>1, <5>2
          <6>2. CASE j = Len(stack)
            BY <1>2, <1>3, <5>2, <6>1, <6>2
          <6>3. CASE j \in 1 .. Len(stack) - 1 /\ j + 1 \in 1 .. Len(stack)
            <7>1. Tail(stack')[j] = Tail(stack)[j]
              BY <1>3, <5>1, <5>2, <6>1, <6>3
            <7>2. FromUser(Tail(stack)[j])
              BY <2>2, <4>1, <5>1, <6>3 DEF Reached, Each
            <7>. QED BY <7>1, <7>2
          <6>. QED BY <6>1, <6>2, <6>3
        <5>. QED BY <5>3 DEF Each, FromUser
      <4>4. Kept(i + 1)'
        BY <1>1, <2>2, <4>1, <4>2 DEF Reached, Kept
      <4>5. Reached(i)'
        BY <1>1, <1>3, <2>2, <3>3, <4>1, <4>2, <4>3, <4>4 DEF Reached
      <4>. QED BY <1>1, <1>7, <4>2, <4>5 DEF Using, Flow, ReadsInput
    <3>. QED BY <3>4, <3>5
  <2>. QED BY <2>1, <2>2
<1>8. Flow'
  BY <1>1, <1>7 DEF Flow
<1>. QED BY <1>1, <1>6, <1>8 DEF Using, Counted, InputWhole

LEMMA InitUsing == Init => Using
<1>. SUFFICES ASSUME Init PROVE Using
  OBVIOUS
<1>1. /\ con.wants = <<>> /\ con.waits = <<>> /\ job.n = 0 /\ job.pc = "idle"
      /\ job.used = <<>> /\ last.used = <<>>
  BY DEF Init, FreshConsole, IdleJob
<1>. QED BY <1>1 DEF Using, Counted, Open, Flow, InputWhole

LEMMA StepUsing == IInv /\ Using /\ [Next]_vars => Using'
<1>. SUFFICES ASSUME IInv, Using, [Next]_vars PROVE Using'
  OBVIOUS
<1>1. Shapes /\ Core
  BY DEF IInv, Core, Lines
<1>2. CASE Program
  <2>1. CASE UNCHANGED <<terminal, api, con, rcv, prompt, stack, typed, job, last>>
    BY <2>1, NothingHappens
  <2>2. CASE /\ TimerEnds \/ AttentionEnds \/ ReadModified
             /\ UNCHANGED <<terminal, api, con, rcv, prompt, stack, typed>>
    BY <1>1, <2>2, D58OtherUses
  <2>. QED BY <1>1, <1>2, <2>1, <2>2, ProgramCases, CallUses, AskUses, ProbeUses, RequestUses,
              D58RequestUses, WriteUses, ChunkUses, SettingUses, ReadAnswerUses, ReadRestUses
<1>3. CASE Environment
  <2>1. CASE GraceEnds
    <3>1. /\ con'.wants = con.wants /\ con'.waits = con.waits /\ con'.chunks = con.chunks
          /\ UNCHANGED <<job, last, stack, prompt>>
      BY <1>1, <2>1 DEF GraceEnds, Shapes
    <3>. QED BY <3>1, NothingHappens
  <2>2. CASE UserTypes
    <3>1. UNCHANGED <<con, job, last, stack, prompt>>
      BY <2>2 DEF UserTypes
    <3>. QED BY <3>1, NothingHappens
  <2>3. CASE (UserKeys \/ AttentionMissed) /\ UNCHANGED <<terminal, api, con, rcv, prompt, stack, typed>>
    <3>1. UNCHANGED <<con, job, last, stack, prompt>>
      BY <2>3 DEF UserKeys, AttentionMissed
    <3>. QED BY <3>1, NothingHappens
  <2>. QED BY <1>1, <1>3, <2>1, <2>2, <2>3, VmReadUses, InputArrivesUses, TimesOutUses,
              NewSessionUses, LineArrivesUses DEF Environment
<1>4. CASE UNCHANGED vars
  <2>1. UNCHANGED <<con, job, last, stack, prompt>>
    BY <1>4 DEF vars
  <2>. QED BY <2>1, NothingHappens
<1>. QED BY <1>2, <1>3, <1>4 DEF Next

\* A read that has used up an input returns all its bytes, or tells that it
\* failed, whatever the size of the chunks, the room the caller has, and the
\* lines typed, timeouts and new sessions in between (inner_fsrdp()).
THEOREM InputsAreWhole == Spec => []InputWhole
<1>1. Using => InputWhole
  BY DEF Using
<1>. QED BY <1>1, InitInv, StepInv, InitUsing, StepUsing, PTL DEF Spec
================================================================================
