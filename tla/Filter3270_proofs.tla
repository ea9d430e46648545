-------------------------- MODULE Filter3270_proofs --------------------------
(***************************************************************************)
(* Proofs about the handshake of Tn3270StreamFilter.java with CP, for any  *)
(* page, any number of lines, warnings and inputs.                         *)
(***************************************************************************)
EXTENDS Filter3270, SequenceTheorems, FiniteSetTheorems, TLAPS

-----------------------------------------------------------------------------
(* The inductive invariant *)

CpType == [state : CpStates, page : 0 .. PageLines, lines : Nat, warns : Nat, inputs : Nat]

TypeOK ==
    /\ cp \in CpType
    /\ toCp \in Seq(Keys) /\ fromCp \in Seq(Records)
    /\ vmstate \in CpStates \cup {"unknown"}
    /\ clearState \in ClearStates /\ inHolding \in BOOLEAN
    /\ reader \in {AtRecord} \cup [at : {"ask", "hold", "clear", "update"}, new : CpStates]
    /\ pipe \in {"free", "drained", "waiting"}
    /\ queued \in Nat
    /\ hist \in [answered : BOOLEAN, early : BOOLEAN]

\* CP has locked the screen by itself, or the pipeline's thread has answered
\* the same HOLDING twice: from then on a page may be cleared unasked.
Calm == cp.warns = 0 /\ ~hist.early

AtRecordLoop == reader = AtRecord

\* The state that the reader has read last.
Seen == IF AtRecordLoop THEN vmstate ELSE reader.new

\* The records from number k on are those of a page CP is writing: there is
\* no erased screen among them and a stop ends them.
FlowFrom(k) ==
    /\ \A i \in k .. Len(fromCp) :
          /\ fromCp[i] # "erase"
          /\ fromCp[i] = "more" =>
                \/ i = Len(fromCp) /\ cp.state = "more"
                \/ i = Len(fromCp) - 1 /\ fromCp[i + 1] = "holding"
          /\ fromCp[i] = "holding" =>
                /\ i = Len(fromCp) /\ cp.state = "holding"
                /\ i > k /\ fromCp[i - 1] = "more"
    /\ cp.state \in Stopped => Len(fromCp) >= k /\ fromCp[Len(fromCp)] = cp.state

\* CP is in a stop the reader has seen, or is about to see end in HOLDING.
AtStop ==
    \/ fromCp = <<>> /\ cp.state = Seen
    \/ fromCp = <<"holding">> /\ Seen = "more" /\ cp.state = "holding"

\* The page is on its way to the console.
Flowing ==
    /\ FlowFrom(1)
    /\ \/ AtRecordLoop
       \/ reader.at = "update" /\ reader.new \notin Stopped
    /\ AtRecordLoop /\ vmstate \in Stopped =>
          Len(fromCp) > 0 /\ fromCp[1] = "running"
    /\ inHolding => vmstate = "holding" /\ hist.answered
    /\ pipe # "waiting"

\* The reader asks the pipeline what to do about a MORE.
Asking ==
    /\ reader.at \in {"ask", "hold", "clear"} /\ reader.new = "more"
    /\ AtStop
    /\ vmstate \notin Stopped /\ ~inHolding
    /\ reader.at = "clear" => queued = 0
    /\ pipe # "waiting"

\* Where the reader may be between a MORE and the end of the stop.
InStop ==
    \/ reader.at = "update" /\ reader.new = "more" /\ vmstate \notin Stopped
    \/ AtRecordLoop /\ vmstate = "more"
    \/ reader.at = "update" /\ reader.new = "holding" /\ vmstate = "more"
    \/ AtRecordLoop /\ vmstate = "holding"

\* CP is held until the pipeline's thread has shown what is queued.
Held ==
    /\ InStop /\ AtStop /\ inHolding
    /\ AtRecordLoop /\ vmstate = "holding" => ~hist.answered

\* The CLEAR is on its way, or the erased screen it leads to.
Erased(e) ==
    /\ e \in 1 .. Len(fromCp) - 1
    /\ fromCp[e] = "erase" /\ fromCp[e + 1] = "running"
    /\ FlowFrom(e + 1)

BeforeErased ==
    \/ Erased(1)
    \/ Erased(2) /\ fromCp[1] = "holding" /\ Seen = "more"

ClearSent == AtStop /\ queued =< PageLines /\ (pipe # "free" => queued = 0)

Clearing ==
    /\ \/ InStop
       \/ reader.at = "clear" /\ reader.new = "holding" /\ vmstate = "more"
    /\ inHolding => AtRecordLoop /\ vmstate = "holding" /\ hist.answered
    /\ pipe # "waiting"
    /\ IF Count(toCp, "clear") > 0 THEN ClearSent ELSE BeforeErased

Handshake ==
    IF ClearUnderway THEN Clearing ELSE Flowing \/ Asking \/ Held

\* Lines on their way to the screen, and those CP has written on its page.
Outstanding ==
    /\ queued + Count(fromCp, "line") =< cp.page + PageLines
    /\ Count(fromCp, "line") =< cp.page
    /\ pipe # "free" => queued + Count(fromCp, "line") =< cp.page

IInv ==
    /\ TypeOK
    /\ OneClear
    /\ Calm => Handshake /\ Outstanding

-----------------------------------------------------------------------------
(* Sequences of keys and records *)

LEMMA CountIsNat ==
    ASSUME NEW S, NEW s \in Seq(S), NEW y
    PROVE  /\ IsFiniteSet({i \in DOMAIN s : s[i] = y})
           /\ Count(s, y) \in Nat
           /\ Count(s, y) = 0 <=> \A i \in 1 .. Len(s) : s[i] # y
<1> DEFINE Y == {i \in DOMAIN s : s[i] = y}
<1>1. DOMAIN s = 1 .. Len(s) /\ Len(s) \in Nat
  BY LenProperties
<1>2. IsFiniteSet(1 .. Len(s))
  BY <1>1, FS_Interval
<1>3. IsFiniteSet(Y)
  BY <1>1, <1>2, FS_Subset
<1>4. Cardinality(Y) \in Nat /\ (Cardinality(Y) = 0 <=> Y = {})
  BY <1>3, FS_CardinalityType, FS_EmptySet
<1>. QED BY <1>1, <1>3, <1>4 DEF Count

LEMMA EmptyCount ==
    ASSUME NEW y
    PROVE  Count(<<>>, y) = 0
<1>1. {i \in DOMAIN <<>> : <<>>[i] = y} = {}
  OBVIOUS
<1>. QED BY <1>1, FS_EmptySet DEF Count

LEMMA AddProperties ==
    ASSUME NEW S, NEW s \in Seq(S), NEW x \in S
    PROVE  /\ s \o <<x>> \in Seq(S)
           /\ Len(s \o <<x>>) = Len(s) + 1
           /\ \A i \in 1 .. Len(s) : (s \o <<x>>)[i] = s[i]
           /\ (s \o <<x>>)[Len(s) + 1] = x
           /\ \A y : Count(s \o <<x>>, y) = Count(s, y) + IF x = y THEN 1 ELSE 0
<1> DEFINE t == s \o <<x>>
<1>1. Len(s) \in Nat /\ DOMAIN s = 1 .. Len(s)
  BY LenProperties
<1>2. <<x>> \in Seq(S) /\ Len(<<x>>) = 1 /\ <<x>>[1] = x
  OBVIOUS
<1>3. t \in Seq(S) /\ Len(t) = Len(s) + 1
  BY <1>2, ConcatProperties
<1>4. \A i \in 1 .. Len(s) + 1 : t[i] = IF i =< Len(s) THEN s[i] ELSE <<x>>[i - Len(s)]
  BY <1>2, ConcatProperties
<1>5. DOMAIN t = 1 .. Len(s) + 1
  BY <1>3, LenProperties
<1>6. (\A i \in 1 .. Len(s) : t[i] = s[i]) /\ t[Len(s) + 1] = x
  BY <1>1, <1>2, <1>4
<1> HIDE DEF t
<1>7. ASSUME NEW y PROVE Count(t, y) = Count(s, y) + IF x = y THEN 1 ELSE 0
  <2> DEFINE Y == {i \in DOMAIN s : s[i] = y}
  <2>1. IsFiniteSet(Y) /\ Len(s) + 1 \notin Y /\ Count(s, y) \in Nat
    BY <1>1, CountIsNat
  <2>2. {i \in DOMAIN t : t[i] = y} = IF x = y THEN Y \cup {Len(s) + 1} ELSE Y
    BY <1>1, <1>5, <1>6
  <2>3. Cardinality(Y \cup {Len(s) + 1}) = Cardinality(Y) + 1
    BY <2>1, FS_AddElement
  <2>4. Count(s, y) = Cardinality(Y) /\ Count(t, y) = Cardinality({i \in DOMAIN t : t[i] = y})
    BY DEF Count
  <2> HIDE DEF Y
  <2>5. CASE x = y
    BY <2>1, <2>2, <2>3, <2>4, <2>5
  <2>6. CASE x # y
    <3>1. Count(t, y) = Count(s, y)
      BY <2>2, <2>4, <2>6
    <3>. QED BY <2>1, <2>6, <3>1
  <2>. QED BY <2>5, <2>6
<1>8. \A y : Count(t, y) = Count(s, y) + IF x = y THEN 1 ELSE 0
  BY <1>7
<1>. QED BY <1>3, <1>6, <1>8 DEF t

LEMMA TakeProperties ==
    ASSUME NEW S, NEW s \in Seq(S), s # <<>>
    PROVE  /\ Head(s) \in S /\ Head(s) = s[1] /\ Len(s) \in Nat \ {0}
           /\ Tail(s) \in Seq(S) /\ Len(Tail(s)) = Len(s) - 1
           /\ \A i \in 1 .. Len(s) - 1 : Tail(s)[i] = s[i + 1]
           /\ \A y : Count(Tail(s), y) = Count(s, y) - IF Head(s) = y THEN 1 ELSE 0
<1>1. /\ Head(s) \in S /\ Head(s) = s[1] /\ Len(s) \in Nat \ {0} /\ DOMAIN s = 1 .. Len(s)
      /\ Tail(s) \in Seq(S) /\ Len(Tail(s)) = Len(s) - 1
      /\ DOMAIN Tail(s) = 1 .. Len(s) - 1
      /\ \A i \in 1 .. Len(s) - 1 : Tail(s)[i] = s[i + 1]
  BY HeadTailProperties, EmptySeq, LenProperties
<1>2. ASSUME NEW y PROVE Count(Tail(s), y) = Count(s, y) - IF Head(s) = y THEN 1 ELSE 0
  <2> DEFINE Y == {i \in DOMAIN s : s[i] = y}
             Z == {i \in DOMAIN Tail(s) : Tail(s)[i] = y}
             f == [i \in Z |-> i + 1]
  <2>1. IsFiniteSet(Y) /\ IsFiniteSet(Z)
    <3>1. IsFiniteSet(Y)
      BY CountIsNat
    <3>2. \A u \in Seq(S) : IsFiniteSet({i \in DOMAIN u : u[i] = y})
      BY CountIsNat
    <3>3. IsFiniteSet(Z)
      BY <1>1, <3>2
    <3>. QED BY <3>1, <3>3
  <2>2. f \in Bijection(Z, Y \ {1})
    <3>1. \A i \in Z : i + 1 \in Y \ {1}
      BY <1>1
    <3>2. \A j \in Y \ {1} : j - 1 \in Z /\ (j - 1) + 1 = j
      BY <1>1
    <3>3. \A i, j \in Z : i + 1 = j + 1 => i = j
      BY <1>1
    <3> HIDE DEF Y, Z
    <3>4. f \in [Z -> Y \ {1}] /\ \A i \in Z : f[i] = i + 1
      BY <3>1
    <3> HIDE DEF f
    <3>5. \A i, j \in Z : f[i] = f[j] => i = j
      BY <3>3, <3>4
    <3>6. \A j \in Y \ {1} : \E i \in Z : f[i] = j
      BY <3>2, <3>4
    <3>. QED BY <3>4, <3>5, <3>6 DEF Bijection, Injection, Surjection, IsInjective
  <2>3. Cardinality(Y \ {1}) = Cardinality(Z)
    BY <2>1, <2>2, FS_Bijection DEF ExistsBijection
  <2>4. Cardinality(Y \ {1}) = IF 1 \in Y THEN Cardinality(Y) - 1 ELSE Cardinality(Y)
    BY <2>1, FS_RemoveElement
  <2>5. 1 \in Y <=> Head(s) = y
    BY <1>1
  <2>6. Cardinality(Y) \in Nat
    BY <2>1, FS_CardinalityType
  <2>7. Count(s, y) = Cardinality(Y) /\ Count(Tail(s), y) = Cardinality(Z)
    BY DEF Count
  <2> HIDE DEF Y, Z
  <2>. QED BY <2>3, <2>4, <2>5, <2>6, <2>7
<1>. QED BY <1>1, <1>2

-----------------------------------------------------------------------------
(* What CP writes keeps the shape of the records on their way *)

LEMMA FlowQuiet ==
    ASSUME NEW k \in Nat \ {0}, FlowFrom(k), cp.state \notin Stopped
    PROVE  \A i \in k .. Len(fromCp) : fromCp[i] \notin {"more", "holding", "erase"}
BY DEF FlowFrom, Stopped

LEMMA FlowGrows ==
    ASSUME TypeOK, NEW k \in Nat \ {0}, FlowFrom(k), k =< Len(fromCp) + 1,
           cp.state \notin Stopped,
           NEW x \in Records \ {"erase", "holding"}, fromCp' = fromCp \o <<x>>,
           x = "more" => cp'.state = "more",
           cp'.state \in Stopped => x = cp'.state
    PROVE  FlowFrom(k)'
<1>1. /\ Len(fromCp) \in Nat /\ Len(fromCp') = Len(fromCp) + 1
      /\ \A i \in 1 .. Len(fromCp) : fromCp'[i] = fromCp[i]
      /\ fromCp'[Len(fromCp) + 1] = x
  BY AddProperties, LenProperties DEF TypeOK
<1>2. \A i \in k .. Len(fromCp) : fromCp'[i] \notin {"more", "holding", "erase"}
  BY <1>1, FlowQuiet
<1>3. \A i \in k .. Len(fromCp') : i \in k .. Len(fromCp) \/ i = Len(fromCp')
  BY <1>1
<1>. QED BY <1>1, <1>2, <1>3 DEF FlowFrom

LEMMA FlowHolds ==
    ASSUME TypeOK, NEW k \in Nat \ {0}, FlowFrom(k),
           cp.state = "more", cp'.state = "holding", fromCp' = fromCp \o <<"holding">>
    PROVE  FlowFrom(k)'
<1>1. /\ Len(fromCp) \in Nat /\ Len(fromCp') = Len(fromCp) + 1
      /\ \A i \in 1 .. Len(fromCp) : fromCp'[i] = fromCp[i]
      /\ fromCp'[Len(fromCp) + 1] = "holding"
  BY AddProperties, LenProperties DEF TypeOK, Records, CpStates
<1>2. /\ Len(fromCp) >= k /\ fromCp[Len(fromCp)] = "more"
      /\ \A i \in k .. Len(fromCp) : fromCp[i] \notin {"holding", "erase"}
      /\ \A i \in k .. Len(fromCp) : fromCp[i] = "more" => i = Len(fromCp)
  <2>1. \A i \in k .. Len(fromCp) : fromCp[i] \notin {"holding", "erase"}
    BY DEF FlowFrom
  <2>2. Len(fromCp) >= k /\ fromCp[Len(fromCp)] = "more"
    BY DEF FlowFrom, Stopped
  <2>3. ASSUME NEW i \in k .. Len(fromCp), fromCp[i] = "more"
        PROVE  i = Len(fromCp)
    <3>1. i = Len(fromCp) \/ (i = Len(fromCp) - 1 /\ fromCp[i + 1] = "holding")
      BY <2>3 DEF FlowFrom
    <3>2. i = Len(fromCp) - 1 => fromCp[i + 1] = "more"
      BY <1>1, <2>2
    <3>. QED BY <3>1, <3>2
  <2>. QED BY <2>1, <2>2, <2>3
<1>3. ASSUME NEW i \in k .. Len(fromCp')
      PROVE  \/ i \in k .. Len(fromCp) /\ i \in 1 .. Len(fromCp)
             \/ i = Len(fromCp) + 1
  BY <1>1, <1>3
<1>4. ASSUME NEW i \in k .. Len(fromCp')
      PROVE  /\ fromCp'[i] # "erase"
             /\ fromCp'[i] = "more" => i = Len(fromCp') - 1 /\ fromCp'[i + 1] = "holding"
             /\ fromCp'[i] = "holding" => i = Len(fromCp') /\ i > k /\ fromCp'[i - 1] = "more"
  <2>1. CASE i \in k .. Len(fromCp) /\ i \in 1 .. Len(fromCp)
    BY <1>1, <1>2, <2>1
  <2>2. CASE i = Len(fromCp) + 1
    BY <1>1, <1>2, <2>2
  <2>. QED BY <1>3, <2>1, <2>2
<1>. QED BY <1>1, <1>2, <1>4 DEF FlowFrom

LEMMA FlowSkips ==
    ASSUME TypeOK, FlowFrom(1), fromCp # <<>>, fromCp[1] \notin Stopped
    PROVE  FlowFrom(2)
<1>1. Len(fromCp) \in Nat \ {0}
  BY TakeProperties DEF TypeOK
<1>2. \A i \in 2 .. Len(fromCp) : fromCp[i] = "holding" => i > 2
  BY <1>1 DEF FlowFrom, Stopped
<1>3. cp.state \in Stopped => Len(fromCp) >= 2
  BY <1>1 DEF FlowFrom
<1>. QED BY <1>1, <1>2, <1>3 DEF FlowFrom

LEMMA FlowHead ==
    ASSUME TypeOK, FlowFrom(1), fromCp # <<>>
    PROVE  /\ fromCp[1] # "erase" /\ fromCp[1] # "holding"
           /\ fromCp[1] = "more" =>
                 \/ Len(fromCp) = 1 /\ cp.state = "more"
                 \/ Len(fromCp) = 2 /\ fromCp[2] = "holding" /\ cp.state = "holding"
<1>1. Len(fromCp) \in Nat \ {0}
  BY TakeProperties DEF TypeOK
<1>2. 1 \in 1 .. Len(fromCp)
  BY <1>1
<1>3. fromCp[1] # "erase" /\ fromCp[1] # "holding"
  BY <1>2 DEF FlowFrom
<1>4. ASSUME fromCp[1] = "more"
      PROVE  \/ Len(fromCp) = 1 /\ cp.state = "more"
             \/ Len(fromCp) = 2 /\ fromCp[2] = "holding"
  <2>1. \A i \in 1 .. Len(fromCp) : fromCp[i] = "more" =>
           \/ i = Len(fromCp) /\ cp.state = "more"
           \/ i = Len(fromCp) - 1 /\ fromCp[i + 1] = "holding"
    BY DEF FlowFrom
  <2>2. \/ 1 = Len(fromCp) /\ cp.state = "more"
        \/ 1 = Len(fromCp) - 1 /\ fromCp[1 + 1] = "holding"
    BY <1>2, <1>4, <2>1
  <2>. QED BY <1>1, <2>2
<1>5. Len(fromCp) = 2 /\ fromCp[2] = "holding" => cp.state = "holding"
  BY DEF FlowFrom
<1>. QED BY <1>3, <1>4, <1>5

LEMMA FlowTail ==
    ASSUME TypeOK, fromCp # <<>>, fromCp' = Tail(fromCp), cp' = cp,
           NEW k \in Nat \ {0}, FlowFrom(k + 1)
    PROVE  FlowFrom(k)'
<1> DEFINE n == Len(fromCp)
<1>1. /\ n \in Nat \ {0} /\ Len(fromCp') = n - 1
      /\ \A i \in 1 .. n - 1 : fromCp'[i] = fromCp[i + 1]
  BY TakeProperties DEF TypeOK
<1> DEFINE moved(s, i, end) ==
             /\ s[i] # "erase"
             /\ s[i] = "more" => \/ i = end /\ cp.state = "more"
                                 \/ i = end - 1 /\ s[i + 1] = "holding"
             /\ s[i] = "holding" => i = end /\ cp.state = "holding"
<1>2. \A i \in k + 1 .. n : moved(fromCp, i, n)
  BY DEF FlowFrom
<1>3. \A i \in k + 1 .. n : fromCp[i] = "holding" => i > k + 1 /\ fromCp[i - 1] = "more"
  BY DEF FlowFrom
<1>4. cp.state \in Stopped => n >= k + 1 /\ fromCp[n] = cp.state
  BY DEF FlowFrom
<1> HIDE DEF n
<1>5. ASSUME NEW i \in k .. n - 1
      PROVE  moved(fromCp', i, n - 1)
  <2>1. i + 1 \in k + 1 .. n /\ i \in 1 .. n - 1 /\ (i + 1) + 1 = i + 2
    BY <1>1
  <2>2. moved(fromCp, i + 1, n)
    BY <1>2, <2>1
  <2>3. i < n - 1 => fromCp'[i + 1] = fromCp[i + 2]
    BY <1>1, <2>1
  <2>. QED BY <1>1, <2>1, <2>2, <2>3
<1>6. ASSUME NEW i \in k .. n - 1, fromCp'[i] = "holding"
      PROVE  i > k /\ fromCp'[i - 1] = "more"
  <2>1. i + 1 \in k + 1 .. n /\ i \in 1 .. n - 1 /\ (i + 1) - 1 = i
    BY <1>1
  <2>2. i + 1 > k + 1 /\ fromCp[i] = "more"
    BY <1>1, <1>3, <1>6, <2>1
  <2>3. i - 1 \in 1 .. n - 1 /\ (i - 1) + 1 = i
    BY <1>1, <2>1, <2>2
  <2>. QED BY <1>1, <2>2, <2>3
<1>7. cp.state \in Stopped => n - 1 >= k /\ fromCp'[n - 1] = cp.state
  <2>1. SUFFICES ASSUME cp.state \in Stopped
                 PROVE  n - 1 >= k /\ fromCp'[n - 1] = cp.state
    OBVIOUS
  <2>2. n - 1 >= k /\ n - 1 \in 1 .. n - 1 /\ (n - 1) + 1 = n
    BY <1>1, <1>4, <2>1
  <2>. QED BY <1>1, <1>4, <2>1, <2>2
<1>. QED BY <1>1, <1>5, <1>6, <1>7 DEF FlowFrom

-----------------------------------------------------------------------------
(* The steps of CP keep the handshake *)

LEMMA StopIsStopped ==
    ASSUME Asking \/ Held, TypeOK
    PROVE  cp.state \in Stopped
BY DEF Asking, Held, InStop, AtStop, Seen, AtRecordLoop, AtRecord, Stopped, TypeOK

LEMMA HandshakeGrows ==
    ASSUME TypeOK, Handshake, cp.state \notin Stopped,
           UNCHANGED <<filter, reader, pipe, queued, hist>>,
           Count(toCp', "clear") = Count(toCp, "clear"),
           NEW x \in Records \ {"erase", "holding"}, fromCp' = fromCp \o <<x>>,
           x = "more" => cp'.state = "more",
           cp'.state \in Stopped => x = cp'.state
    PROVE  Handshake'
<1>1. /\ Len(fromCp) \in Nat /\ Len(fromCp') = Len(fromCp) + 1
      /\ \A i \in 1 .. Len(fromCp) : fromCp'[i] = fromCp[i]
  BY AddProperties, LenProperties DEF TypeOK
<1>2. \A k \in Nat \ {0} : k =< Len(fromCp) + 1 /\ FlowFrom(k) => FlowFrom(k)'
  BY FlowGrows
<1>3. ClearUnderway' = ClearUnderway /\ Seen' = Seen /\ AtRecordLoop' = AtRecordLoop
  BY DEF ClearUnderway, Seen, AtRecordLoop, filter
<1>4. CASE ~ClearUnderway
  <2>1. Flowing
    BY <1>4, StopIsStopped DEF Handshake
  <2>2. FlowFrom(1)'
    BY <1>1, <1>2, <2>1 DEF Flowing
  <2>3. Flowing'
    BY <1>1, <1>3, <2>1, <2>2 DEF Flowing, filter
  <2>. QED BY <1>3, <1>4, <2>3 DEF Handshake
<1>5. CASE ClearUnderway
  <2>1. Clearing
    BY <1>5 DEF Handshake
  <2>2. ~AtStop
    <3>1. AtStop => Seen \in Stopped
      BY <2>1 DEF AtStop, Clearing, InStop, Seen, AtRecordLoop, AtRecord, Stopped
    <3>. QED BY <3>1 DEF AtStop, Stopped
  <2>3. BeforeErased => BeforeErased'
    <3>1. (Erased(1) => Erased(1)') /\ (Erased(2) => Erased(2)')
      BY <1>1, <1>2 DEF Erased
    <3>2. Erased(2) => fromCp'[1] = fromCp[1]
      BY <1>1 DEF Erased
    <3>. QED BY <1>3, <3>1, <3>2 DEF BeforeErased
  <2>4. InStop' = InStop
    BY <1>3 DEF InStop, filter
  <2>5. Clearing'
    BY <1>3, <2>1, <2>2, <2>3, <2>4 DEF Clearing, ClearSent, filter
  <2>. QED BY <1>3, <1>5, <2>5 DEF Handshake
<1>. QED BY <1>4, <1>5

LEMMA HandshakeHolds ==
    ASSUME TypeOK, Handshake, cp.state = "more",
           UNCHANGED <<filter, reader, pipe, queued, hist>>,
           Count(toCp', "clear") = Count(toCp, "clear"),
           fromCp' = fromCp \o <<"holding">>, cp'.state = "holding"
    PROVE  Handshake'
<1>1. /\ Len(fromCp) \in Nat /\ Len(fromCp') = Len(fromCp) + 1
      /\ \A i \in 1 .. Len(fromCp) : fromCp'[i] = fromCp[i]
  BY AddProperties, LenProperties DEF TypeOK, Records, CpStates
<1>2. \A k \in Nat \ {0} : FlowFrom(k) => FlowFrom(k)'
  BY FlowHolds
<1>3. ClearUnderway' = ClearUnderway /\ Seen' = Seen /\ AtRecordLoop' = AtRecordLoop
  BY DEF ClearUnderway, Seen, AtRecordLoop, filter
<1>4. AtStop => AtStop'
  <2>1. <<>> \o <<"holding">> = <<"holding">>
    OBVIOUS
  <2>. QED BY <1>3, <2>1 DEF AtStop
<1>5. InStop' = InStop
  BY <1>3 DEF InStop, filter
<1>6. Flowing => Flowing'
  BY <1>1, <1>2, <1>3 DEF Flowing, filter
<1>7. Asking => Asking'
  BY <1>3, <1>4 DEF Asking, filter
<1>8. Held => Held'
  BY <1>3, <1>4, <1>5 DEF Held, filter
<1>9. Clearing => Clearing'
  <2>1. BeforeErased => BeforeErased'
    <3>1. (Erased(1) => Erased(1)') /\ (Erased(2) => Erased(2)')
      BY <1>1, <1>2 DEF Erased
    <3>2. Erased(2) => fromCp'[1] = fromCp[1]
      BY <1>1 DEF Erased
    <3>. QED BY <1>3, <3>1, <3>2 DEF BeforeErased
  <2>2. ClearSent => ClearSent'
    BY <1>4 DEF ClearSent
  <2>. QED BY <1>3, <1>5, <2>1, <2>2 DEF Clearing, filter
<1>. QED BY <1>3, <1>6, <1>7, <1>8, <1>9 DEF Handshake

\* A key that CP does not react to.
LEMMA HandshakeKeeps ==
    ASSUME Handshake, cp'.state = cp.state,
           UNCHANGED <<fromCp, filter, reader, pipe, queued, hist>>,
           Count(toCp', "clear") = Count(toCp, "clear")
    PROVE  Handshake'
<1>1. \A k \in Nat : FlowFrom(k)' = FlowFrom(k)
  BY DEF FlowFrom
<1>2. ClearUnderway' = ClearUnderway /\ Seen' = Seen /\ AtRecordLoop' = AtRecordLoop
  BY DEF ClearUnderway, Seen, AtRecordLoop, filter
<1>3. AtStop' = AtStop /\ InStop' = InStop
  BY <1>2 DEF AtStop, InStop, filter
<1>4. Flowing' = Flowing /\ Asking' = Asking /\ Held' = Held
  BY <1>1, <1>2, <1>3 DEF Flowing, Asking, Held, filter
<1>5. Clearing' = Clearing
  BY <1>1, <1>2, <1>3 DEF Clearing, ClearSent, BeforeErased, Erased, filter
<1>. QED BY <1>2, <1>4, <1>5 DEF Handshake

-----------------------------------------------------------------------------
(* Types, and the CLEAR that is under way *)

LEMMA AppendCounts ==
    ASSUME NEW S, NEW s \in Seq(S), NEW x \in S
    PROVE  /\ Append(s, x) \in Seq(S)
           /\ \A y : Count(Append(s, x), y) = Count(s, y) + IF x = y THEN 1 ELSE 0
<1>1. Append(s, x) = s \o <<x>>
  BY AppendIsConcat
<1>. QED BY <1>1, AddProperties

LEMMA AddTwo ==
    ASSUME NEW S, NEW s \in Seq(S), NEW a \in S, NEW b \in S
    PROVE  s \o <<a, b>> = (s \o <<a>>) \o <<b>>
<1>1. <<a>> \in Seq(S) /\ <<b>> \in Seq(S)
  OBVIOUS
<1>2. <<a>> \o <<b>> = <<a, b>>
  <2> DEFINE t == <<a>> \o <<b>>
             u == <<a, b>>
  <2>1. t \in Seq(S) /\ Len(t) = 2 /\ t[1] = a /\ t[2] = b
    BY <1>1, AddProperties
  <2>2. u \in Seq(S) /\ Len(u) = 2 /\ u[1] = a /\ u[2] = b
    OBVIOUS
  <2> HIDE DEF t, u
  <2>3. t = u
    BY <2>1, <2>2, SeqEqual
  <2>. QED BY <2>3 DEF t, u
<1>3. s \o (<<a>> \o <<b>>) = (s \o <<a>>) \o <<b>>
  BY <1>1, ConcatAssociative
<1>. QED BY <1>2, <1>3

LEMMA CpTypes ==
    ASSUME TypeOK, Cp
    PROVE  TypeOK'
<1>1. /\ cp \in CpType /\ toCp \in Seq(Keys) /\ fromCp \in Seq(Records)
      /\ CpStates \subseteq Records
  BY DEF TypeOK, Records
<1>2. ASSUME NEW x \in Records, Says(<<x>>)
      PROVE  fromCp' \in Seq(Records)
  BY <1>1, <1>2, AddProperties DEF Says
<1>3. CASE CpLine
  <2>1. cp' \in CpType
    <3>1. cp' = [state |-> cp.state, page |-> cp.page + 1, lines |-> cp.lines + 1,
                 warns |-> cp.warns, inputs |-> cp.inputs]
      BY <1>1, <1>3 DEF CpLine, CpType
    <3>2. cp.page + 1 \in 0 .. PageLines
      BY <1>1, <1>3, PageAssumption DEF CpLine, CpType
    <3>. QED BY <1>1, <3>1, <3>2 DEF CpType
  <2>2. fromCp' \in Seq(Records) /\ toCp' = toCp
    BY <1>2, <1>3 DEF CpLine, Records
  <2>. QED BY <1>1, <2>1, <2>2 DEF TypeOK, Cp, filter
<1>4. CASE CpState
  <2>1. cp' \in CpType
    <3>1. CASE cp' = [cp EXCEPT !.state = "more"] \/ cp' = [cp EXCEPT !.state = "vmread"]
      BY <1>1, <3>1 DEF CpType, CpStates, Stopped
    <3>2. CASE cp' = [cp EXCEPT !.state = "holding", !.warns = @ + 1]
      <4>1. cp' = [state |-> "holding", page |-> cp.page, lines |-> cp.lines,
                   warns |-> cp.warns + 1, inputs |-> cp.inputs]
        BY <1>1, <3>2 DEF CpType
      <4>. QED BY <1>1, <4>1 DEF CpType, CpStates, Stopped
    <3>. QED BY <1>4, <3>1, <3>2 DEF CpState
  <2>2. fromCp' \in Seq(Records) /\ toCp' = toCp
    <3>1. cp'.state \in Records
      BY <1>1, <2>1 DEF CpType
    <3>. QED BY <1>2, <1>4, <3>1 DEF CpState
  <2>. QED BY <1>1, <2>1, <2>2 DEF TypeOK, Cp, filter
<1>5. CASE CpKey
  <2>1. toCp' \in Seq(Keys)
    BY <1>1, <1>5, TakeProperties DEF CpKey
  <2>2. CASE Head(toCp) = "clear"
    <3>1. /\ cp' = [cp EXCEPT !.page = 0, !.state = IF @ \in Stopped THEN "running" ELSE @]
          /\ fromCp' = fromCp \o <<"erase", cp'.state>>
      BY <1>5, <2>2 DEF CpKey, Says
    <3>2. cp' \in CpType
      <4>1. cp' = [state |-> IF cp.state \in Stopped THEN "running" ELSE cp.state, page |-> 0,
                   lines |-> cp.lines, warns |-> cp.warns, inputs |-> cp.inputs]
        BY <1>1, <3>1 DEF CpType
      <4>. QED BY <1>1, <4>1, PageAssumption DEF CpType, CpStates
    <3>3. "erase" \in Records /\ cp'.state \in Records
      BY <1>1, <3>2 DEF CpType, Records
    <3>4. fromCp' = (fromCp \o <<"erase">>) \o <<cp'.state>>
      <4>1. \A a, b \in Records : fromCp \o <<a, b>> = (fromCp \o <<a>>) \o <<b>>
        BY <1>1, AddTwo
      <4>. QED BY <3>1, <3>3, <4>1
    <3>5. fromCp \o <<"erase">> \in Seq(Records)
      BY <1>1, <3>3, AddProperties
    <3>6. fromCp' \in Seq(Records)
      BY <3>3, <3>4, <3>5, AddProperties
    <3>. QED BY <1>1, <2>1, <3>2, <3>6 DEF TypeOK, Cp, filter
  <2>3. CASE Head(toCp) # "clear" /\ cp.state = "more"
    <3>1. cp' = [cp EXCEPT !.state = "holding"] /\ Says(<<"holding">>)
      BY <1>5, <2>3 DEF CpKey
    <3>2. cp' \in CpType /\ fromCp' \in Seq(Records)
      BY <1>1, <1>2, <3>1 DEF CpType, CpStates, Stopped, Records
    <3>. QED BY <1>1, <2>1, <3>2 DEF TypeOK, Cp, filter
  <2>4. CASE Head(toCp) # "clear" /\ cp.state = "vmread"
    <3>1. cp' = [cp EXCEPT !.state = "running"] /\ Says(<<"running">>)
      BY <1>5, <2>4 DEF CpKey
    <3>2. cp' \in CpType /\ fromCp' \in Seq(Records)
      BY <1>1, <1>2, <3>1 DEF CpType, CpStates, Stopped, Records
    <3>. QED BY <1>1, <2>1, <3>2 DEF TypeOK, Cp, filter
  <2>5. CASE Head(toCp) # "clear" /\ cp.state # "more" /\ cp.state # "vmread"
    <3>1. UNCHANGED <<cp, fromCp>>
      BY <1>5, <2>5 DEF CpKey
    <3>. QED BY <1>1, <2>1, <3>1 DEF TypeOK, Cp, filter
  <2>. QED BY <2>2, <2>3, <2>4, <2>5
<1>. QED BY <1>3, <1>4, <1>5 DEF Cp

LEMMA ReaderTypes ==
    ASSUME TypeOK, Reader
    PROVE  TypeOK'
<1> USE DEF TypeOK, filter
<1>1. ASSUME NEW r, Reads(r)
      PROVE  fromCp' \in Seq(Records)
  <2>1. fromCp \in Seq(Records) /\ fromCp # <<>> /\ fromCp' = Tail(fromCp)
    BY <1>1 DEF Reads
  <2>. QED BY <2>1, TakeProperties
<1>2. CASE AppendLine
  BY <1>1, <1>2 DEF AppendLine
<1>3. CASE ScreenCleared
  BY <1>1, <1>3 DEF ScreenCleared, ClearStates
<1>4. CASE VmStateArrived
  <2>1. PICK s \in CpStates :
           /\ Reads(s)
           /\ clearState' = IF clearState = "cleared" THEN "notClearing" ELSE clearState
           /\ reader' = IF s = vmstate THEN AtRecord ELSE At(Reaction(s), s)
           /\ UNCHANGED <<cp, toCp, vmstate, inHolding, pipe, queued, hist>>
    BY <1>4 DEF VmStateArrived
  <2>2. Reaction(s) \in {"ask", "hold", "clear", "update"}
    BY DEF Reaction
  <2>3. reader' \in {AtRecord} \cup [at : {"ask", "hold", "clear", "update"}, new : CpStates]
    BY <2>1, <2>2 DEF At
  <2>4. fromCp' \in Seq(Records) /\ clearState' \in ClearStates
    BY <1>1, <2>1 DEF ClearStates
  <2> HIDE DEF TypeOK
  <2>. QED BY <2>1, <2>3, <2>4 DEF TypeOK
<1>5. ASSUME NEW s, reader.at = s, s # "record"
      PROVE  reader.new \in CpStates
  BY <1>5 DEF AtRecord
<1>6. CASE HasBacklog
  BY <1>5, <1>6 DEF HasBacklog, At
<1>7. CASE HoldVmOutput
  BY <1>5, <1>7, AppendCounts DEF HoldVmOutput, At, Send, Keys
<1>8. CASE ClearVmOutput
  BY <1>5, <1>8, AppendCounts DEF ClearVmOutput, At, SendClearCmd, Send, Keys, ClearStates
<1>9. CASE VmStateUpdated
  <2>1. reader.new \in CpStates
    BY <1>5, <1>9 DEF VmStateUpdated
  <2>2. hist' \in [answered : BOOLEAN, early : BOOLEAN]
    BY <1>9 DEF VmStateUpdated
  <2>. QED BY <1>9, <2>1, <2>2 DEF VmStateUpdated, HoldingAfterUpdate
<1>. QED BY <1>2, <1>3, <1>4, <1>6, <1>7, <1>8, <1>9 DEF Reader

LEMMA PipeTypes ==
    ASSUME TypeOK, Pipe \/ SendInput
    PROVE  TypeOK'
<1> USE DEF TypeOK, filter
<1>1. CASE Show
  BY <1>1 DEF Show, HasLine
<1>2. CASE Idle
  BY <1>2 DEF Idle
<1>3. CASE PipelineDrained
  <2>1. toCp' \in Seq(Keys) /\ clearState' \in ClearStates
    <3>1. toCp \in Seq(Keys) /\ clearState \in ClearStates /\ "clear" \in Keys
      BY DEF Keys
    <3>2. \/ UNCHANGED <<toCp, clearState>>
          \/ toCp' = Append(toCp, "clear") /\ clearState' = "clearRequested"
      BY <1>3 DEF PipelineDrained, SendClearCmd, Send
    <3>. QED BY <3>1, <3>2, AppendCounts DEF ClearStates
  <2>2. hist' \in [answered : BOOLEAN, early : BOOLEAN]
    <3>1. \/ hist' = hist
          \/ hist' = [answered |-> TRUE, early |-> hist.early \/ hist.answered]
      BY <1>3 DEF PipelineDrained
    <3>2. hist \in [answered : BOOLEAN, early : BOOLEAN] /\ (hist.early \/ hist.answered) \in BOOLEAN
      OBVIOUS
    <3> HIDE DEF TypeOK
    <3>3. \A b \in BOOLEAN : [answered |-> TRUE, early |-> b] \in [answered : BOOLEAN, early : BOOLEAN]
      OBVIOUS
    <3>. QED BY <3>1, <3>2, <3>3, Zenon
  <2>3. pipe' \in {"free", "drained", "waiting"}
    BY <1>3 DEF PipelineDrained
  <2>. QED BY <1>3, <2>1, <2>2, <2>3 DEF PipelineDrained
<1>4. CASE SendInput
  <2>1. toCp' \in Seq(Keys)
    BY <1>4, AppendCounts DEF SendInput, Send, Keys
  <2>2. cp' \in CpType
    <3>1. cp \in CpType /\ cp' = [cp EXCEPT !.inputs = @ + 1]
      BY <1>4 DEF SendInput
    <3> HIDE DEF TypeOK
    <3>. QED BY <3>1 DEF CpType
  <2>. QED BY <1>4, <2>1, <2>2 DEF SendInput
<1>. QED BY <1>1, <1>2, <1>3, <1>4 DEF Pipe

\* Neither history variable goes back.
LEMMA CalmBefore ==
    ASSUME TypeOK, Next, Calm'
    PROVE  Calm
<1>1. CASE Cp
  <2>1. cp.warns \in Nat /\ cp \in CpType /\ hist' = hist
    BY <1>1 DEF TypeOK, CpType, Cp
  <2>2. cp'.warns = cp.warns \/ cp'.warns = cp.warns + 1
    BY <1>1, <2>1 DEF Cp, CpLine, CpState, CpKey, CpType
  <2>. QED BY <2>1, <2>2 DEF Calm
<1>2. CASE Reader
  <2>1. cp' = cp /\ (hist'.early = hist.early)
    BY <1>2 DEF TypeOK, Reader, AppendLine, ScreenCleared, VmStateArrived, HasBacklog, HoldVmOutput,
                ClearVmOutput, VmStateUpdated
  <2>. QED BY <2>1 DEF Calm
<1>3. CASE Pipe
  <2>1. cp' = cp /\ (hist.early => hist'.early)
    BY <1>3 DEF TypeOK, Pipe, Show, Idle, PipelineDrained
  <2>. QED BY <2>1 DEF Calm
<1>4. CASE SendInput
  <2>1. cp'.warns = cp.warns /\ hist' = hist
    BY <1>4 DEF SendInput, TypeOK, CpType
  <2>. QED BY <2>1 DEF Calm
<1>. QED BY <1>1, <1>2, <1>3, <1>4 DEF Next

\* How a step changes the number of CLEARs and erased screens under way.
LEMMA TakeKey ==
    ASSUME TypeOK, toCp # <<>>, toCp' = Tail(toCp)
    PROVE  /\ Count(toCp, "clear") \in Nat /\ Count(toCp', "clear") \in Nat
           /\ Head(toCp) = "clear" => Count(toCp, "clear") = Count(toCp', "clear") + 1
           /\ Head(toCp) # "clear" => Count(toCp, "clear") = Count(toCp', "clear")
<1>1. toCp \in Seq(Keys) /\ Tail(toCp) \in Seq(Keys)
  BY TakeProperties DEF TypeOK
<1>2. Count(toCp, "clear") \in Nat /\ Count(toCp', "clear") \in Nat
  BY <1>1, CountIsNat
<1>3. Count(Tail(toCp), "clear") = Count(toCp, "clear") - IF Head(toCp) = "clear" THEN 1 ELSE 0
  BY <1>1, TakeProperties
<1>4. CASE Head(toCp) = "clear"
  BY <1>2, <1>3, <1>4
<1>5. CASE Head(toCp) # "clear"
  <2>1. Count(Tail(toCp), "clear") = Count(toCp, "clear") - 0
    BY <1>3, <1>5
  <2>. QED BY <1>2, <1>5, <2>1
<1>. QED BY <1>4, <1>5

LEMMA TakeRecord ==
    ASSUME TypeOK, NEW r, Reads(r)
    PROVE  \A y : /\ Count(fromCp, y) \in Nat /\ Count(fromCp', y) \in Nat
                  /\ r = y => Count(fromCp, y) = Count(fromCp', y) + 1
                  /\ r # y => Count(fromCp, y) = Count(fromCp', y)
<1>1. fromCp \in Seq(Records) /\ fromCp # <<>> /\ Head(fromCp) = r /\ fromCp' = Tail(fromCp)
  BY DEF TypeOK, Reads
<1>2. Tail(fromCp) \in Seq(Records)
  BY <1>1, TakeProperties
<1> SUFFICES ASSUME NEW y
             PROVE  /\ Count(fromCp, y) \in Nat /\ Count(fromCp', y) \in Nat
                    /\ r = y => Count(fromCp, y) = Count(fromCp', y) + 1
                    /\ r # y => Count(fromCp, y) = Count(fromCp', y)
  OBVIOUS
<1>3. Count(fromCp, y) \in Nat /\ Count(fromCp', y) \in Nat
  BY <1>1, <1>2, CountIsNat
<1>4. Count(Tail(fromCp), y) = Count(fromCp, y) - IF Head(fromCp) = y THEN 1 ELSE 0
  BY <1>1, TakeProperties
<1>5. CASE r = y
  BY <1>1, <1>3, <1>4, <1>5
<1>6. CASE r # y
  <2>1. Count(Tail(fromCp), y) = Count(fromCp, y) - 0
    BY <1>1, <1>4, <1>6
  <2>. QED BY <1>1, <1>3, <1>6, <2>1
<1>. QED BY <1>5, <1>6

LEMMA SendKey ==
    ASSUME TypeOK, NEW key \in Keys, Send(key)
    PROVE  /\ Count(toCp, "clear") \in Nat
           /\ key = "clear" => Count(toCp', "clear") = Count(toCp, "clear") + 1
           /\ key # "clear" => Count(toCp', "clear") = Count(toCp, "clear")
<1>1. toCp \in Seq(Keys) /\ toCp' = Append(toCp, key)
  BY DEF TypeOK, Send
<1>2. Count(toCp, "clear") \in Nat
  BY <1>1, CountIsNat
<1>3. Count(toCp', "clear") = Count(toCp, "clear") + IF key = "clear" THEN 1 ELSE 0
  BY <1>1, AppendCounts
<1>4. CASE key # "clear"
  <2>1. Count(toCp', "clear") = Count(toCp, "clear") + 0
    BY <1>3, <1>4
  <2>. QED BY <1>2, <1>4, <2>1
<1>. QED BY <1>2, <1>3, <1>4

LEMMA SaysRecord ==
    ASSUME TypeOK, NEW x \in Records, Says(<<x>>)
    PROVE  \A y : /\ Count(fromCp, y) \in Nat
                  /\ x = y => Count(fromCp', y) = Count(fromCp, y) + 1
                  /\ x # y => Count(fromCp', y) = Count(fromCp, y)
<1> SUFFICES ASSUME NEW y
             PROVE  /\ Count(fromCp, y) \in Nat
                    /\ x = y => Count(fromCp', y) = Count(fromCp, y) + 1
                    /\ x # y => Count(fromCp', y) = Count(fromCp, y)
  OBVIOUS
<1>1. fromCp \in Seq(Records) /\ fromCp' = fromCp \o <<x>>
  BY DEF TypeOK, Says
<1>2. Count(fromCp, y) \in Nat
  BY <1>1, CountIsNat
<1>3. Count(fromCp', y) = Count(fromCp, y) + IF x = y THEN 1 ELSE 0
  BY <1>1, AddProperties
<1>4. CASE x # y
  <2>1. Count(fromCp', y) = Count(fromCp, y) + 0
    BY <1>3, <1>4
  <2>. QED BY <1>2, <1>4, <2>1
<1>. QED BY <1>2, <1>3, <1>4

\* CP erases its screen and tells its state.
LEMMA SaysErased ==
    ASSUME TypeOK, NEW x \in CpStates, Says(<<"erase", x>>)
    PROVE  /\ Len(fromCp') = Len(fromCp) + 2 /\ Len(fromCp) \in Nat
           /\ \A i \in 1 .. Len(fromCp) : fromCp'[i] = fromCp[i]
           /\ fromCp'[Len(fromCp) + 1] = "erase" /\ fromCp'[Len(fromCp) + 2] = x
           /\ Count(fromCp, "erase") \in Nat
           /\ Count(fromCp', "erase") = Count(fromCp, "erase") + 1
           /\ Count(fromCp', "line") = Count(fromCp, "line")
<1> DEFINE t == fromCp \o <<"erase">>
<1>1. fromCp \in Seq(Records) /\ "erase" \in Records /\ x \in Records /\ x # "erase" /\ x # "line"
  BY DEF TypeOK, Records, CpStates, Stopped
<1>2. fromCp' = t \o <<x>>
  BY <1>1, AddTwo DEF Says
<1>3. /\ t \in Seq(Records) /\ Len(t) = Len(fromCp) + 1 /\ t[Len(fromCp) + 1] = "erase"
      /\ \A i \in 1 .. Len(fromCp) : t[i] = fromCp[i]
      /\ \A y : Count(t, y) = Count(fromCp, y) + IF "erase" = y THEN 1 ELSE 0
  BY <1>1, AddProperties
<1> HIDE DEF t
<1>4. /\ Len(fromCp') = Len(t) + 1 /\ fromCp'[Len(t) + 1] = x
      /\ \A i \in 1 .. Len(t) : fromCp'[i] = t[i]
      /\ \A y : Count(fromCp', y) = Count(t, y) + IF x = y THEN 1 ELSE 0
  BY <1>1, <1>2, <1>3, AddProperties
<1>5. Len(fromCp) \in Nat
  BY <1>1, LenProperties
<1>6. /\ Count(fromCp, "erase") \in Nat /\ Count(fromCp, "line") \in Nat
      /\ Count(t, "erase") \in Nat /\ Count(t, "line") \in Nat
  BY <1>1, <1>3, CountIsNat
<1>7. Count(t, "erase") = Count(fromCp, "erase") + 1 /\ Count(t, "line") = Count(fromCp, "line") + 0
  BY <1>3
<1>8. Count(fromCp', "erase") = Count(t, "erase") + 0 /\ Count(fromCp', "line") = Count(t, "line") + 0
  BY <1>1, <1>4
<1>. QED BY <1>3, <1>4, <1>5, <1>6, <1>7, <1>8

\* A CLEAR on its way is asked for.
LEMMA ClearIsAsked ==
    ASSUME TypeOK, OneClear
    PROVE  /\ Count(toCp, "clear") > 0 => ClearUnderway /\ Count(toCp, "clear") = 1
           /\ Count(fromCp, "erase") > 0 => ClearUnderway /\ Count(toCp, "clear") = 0
           /\ ~ClearUnderway => Count(toCp, "clear") = 0
<1>1. Count(toCp, "clear") \in Nat /\ Count(fromCp, "erase") \in Nat
  BY CountIsNat DEF TypeOK
<1>. QED BY <1>1 DEF OneClear

LEMMA OneClearCp ==
    ASSUME TypeOK, OneClear, Cp \/ SendInput
    PROVE  OneClear'
<1>1. ClearUnderway' = ClearUnderway
  BY DEF Cp, SendInput, filter, ClearUnderway
<1>2. Count(toCp, "clear") \in Nat /\ Count(fromCp, "erase") \in Nat
  BY CountIsNat DEF TypeOK
<1>3. Count(toCp', "clear") + Count(fromCp', "erase") = Count(toCp, "clear") + Count(fromCp, "erase")
  <2>1. CASE CpLine
    <3>1. Count(fromCp', "erase") = Count(fromCp, "erase")
      BY <2>1, SaysRecord DEF CpLine, Records
    <3>. QED BY <2>1, <3>1 DEF CpLine
  <2>2. CASE CpState
    <3>1. cp'.state \in CpStates
      BY <2>2, CpTypes DEF TypeOK, CpType, Cp, CpState, SendInput
    <3>2. cp'.state \in Records /\ cp'.state # "erase"
      BY <3>1 DEF Records, CpStates, Stopped
    <3>3. Count(fromCp', "erase") = Count(fromCp, "erase")
      BY <2>2, <3>2, SaysRecord DEF CpState
    <3>. QED BY <2>2, <3>3 DEF CpState
  <2>3. CASE CpKey /\ Head(toCp) = "clear"
    <3>1. Count(toCp, "clear") = Count(toCp', "clear") + 1 /\ Count(toCp', "clear") \in Nat
      BY <2>3, TakeKey DEF CpKey
    <3>2. Says(<<"erase", cp'.state>>)
      BY <2>3 DEF CpKey
    <3>3. cp'.state \in CpStates
      BY <2>3, CpTypes DEF TypeOK, CpType, Cp, SendInput, CpKey, CpStates
    <3>4. Count(fromCp', "erase") = Count(fromCp, "erase") + 1
      BY <3>2, <3>3, SaysErased
    <3>. QED BY <1>2, <3>1, <3>4
  <2>4. CASE CpKey /\ Head(toCp) # "clear"
    <3>1. Count(toCp, "clear") = Count(toCp', "clear")
      BY <2>4, TakeKey DEF CpKey
    <3>2. Says(<<"holding">>) \/ Says(<<"running">>) \/ fromCp' = fromCp
      BY <2>4 DEF CpKey
    <3>3. Count(fromCp', "erase") = Count(fromCp, "erase")
      BY <3>2, SaysRecord DEF Records, CpStates, Stopped
    <3>. QED BY <3>1, <3>3
  <2>5. CASE SendInput
    <3>1. Count(toCp', "clear") = Count(toCp, "clear")
      BY <2>5, SendKey DEF SendInput, Keys
    <3>. QED BY <2>5, <3>1 DEF SendInput
  <2>. QED BY <2>1, <2>2, <2>3, <2>4, <2>5 DEF Cp
<1>. QED BY <1>1, <1>3 DEF OneClear

LEMMA OneClearFilter ==
    ASSUME TypeOK, OneClear, Reader \/ Pipe
    PROVE  OneClear'
<1>1. /\ Count(toCp, "clear") \in Nat /\ Count(fromCp, "erase") \in Nat
      /\ clearState \in ClearStates
  BY CountIsNat DEF TypeOK
<1>2. CASE UNCHANGED <<toCp, fromCp, clearState>>
  BY <1>2 DEF OneClear, ClearUnderway
<1>3. ASSUME SendClearCmd, fromCp' = fromCp
      PROVE  OneClear'
  <2>1. CASE ClearUnderway
    BY <1>2, <1>3, <2>1 DEF SendClearCmd
  <2>2. CASE ~ClearUnderway
    <3>1. Count(toCp', "clear") = Count(toCp, "clear") + 1 /\ ClearUnderway'
      BY <1>3, <2>2, SendKey DEF SendClearCmd, Keys, ClearUnderway
    <3>. QED BY <1>1, <1>3, <2>2, <3>1 DEF OneClear
  <2>. QED BY <2>1, <2>2
<1>4. CASE AppendLine
  <2>1. Count(fromCp, "erase") = Count(fromCp', "erase")
    BY <1>4, TakeRecord DEF AppendLine
  <2>. QED BY <1>4, <2>1 DEF AppendLine, OneClear, ClearUnderway, filter
<1>5. CASE ScreenCleared
  <2>1. Count(fromCp, "erase") = Count(fromCp', "erase") + 1 /\ Count(fromCp', "erase") \in Nat
    BY <1>5, TakeRecord DEF ScreenCleared
  <2>2. Count(toCp, "clear") + Count(fromCp', "erase") = 0
    BY <1>1, <2>1 DEF OneClear
  <2>. QED BY <1>5, <2>2 DEF ScreenCleared, OneClear, ClearUnderway
<1>6. CASE VmStateArrived
  <2>1. PICK s \in CpStates : Reads(s)
    BY <1>6 DEF VmStateArrived
  <2>2. Count(fromCp, "erase") = Count(fromCp', "erase")
    BY <2>1, TakeRecord DEF CpStates, Stopped
  <2>3. toCp' = toCp /\ clearState' = IF clearState = "cleared" THEN "notClearing" ELSE clearState
    BY <1>6 DEF VmStateArrived
  <2>. QED BY <2>2, <2>3 DEF OneClear, ClearUnderway
<1>7. CASE HoldVmOutput
  <2>1. Count(toCp', "clear") = Count(toCp, "clear")
    BY <1>7, SendKey DEF HoldVmOutput, Keys
  <2>. QED BY <1>7, <2>1 DEF HoldVmOutput, OneClear, ClearUnderway
<1>8. CASE ClearVmOutput
  BY <1>3, <1>8 DEF ClearVmOutput
<1>9. CASE PipelineDrained
  BY <1>2, <1>3, <1>9 DEF PipelineDrained
<1>10. CASE HasBacklog \/ VmStateUpdated \/ Show \/ Idle
  BY <1>2, <1>10 DEF HasBacklog, VmStateUpdated, Show, Idle, filter
<1>. QED BY <1>4, <1>5, <1>6, <1>7, <1>8, <1>9, <1>10 DEF Reader, Pipe

-----------------------------------------------------------------------------
(* Every step keeps the handshake *)

LEMMA HandshakeCp ==
    ASSUME TypeOK, OneClear, Calm, Calm', Handshake, Cp \/ SendInput
    PROVE  Handshake'
<1>1. CASE CpLine /\ Cp
  <2>1. "line" \in Records \ {"erase", "holding"} /\ cp'.state = "running" /\ cp.state \notin Stopped
    BY <1>1 DEF CpLine, Records, Stopped, TypeOK, CpType
  <2>. QED BY <1>1, <2>1, HandshakeGrows DEF CpLine, Cp, Says, Stopped
<1>2. CASE CpState /\ Cp
  <2>1. cp \in CpType /\ cp.warns = 0 /\ cp'.warns = 0
    BY <1>2 DEF TypeOK, Calm
  <2>2. cp' = [cp EXCEPT !.state = "more"] \/ cp' = [cp EXCEPT !.state = "vmread"]
    <3>1. ASSUME cp' = [cp EXCEPT !.state = "holding", !.warns = @ + 1]
          PROVE  FALSE
      BY <2>1, <3>1 DEF CpType
    <3>. QED BY <1>2, <3>1 DEF CpState
  <2>3. cp'.state \in {"more", "vmread"} /\ cp.state \notin Stopped
    BY <1>2, <2>1, <2>2 DEF CpType, CpState, Stopped
  <2>4. cp'.state \in Records \ {"erase", "holding"}
    BY <2>3 DEF Records, CpStates, Stopped
  <2>. QED BY <1>2, <2>3, <2>4, HandshakeGrows DEF CpState, Cp, Says, Stopped
<1>3. CASE CpKey /\ Cp /\ Head(toCp) = "clear"
  <2>1. ClearUnderway /\ Count(toCp, "clear") > 0
    <3>1. Count(toCp, "clear") > 0
      BY <1>3, TakeKey DEF CpKey
    <3>. QED BY <3>1, ClearIsAsked
  <2>2. Clearing /\ ClearSent
    BY <2>1 DEF Handshake, Clearing
  <2>3. cp.state \in Stopped
    BY <2>2 DEF ClearSent, AtStop, Clearing, InStop, Seen, AtRecordLoop, AtRecord, Stopped
  <2>4. cp'.state = "running" /\ Says(<<"erase", "running">>)
    BY <1>3, <2>3 DEF CpKey, TypeOK, CpType
  <2>5. /\ Len(fromCp') = Len(fromCp) + 2 /\ Len(fromCp) \in Nat
        /\ \A i \in 1 .. Len(fromCp) : fromCp'[i] = fromCp[i]
        /\ fromCp'[Len(fromCp) + 1] = "erase" /\ fromCp'[Len(fromCp) + 2] = "running"
    BY <2>4, SaysErased DEF CpStates
  <2>6. Count(toCp', "clear") = 0
    <3>1. Count(toCp, "clear") = 1
      BY <2>1, ClearIsAsked
    <3>. QED BY <1>3, <3>1, TakeKey DEF CpKey
  <2>7. ClearUnderway' = ClearUnderway /\ Seen' = Seen /\ AtRecordLoop' = AtRecordLoop
    BY <1>3 DEF ClearUnderway, Seen, AtRecordLoop, filter, Cp
  <2>8. InStop' = InStop
    BY <1>3, <2>7 DEF InStop, filter, Cp
  <2>9. BeforeErased'
    <3>1. CASE fromCp = <<>>
      <4>1. Len(fromCp) = 0
        BY <3>1
      <4>2. Erased(1)'
        BY <2>4, <2>5, <4>1 DEF Erased, FlowFrom, Stopped
      <4>. QED BY <4>2 DEF BeforeErased
    <3>2. CASE fromCp = <<"holding">> /\ Seen = "more"
      <4>1. Len(fromCp) = 1 /\ fromCp[1] = "holding"
        BY <3>2
      <4>2. Erased(2)'
        BY <2>4, <2>5, <4>1 DEF Erased, FlowFrom, Stopped
      <4>3. fromCp'[1] = "holding"
        BY <2>5, <4>1
      <4>. QED BY <2>7, <3>2, <4>2, <4>3 DEF BeforeErased
    <3>. QED BY <2>2, <3>1, <3>2 DEF ClearSent, AtStop
  <2>10. Clearing'
    BY <1>3, <2>2, <2>6, <2>7, <2>8, <2>9 DEF Clearing, Cp, filter
  <2>. QED BY <2>1, <2>7, <2>10 DEF Handshake
<1>4. CASE CpKey /\ Cp /\ Head(toCp) # "clear"
  <2>1. Count(toCp', "clear") = Count(toCp, "clear")
    BY <1>4, TakeKey DEF CpKey
  <2>2. CASE cp.state = "more"
    BY <1>4, <2>1, <2>2, HandshakeHolds DEF CpKey, Cp, Says, TypeOK, CpType
  <2>3. CASE cp.state = "vmread"
    <3>1. fromCp' = fromCp \o <<"running">> /\ cp'.state = "running" /\ cp.state \notin Stopped
      BY <1>4, <2>3 DEF CpKey, Says, TypeOK, CpType, Stopped
    <3>2. "running" \in Records \ {"erase", "holding"}
      BY DEF Records, CpStates, Stopped
    <3>. QED BY <1>4, <2>1, <3>1, <3>2, HandshakeGrows DEF Cp, Stopped
  <2>4. CASE cp.state # "more" /\ cp.state # "vmread"
    BY <1>4, <2>1, <2>4, HandshakeKeeps DEF CpKey, Cp
  <2>. QED BY <2>2, <2>3, <2>4
<1>5. CASE SendInput
  <2>1. Count(toCp', "clear") = Count(toCp, "clear")
    BY <1>5, SendKey DEF SendInput, Keys
  <2>2. cp'.state = cp.state
    BY <1>5 DEF SendInput, TypeOK, CpType
  <2>. QED BY <1>5, <2>1, <2>2, HandshakeKeeps DEF SendInput
<1>. QED BY <1>1, <1>2, <1>3, <1>4, <1>5 DEF Cp

LEMMA HandshakePipe ==
    ASSUME TypeOK, OneClear, Calm, Calm', Handshake, Outstanding, Pipe
    PROVE  Handshake'
<1>1. UNCHANGED <<cp, fromCp, vmstate, inHolding, reader>>
  BY DEF Pipe, Show, Idle, PipelineDrained, filter
<1>2. \A k \in Nat : FlowFrom(k)' = FlowFrom(k)
  BY <1>1 DEF FlowFrom
<1>3. Seen' = Seen /\ AtRecordLoop' = AtRecordLoop /\ AtStop' = AtStop /\ InStop' = InStop
  BY <1>1 DEF Seen, AtRecordLoop, AtStop, InStop
<1>4. BeforeErased' = BeforeErased
  BY <1>1, <1>2, <1>3 DEF BeforeErased, Erased
<1>5. CASE Show \/ Idle
  <2>1. /\ UNCHANGED <<toCp, clearState, hist>> /\ pipe' # "waiting"
        /\ queued' =< queued /\ (pipe' # "free" => queued' = 0)
        /\ queued = 0 => queued' = 0
    BY <1>5 DEF Show, HasLine, Idle, TypeOK, filter
  <2>2. queued \in Nat /\ queued' \in Nat /\ PageLines \in Nat
    BY PipeTypes, PageAssumption DEF TypeOK
  <2>3. Flowing => Flowing'
    BY <1>1, <1>2, <1>3, <2>1 DEF Flowing
  <2>4. Asking => Asking'
    BY <1>1, <1>3, <2>1 DEF Asking
  <2>5. Held => Held'
    BY <1>1, <1>3, <2>1 DEF Held
  <2>6. ClearSent => ClearSent'
    BY <1>3, <2>1, <2>2 DEF ClearSent
  <2>7. Clearing => Clearing'
    BY <1>1, <1>3, <1>4, <2>1, <2>6 DEF Clearing
  <2>8. ClearUnderway' = ClearUnderway
    BY <2>1 DEF ClearUnderway
  <2>. QED BY <2>3, <2>4, <2>5, <2>7, <2>8 DEF Handshake
<1>6. CASE PipelineDrained /\ pipe = "drained" /\ ~inHolding /\ pipe' = "free"
           /\ UNCHANGED <<toCp, clearState, hist>>
  <2>1. queued' = queued
    BY <1>6 DEF PipelineDrained
  <2>2. Flowing => Flowing'
    BY <1>1, <1>2, <1>3, <1>6 DEF Flowing
  <2>3. Asking => Asking'
    BY <1>1, <1>3, <1>6, <2>1 DEF Asking
  <2>4. ~Held
    BY <1>6 DEF Held
  <2>5. ClearSent => ClearSent'
    BY <1>3, <1>6, <2>1 DEF ClearSent
  <2>6. Clearing => Clearing'
    BY <1>1, <1>3, <1>4, <1>6, <2>5 DEF Clearing
  <2>7. ClearUnderway' = ClearUnderway
    BY <1>6 DEF ClearUnderway
  <2>. QED BY <2>2, <2>3, <2>4, <2>6, <2>7 DEF Handshake
<1>7. CASE PipelineDrained /\ pipe = "drained" /\ inHolding /\ vmstate # "holding"
           /\ UNCHANGED <<toCp, clearState, hist>>
  <2>1. ~Flowing /\ ~Asking /\ ~Clearing
    BY <1>7 DEF Flowing, Asking, Clearing
  <2>2. Held'
    BY <1>1, <1>3, <1>7, <2>1 DEF Handshake, Held
  <2>3. ClearUnderway' = ClearUnderway /\ ~ClearUnderway
    BY <1>7, <2>1 DEF ClearUnderway, Handshake
  <2>. QED BY <2>2, <2>3 DEF Handshake
<1>8. CASE PipelineDrained /\ (pipe = "waiting" \/ (pipe = "drained" /\ inHolding))
           /\ vmstate = "holding" /\ pipe' = "free" /\ SendClearCmd
           /\ hist' = IF ClearUnderway THEN hist
                      ELSE [answered |-> TRUE, early |-> hist.early \/ hist.answered]
  <2>0. queued' = queued
    BY <1>8 DEF PipelineDrained
  <2>1. CASE ClearUnderway
    <3>1. UNCHANGED <<toCp, clearState, hist>>
      BY <1>8, <2>1 DEF SendClearCmd
    <3>2. ClearUnderway'
      BY <2>1, <3>1 DEF ClearUnderway
    <3>3. ClearSent => ClearSent'
      BY <1>3, <1>8, <2>0 DEF ClearSent
    <3>4. Clearing'
      BY <1>1, <1>3, <1>4, <1>8, <2>1, <3>1, <3>3 DEF Clearing, Handshake
    <3>. QED BY <3>2, <3>4 DEF Handshake
  <2>2. CASE ~ClearUnderway
    <3>1. ~hist.answered /\ hist'.answered
      BY <1>8, <2>2 DEF Calm
    <3>2. Held /\ AtRecordLoop
      BY <1>8, <2>2, <3>1 DEF Handshake, Flowing, Asking, Held, InStop, Stopped
    <3>3. Count(toCp', "clear") > 0 /\ ClearUnderway'
      BY <1>8, <2>2, SendKey DEF SendClearCmd, Keys, ClearUnderway
    <3>4. queued =< PageLines
      <4>1. queued + Count(fromCp, "line") =< cp.page
        BY <1>8 DEF Outstanding
      <4>2. cp.page \in 0 .. PageLines /\ queued \in Nat /\ Count(fromCp, "line") \in Nat
        BY CountIsNat DEF TypeOK, CpType
      <4>. QED BY <4>1, <4>2, PageAssumption
    <3>5. ClearSent'
      BY <1>3, <1>8, <2>0, <3>2, <3>4 DEF Held, ClearSent
    <3>6. Clearing'
      BY <1>1, <1>3, <1>8, <3>1, <3>2, <3>3, <3>5 DEF Held, Clearing
    <3>. QED BY <3>3, <3>6 DEF Handshake
  <2>. QED BY <2>1, <2>2
<1>. QED BY <1>5, <1>6, <1>7, <1>8 DEF Pipe, PipelineDrained

LEMMA HandshakeReads ==
    ASSUME TypeOK, OneClear, Calm, Calm', Handshake, AppendLine \/ ScreenCleared \/ VmStateArrived
    PROVE  Handshake'
<1>1. PICK r \in Records : Reads(r)
  BY DEF AppendLine, ScreenCleared, VmStateArrived, Records
<1>2. /\ fromCp # <<>> /\ fromCp' = Tail(fromCp) /\ fromCp[1] = r /\ AtRecordLoop
      /\ Len(fromCp) \in Nat \ {0} /\ Len(fromCp') = Len(fromCp) - 1
      /\ \A i \in 1 .. Len(fromCp) - 1 : fromCp'[i] = fromCp[i + 1]
  BY <1>1, TakeProperties DEF Reads, TypeOK, AtRecordLoop
<1>3. UNCHANGED <<cp, toCp, vmstate, inHolding, pipe, hist>>
  BY DEF AppendLine, ScreenCleared, VmStateArrived, filter
<1>4. \A k \in Nat \ {0} : FlowFrom(k + 1) => FlowFrom(k)'
  BY <1>2, <1>3, FlowTail
<1>5. FlowFrom(1) /\ r \notin Stopped => FlowFrom(1)'
  BY <1>2, <1>4, FlowSkips
<1>6. ~Asking
  BY <1>2 DEF Asking, AtRecordLoop, AtRecord
<1>7. Seen = vmstate
  BY <1>2 DEF Seen
<1>8. CASE AppendLine
  <2>1. r = "line" /\ UNCHANGED <<clearState, reader>>
    BY <1>1, <1>8 DEF AppendLine, Reads, filter
  <2>2. ~AtStop
    BY <1>2, <2>1 DEF AtStop
  <2>3. ~Held
    BY <2>2 DEF Held
  <2>4. ~Clearing
    BY <1>2, <2>1, <2>2 DEF Clearing, ClearSent, BeforeErased, Erased
  <2>5. Flowing /\ ~ClearUnderway
    BY <1>6, <2>3, <2>4 DEF Handshake
  <2>6. Flowing'
    BY <1>2, <1>3, <1>5, <2>1, <2>5 DEF Flowing, AtRecordLoop, Stopped
  <2>. QED BY <2>1, <2>5, <2>6 DEF Handshake, ClearUnderway
<1>9. CASE ScreenCleared
  <2>1. r = "erase" /\ UNCHANGED <<reader>> /\ clearState' = "cleared"
    BY <1>1, <1>9 DEF ScreenCleared, Reads, filter
  <2>2. ~AtStop
    BY <1>2, <2>1 DEF AtStop
  <2>3. ~Held /\ ~Flowing
    BY <1>2, <2>1, <2>2, FlowHead DEF Held, Flowing
  <2>4. Clearing /\ BeforeErased
    BY <1>6, <2>2, <2>3 DEF Handshake, Clearing, ClearSent
  <2>5. Erased(1)
    BY <1>2, <2>1, <2>4 DEF BeforeErased
  <2>6. FlowFrom(1)' /\ Len(fromCp') > 0 /\ fromCp'[1] = "running"
    <3>1. FlowFrom(1 + 1) /\ fromCp[2] = "running" /\ Len(fromCp) >= 2
      BY <1>2, <2>5 DEF Erased
    <3>. QED BY <1>2, <1>4, <3>1
  <2>7. Flowing'
    BY <1>2, <1>3, <2>1, <2>4, <2>6 DEF Flowing, AtRecordLoop, Clearing
  <2>. QED BY <2>1, <2>7 DEF Handshake, ClearUnderway
<1>10. CASE VmStateArrived
  <2>1. r \in CpStates /\ UNCHANGED queued
    BY <1>1, <1>10 DEF VmStateArrived, Reads
  <2>2. reader' = IF r = vmstate THEN AtRecord ELSE At(Reaction(r), r)
    BY <1>1, <1>10 DEF VmStateArrived, Reads
  <2>3. ClearUnderway' = ClearUnderway
    BY <1>10 DEF VmStateArrived, ClearUnderway
  <2>4. r # vmstate => reader'.at = Reaction(r) /\ reader'.new = r /\ ~AtRecordLoop' /\ Seen' = r
    BY <2>2 DEF At, AtRecordLoop, AtRecord, Seen, Reaction
  <2>5. r = vmstate => AtRecordLoop' /\ Seen' = vmstate
    BY <1>3, <2>2 DEF AtRecordLoop, Seen
  <2>6. r # "erase"
    BY <2>1 DEF CpStates, Stopped
  <2>7. CASE Flowing /\ ~ClearUnderway
    <3>1. CASE r \notin Stopped
      <4>1. FlowFrom(1)'
        BY <1>5, <2>7, <3>1 DEF Flowing
      <4>2. reader'.at = "update" \/ AtRecordLoop'
        BY <2>4, <2>5, <3>1 DEF Reaction, Stopped
      <4>3. AtRecordLoop' => vmstate' \notin Stopped
        BY <1>3, <2>4, <2>5, <3>1
      <4>4. Flowing'
        BY <1>3, <2>4, <2>5, <2>7, <3>1, <4>1, <4>2, <4>3 DEF Flowing
      <4>. QED BY <2>3, <2>7, <4>4 DEF Handshake
    <3>2. CASE r \in Stopped
      <4>1. vmstate \notin Stopped
        BY <1>2, <2>7, <3>2 DEF Flowing, Stopped
      <4>2. /\ r = "more"
            /\ \/ Len(fromCp) = 1 /\ cp.state = "more"
               \/ Len(fromCp) = 2 /\ fromCp[2] = "holding" /\ cp.state = "holding"
        BY <1>2, <2>7, <3>2, FlowHead DEF Flowing, Stopped
      <4>3. AtStop'
        <5>1. fromCp' \in Seq(Records)
          BY ReaderTypes, <1>10 DEF Reader, TypeOK
        <5>2. Len(fromCp') = 0 => fromCp' = <<>>
          BY <5>1, EmptySeq
        <5>3. Len(fromCp') = 1 /\ fromCp'[1] = "holding" => fromCp' = <<"holding">>
          <6> DEFINE t == <<"holding">>
          <6>1. t \in Seq(Records) /\ Len(t) = 1 /\ t[1] = "holding"
            BY DEF Records, CpStates, Stopped
          <6> HIDE DEF t
          <6>2. Len(fromCp') = 1 /\ fromCp'[1] = "holding" => fromCp' = t
            BY <5>1, <6>1, SeqEqual
          <6>. QED BY <6>2 DEF t
        <5>4. Seen' = "more" /\ cp'.state = cp.state
          BY <1>3, <2>4, <4>1, <4>2 DEF Stopped
        <5>5. CASE Len(fromCp) = 1 /\ cp.state = "more"
          BY <1>2, <5>2, <5>4, <5>5 DEF AtStop
        <5>6. CASE Len(fromCp) = 2 /\ fromCp[2] = "holding" /\ cp.state = "holding"
          <6>1. fromCp' = <<"holding">>
            <7>1. Len(fromCp') = 1 /\ 1 \in 1 .. Len(fromCp) - 1
              BY <1>2, <5>6
            <7>2. fromCp'[1] = fromCp[2]
              BY <1>2, <7>1
            <7>. QED BY <5>3, <5>6, <7>1, <7>2
          <6>. QED BY <5>4, <5>6, <6>1 DEF AtStop
        <5>. QED BY <4>2, <5>5, <5>6
      <4>4. Asking'
        BY <1>3, <2>4, <2>7, <4>1, <4>2, <4>3 DEF Asking, Flowing, Reaction, Stopped
      <4>. QED BY <2>3, <2>7, <4>4 DEF Handshake
    <3>. QED BY <3>1, <3>2
  <2>8. CASE Held /\ ~ClearUnderway
    <3>1. vmstate = "more" /\ fromCp = <<"holding">> /\ cp.state = "holding" /\ r = "holding"
      BY <1>2, <1>7, <2>8 DEF Held, AtStop
    <3>2. fromCp' = <<>>
      BY <1>2, <3>1
    <3>3. reader'.at = "update" /\ Seen' = "holding" /\ ~AtRecordLoop' /\ reader'.new = "holding"
      BY <2>4, <2>8, <3>1 DEF Reaction, Held
    <3>4. Held'
      BY <1>3, <2>8, <3>1, <3>2, <3>3 DEF Held, InStop, AtStop
    <3>. QED BY <2>3, <2>8, <3>4 DEF Handshake
  <2>9. CASE Clearing /\ ClearUnderway
    <3>1. r = "holding" /\ vmstate = "more"
      BY <1>2, <1>7, <2>6, <2>9 DEF Clearing, ClearSent, AtStop, BeforeErased, Erased
    <3>2. reader'.at = "clear" /\ Seen' = "holding" /\ ~AtRecordLoop' /\ reader'.new = "holding" /\ ~inHolding
      BY <2>4, <2>9, <3>1 DEF Reaction, Clearing
    <3>3. ClearSent => ClearSent'
      <4>1. fromCp = <<"holding">> /\ cp.state = "holding" => fromCp' = <<>>
        BY <1>2
      <4>. QED BY <1>2, <1>3, <2>1, <3>2, <4>1 DEF ClearSent, AtStop
    <3>4. BeforeErased => BeforeErased'
      <4>1. SUFFICES ASSUME Erased(2) PROVE Erased(1)'
        BY <1>2, <3>1 DEF BeforeErased, Erased
      <4>2. /\ Len(fromCp) >= 3 /\ fromCp[2] = "erase" /\ fromCp[3] = "running" /\ FlowFrom(2 + 1)
        BY <1>2, <4>1 DEF Erased
      <4>3. FlowFrom(2)'
        BY <1>4, <4>2
      <4>4. fromCp'[1] = "erase" /\ fromCp'[2] = "running"
        BY <1>2, <4>2
      <4>. QED BY <1>2, <4>2, <4>3, <4>4 DEF Erased
    <3>5. Clearing'
      BY <1>3, <2>9, <3>1, <3>2, <3>3, <3>4 DEF Clearing
    <3>. QED BY <2>3, <2>9, <3>5 DEF Handshake
  <2>. QED BY <1>6, <2>7, <2>8, <2>9 DEF Handshake
<1>. QED BY <1>8, <1>9, <1>10

LEMMA HandshakeReacts ==
    ASSUME TypeOK, OneClear, Calm, Calm', Handshake,
           HasBacklog \/ HoldVmOutput \/ ClearVmOutput \/ VmStateUpdated
    PROVE  Handshake'
<1>1. UNCHANGED <<cp, fromCp, pipe, queued>>
  BY DEF HasBacklog, HoldVmOutput, ClearVmOutput, VmStateUpdated
<1>2. ~AtRecordLoop /\ Seen = reader.new
  BY DEF HasBacklog, HoldVmOutput, ClearVmOutput, VmStateUpdated, AtRecordLoop, AtRecord, Seen
<1>3. \A k \in Nat : FlowFrom(k)' = FlowFrom(k)
  BY <1>1 DEF FlowFrom
<1>4. ASSUME Seen' = Seen
      PROVE  AtStop' = AtStop /\ BeforeErased' = BeforeErased
  BY <1>1, <1>3, <1>4 DEF AtStop, BeforeErased, Erased
<1>5. ASSUME NEW label \in {"hold", "clear", "update"}, reader' = At(label, reader.new)
      PROVE  reader'.at = label /\ reader'.new = reader.new /\ ~AtRecordLoop' /\ Seen' = Seen
  BY <1>2, <1>5 DEF At, AtRecordLoop, AtRecord, Seen
<1>6. CASE HasBacklog
  <2>1. UNCHANGED <<toCp, filter, hist>> /\ reader.at = "ask" /\ queued \in Nat
    BY <1>6 DEF HasBacklog, TypeOK
  <2>2. Asking /\ ~ClearUnderway
    BY <1>2, <2>1 DEF Handshake, Flowing, Held, InStop, Clearing
  <2>3. CASE Backlog
    <3>1. reader' = At("hold", reader.new)
      BY <1>6, <2>3 DEF HasBacklog
    <3>2. Asking'
      BY <1>1, <1>4, <1>5, <2>1, <2>2, <3>1 DEF Asking, filter
    <3>. QED BY <2>1, <2>2, <3>2 DEF Handshake, ClearUnderway, filter
  <2>4. CASE ~Backlog
    <3>1. reader' = At("clear", reader.new) /\ queued = 0
      BY <1>6, <2>1, <2>4 DEF HasBacklog, Backlog
    <3>2. Asking'
      BY <1>1, <1>4, <1>5, <2>1, <2>2, <3>1 DEF Asking, filter
    <3>. QED BY <2>1, <2>2, <3>2 DEF Handshake, ClearUnderway, filter
  <2>. QED BY <2>3, <2>4
<1>7. CASE HoldVmOutput
  <2>1. UNCHANGED <<vmstate, clearState, hist>> /\ reader.at = "hold" /\ inHolding'
    BY <1>7 DEF HoldVmOutput
  <2>2. Asking /\ ~ClearUnderway
    BY <1>2, <2>1 DEF Handshake, Flowing, Held, InStop, Clearing
  <2>3. reader' = At("update", reader.new)
    BY <1>7 DEF HoldVmOutput
  <2>4. Held'
    BY <1>4, <1>5, <2>1, <2>2, <2>3 DEF Asking, Held, InStop
  <2>. QED BY <2>1, <2>2, <2>4 DEF Handshake, ClearUnderway
<1>8. CASE ClearVmOutput
  <2>1. UNCHANGED <<vmstate, inHolding, hist>> /\ reader.at = "clear" /\ SendClearCmd
    BY <1>8 DEF ClearVmOutput
  <2>2. reader' = At("update", reader.new)
    BY <1>8 DEF ClearVmOutput
  <2>3. reader'.at = "update" /\ reader'.new = reader.new /\ ~AtRecordLoop' /\ Seen' = Seen
    BY <1>5, <2>2
  <2>4. CASE ClearUnderway
    <3>1. UNCHANGED <<toCp, clearState>>
      BY <2>1, <2>4 DEF SendClearCmd
    <3>2. Clearing /\ reader.new = "holding" /\ vmstate = "more" /\ ~inHolding
      BY <1>2, <2>1, <2>4 DEF Handshake, Clearing, InStop
    <3>3. ClearSent' = ClearSent
      BY <1>1, <1>4, <2>3 DEF ClearSent
    <3>4. Clearing'
      BY <1>1, <1>4, <2>1, <2>3, <3>1, <3>2, <3>3 DEF Clearing, InStop
    <3>. QED BY <2>4, <3>1, <3>4 DEF Handshake, ClearUnderway
  <2>5. CASE ~ClearUnderway
    <3>1. Asking
      BY <1>2, <2>1, <2>5 DEF Handshake, Flowing, Held, InStop
    <3>2. ClearUnderway' /\ Count(toCp', "clear") > 0
      BY <2>1, <2>5, SendKey DEF SendClearCmd, ClearUnderway, Keys
    <3>3. ClearSent'
      BY <1>1, <1>4, <2>1, <2>3, <3>1, PageAssumption DEF Asking, ClearSent
    <3>4. Clearing'
      BY <1>1, <2>1, <2>3, <3>1, <3>2, <3>3 DEF Clearing, InStop, Asking
    <3>. QED BY <3>2, <3>4 DEF Handshake
  <2>. QED BY <2>4, <2>5
<1>9. CASE VmStateUpdated
  <2>1. /\ UNCHANGED <<toCp, clearState>> /\ reader.at = "update"
        /\ vmstate' = reader.new /\ inHolding' = (inHolding /\ vmstate # "holding")
        /\ AtRecordLoop' /\ Seen' = Seen
    BY <1>2, <1>9 DEF VmStateUpdated, HoldingAfterUpdate, AtRecordLoop, Seen
  <2>2. ClearUnderway' = ClearUnderway
    BY <2>1 DEF ClearUnderway
  <2>3. hist'.answered = (hist.answered /\ reader.new # "holding")
    BY <1>9 DEF VmStateUpdated, TypeOK
  <2>4. ~Asking
    BY <2>1 DEF Asking
  <2>5. CASE Flowing /\ ~ClearUnderway
    <3>1. Flowing'
      BY <1>1, <1>2, <1>3, <2>1, <2>5 DEF Flowing
    <3>. QED BY <2>2, <2>5, <3>1 DEF Handshake
  <2>6. CASE Held /\ ~ClearUnderway
    <3>1. inHolding' /\ AtStop' /\ vmstate' \in Stopped
      BY <1>2, <1>4, <2>1, <2>6 DEF Held, InStop, Stopped
    <3>2. vmstate' = "holding" => ~hist'.answered
      BY <2>1, <2>3
    <3>3. Held'
      BY <2>1, <3>1, <3>2 DEF Held, InStop, Stopped
    <3>. QED BY <2>2, <2>6, <3>3 DEF Handshake
  <2>7. CASE Clearing /\ ClearUnderway
    <3>1. ~inHolding' /\ vmstate' \in Stopped
      BY <1>2, <2>1, <2>7 DEF Clearing, InStop, Stopped
    <3>2. ClearSent' = ClearSent
      BY <1>1, <1>4, <2>1 DEF ClearSent
    <3>3. Clearing'
      BY <1>1, <1>4, <2>1, <2>7, <3>1, <3>2 DEF Clearing, InStop, Stopped
    <3>. QED BY <2>2, <2>7, <3>3 DEF Handshake
  <2>. QED BY <2>4, <2>5, <2>6, <2>7 DEF Handshake
<1>. QED BY <1>6, <1>7, <1>8, <1>9

-----------------------------------------------------------------------------
(* The lines that are under way *)

LEMMA OutstandingStep ==
    ASSUME TypeOK, TypeOK', OneClear, Calm, Handshake, Outstanding, Next
    PROVE  Outstanding'
<1> DEFINE n == Count(fromCp, "line")
<1>1. /\ n \in Nat /\ Count(fromCp', "line") \in Nat
      /\ queued \in Nat /\ cp \in CpType /\ cp.page \in 0 .. PageLines /\ PageLines \in Nat
  BY CountIsNat, PageAssumption DEF TypeOK, CpType
<1>2. CASE Cp /\ CpLine
  <2>1. Count(fromCp', "line") = n + 1
    BY <1>2, SaysRecord DEF CpLine, Records
  <2>2. cp'.page = cp.page + 1
    BY <1>1, <1>2 DEF CpLine, CpType
  <2>. QED BY <1>1, <1>2, <2>1, <2>2 DEF Outstanding, Cp
<1>3. CASE Cp /\ CpState
  <2>1. cp'.page = cp.page /\ cp'.state \in CpStates
    BY <1>1, <1>3 DEF CpState, CpType, TypeOK
  <2>2. Count(fromCp', "line") = n
    BY <1>3, <2>1, SaysRecord DEF CpState, Records, CpStates, Stopped
  <2>. QED BY <1>1, <1>3, <2>1, <2>2 DEF Outstanding, Cp
<1>4. CASE Cp /\ CpKey /\ Head(toCp) = "clear"
  <2>1. Count(toCp, "clear") > 0
    BY <1>4, TakeKey DEF CpKey
  <2>2. ClearSent
    BY <2>1, ClearIsAsked DEF Handshake, Clearing
  <2>3. n = 0
    <3>1. <<"holding">> \in Seq(Records)
      BY DEF Records, CpStates, Stopped
    <3>2. \A i \in 1 .. Len(fromCp) : fromCp[i] # "line"
      BY <2>2, <3>1 DEF ClearSent, AtStop
    <3>. QED BY <3>2, CountIsNat DEF TypeOK
  <2>4. cp'.page = 0 /\ Says(<<"erase", cp'.state>>) /\ cp'.state \in CpStates
    BY <1>1, <1>4 DEF CpKey, CpType, TypeOK
  <2>5. Count(fromCp', "line") = 0
    BY <2>3, <2>4, SaysErased
  <2>6. UNCHANGED <<queued, pipe>>
    BY <1>4 DEF Cp
  <2>. QED BY <1>1, <2>2, <2>4, <2>5, <2>6 DEF ClearSent, Outstanding
<1>5. CASE Cp /\ CpKey /\ Head(toCp) # "clear"
  <2>1. cp'.page = cp.page
    BY <1>1, <1>5 DEF CpKey, CpType
  <2>2. Says(<<"holding">>) \/ Says(<<"running">>) \/ fromCp' = fromCp
    BY <1>5 DEF CpKey
  <2>3. Count(fromCp', "line") = n
    BY <2>2, SaysRecord DEF Records, CpStates, Stopped
  <2>. QED BY <1>1, <1>5, <2>1, <2>3 DEF Outstanding, Cp
<1>6. CASE AppendLine
  <2>1. n = Count(fromCp', "line") + 1
    BY <1>6, TakeRecord DEF AppendLine
  <2>. QED BY <1>1, <1>6, <2>1 DEF AppendLine, Outstanding
<1>7. CASE ScreenCleared \/ VmStateArrived
  <2>1. PICK r \in Records \ {"line"} : Reads(r)
    BY <1>7 DEF ScreenCleared, VmStateArrived, Records, CpStates, Stopped
  <2>2. n = Count(fromCp', "line")
    BY <2>1, TakeRecord
  <2>3. UNCHANGED <<cp, queued, pipe>>
    BY <1>7 DEF ScreenCleared, VmStateArrived
  <2>. QED BY <1>1, <2>2, <2>3 DEF Outstanding
<1>8. CASE Show
  <2>1. queued' = queued - 1 /\ UNCHANGED <<cp, fromCp>> /\ (pipe' # "free" => queued' = 0)
    BY <1>1, <1>8 DEF Show
  <2>. QED BY <1>1, <2>1 DEF Outstanding
<1>9. CASE Idle
  BY <1>1, <1>9 DEF Idle, Outstanding
<1>10. CASE PipelineDrained
  <2>1. UNCHANGED <<cp, fromCp, queued>> /\ (pipe' # "free" => pipe # "free")
    BY <1>10 DEF PipelineDrained
  <2>. QED BY <1>1, <2>1 DEF Outstanding
<1>11. CASE HasBacklog \/ HoldVmOutput \/ ClearVmOutput \/ VmStateUpdated
  BY <1>11 DEF HasBacklog, HoldVmOutput, ClearVmOutput, VmStateUpdated, Outstanding
<1>12. CASE SendInput
  <2>1. cp'.page = cp.page
    BY <1>1, <1>12 DEF SendInput, CpType
  <2>. QED BY <1>12, <2>1 DEF SendInput, Outstanding
<1>. QED BY <1>2, <1>3, <1>4, <1>5, <1>6, <1>7, <1>8, <1>9, <1>10, <1>11, <1>12
       DEF Next, Cp, Reader, Pipe

-----------------------------------------------------------------------------
(* The theorems *)

LEMMA InitInv == Init => IInv
<1> SUFFICES ASSUME Init PROVE IInv
  OBVIOUS
<1> USE DEF Init
<1>1. TypeOK
  <2>1. cp \in CpType
    BY PageAssumption DEF CpType, CpStates
  <2>2. toCp \in Seq(Keys) /\ fromCp \in Seq(Records)
    BY EmptySeq
  <2>3. hist \in [answered : BOOLEAN, early : BOOLEAN]
    OBVIOUS
  <2>. QED BY <2>1, <2>2, <2>3 DEF TypeOK, ClearStates
<1>2. \A y : Count(<<>>, y) = 0
  BY EmptyCount
<1>3. OneClear
  BY <1>2 DEF OneClear, ClearUnderway
<1>4. Handshake
  BY DEF Handshake, ClearUnderway, Flowing, FlowFrom, AtRecordLoop, Stopped
<1>5. Outstanding
  BY <1>2, PageAssumption DEF Outstanding
<1>. QED BY <1>1, <1>3, <1>4, <1>5 DEF IInv

LEMMA StepInv == IInv /\ [Next]_vars => IInv'
<1> SUFFICES ASSUME IInv, [Next]_vars PROVE IInv'
  OBVIOUS
<1>1. CASE UNCHANGED vars
  <2>1. \A k \in Nat : FlowFrom(k)' = FlowFrom(k)
    BY <1>1 DEF vars, FlowFrom
  <2>2. Erased(1)' = Erased(1) /\ Erased(2)' = Erased(2)
    BY <1>1, <2>1 DEF vars, Erased
  <2>3. TypeOK' /\ OneClear'
    BY <1>1 DEF IInv, vars, filter, TypeOK, OneClear, ClearUnderway
  <2>4. Handshake' = Handshake
    BY <1>1, HandshakeKeeps, <2>1, <2>2
       DEF vars, filter, Handshake, ClearUnderway, Flowing, Asking, Held, Clearing, ClearSent,
           BeforeErased, AtStop, InStop, Seen, AtRecordLoop
  <2>5. Calm' = Calm /\ Outstanding' = Outstanding
    BY <1>1 DEF vars, Calm, Outstanding
  <2>. QED BY <2>3, <2>4, <2>5 DEF IInv
<1>2. CASE Next
  <2>1. TypeOK /\ OneClear
    BY DEF IInv
  <2>2. TypeOK'
    BY <1>2, <2>1, CpTypes, ReaderTypes, PipeTypes DEF Next
  <2>3. OneClear'
    BY <1>2, <2>1, OneClearCp, OneClearFilter DEF Next
  <2>4. ASSUME Calm' PROVE Handshake' /\ Outstanding'
    <3>1. Calm /\ Handshake /\ Outstanding
      BY <1>2, <2>1, <2>4, CalmBefore DEF IInv
    <3>2. Outstanding'
      BY <1>2, <2>1, <2>2, <3>1, OutstandingStep
    <3>3. Handshake'
      BY <1>2, <2>1, <2>4, <3>1, HandshakeCp, HandshakePipe, HandshakeReads, HandshakeReacts
         DEF Next, Reader
    <3>. QED BY <3>2, <3>3
  <2>. QED BY <2>2, <2>3, <2>4 DEF IInv
<1>. QED BY <1>1, <1>2

LEMMA Invariant == Spec => []IInv
BY InitInv, StepInv, PTL DEF Spec

\* The state of the handshake says exactly whether a CLEAR or the erased screen
\* it leads to is under way, and there is never more than one: sendClearCmd()
\* and the two places of the filter that call it, for any page and any input.
THEOREM ClearsAreSingle == Spec => []OneClear
<1>1. IInv => OneClear
  BY DEF IInv
<1>. QED BY <1>1, Invariant, PTL

\* No more than two pages of lines are ever on their way to the console, however
\* long CP writes, as long as CP does not lock the screen by itself and no
\* HOLDING was answered twice: the flow regulation of vmStateArrived(),
\* hasBacklog() and pipelineDrained().
THEOREM BacklogIsBounded == Spec => []BacklogBounded
<1>1. IInv => BacklogBounded
  <2> SUFFICES ASSUME IInv, Calm
               PROVE  queued + Count(fromCp, "line") =< 2 * PageLines
    BY DEF BacklogBounded, Calm
  <2>1. queued \in Nat /\ Count(fromCp, "line") \in Nat /\ cp.page \in 0 .. PageLines /\ PageLines \in Nat
    BY CountIsNat, PageAssumption DEF IInv, TypeOK, CpType
  <2>2. queued + Count(fromCp, "line") =< cp.page + PageLines
    BY DEF IInv, Outstanding
  <2>. QED BY <2>1, <2>2
<1>. QED BY <1>1, Invariant, PTL
=============================================================================
