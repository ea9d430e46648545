-------------------------- MODULE LineBuffer_proofs --------------------------
(***************************************************************************)
(* Proofs about the visible frame of LineBuffer.java, for every page of at *)
(* least four rows and every buffer that holds a page.                     *)
(***************************************************************************)
EXTENDS LineBuffer, SequenceTheorems, FiniteSetTheorems, TLAPS

-----------------------------------------------------------------------------
(* Least and greatest numbers *)

LEMMA LeastNumber ==
    ASSUME NEW S, S \subseteq Nat, S # {}
    PROVE  Min(S) \in S /\ \A x \in S : Min(S) =< x
<1> DEFINE less == {p \in Nat \X Nat : p[1] < p[2]}
<1>0. IsWellFoundedOn(less, Nat)
  BY NatLessThanWellFounded DEF OpToRel
<1> HIDE DEF less
<1>1. PICK m \in S : \A x \in S : ~(<<x, m>> \in less)
  BY <1>0, WFMin
<1>2. \A x \in S : m =< x
  <2> SUFFICES ASSUME NEW x \in S PROVE m =< x
    OBVIOUS
  <2>1. x < m => <<x, m>> \in less
    BY DEF less
  <2>. QED BY <1>1, <2>1
<1>. QED BY <1>2 DEF Min

LEMMA GreatestNumber ==
    ASSUME NEW n \in Nat, NEW S, S \subseteq 0 .. n, S # {}
    PROVE  Max(S) \in S /\ \A x \in S : x =< Max(S)
<1> DEFINE R == {n - x : x \in S}
<1>1. R \subseteq Nat /\ R # {}
  <2>1. \A x \in S : x \in Int /\ 0 =< x /\ x =< n
    OBVIOUS
  <2>2. \A x \in S : n - x \in Nat
    BY <2>1
  <2>. QED BY <2>2
<1>2. PICK m \in R : \A y \in R : m =< y
  BY <1>1, LeastNumber
<1>3. PICK k \in S : m = n - k
  OBVIOUS
<1>4. \A x \in S : x =< k
  <2> SUFFICES ASSUME NEW x \in S PROVE x =< k
    OBVIOUS
  <2>1. n - k =< n - x
    BY <1>2, <1>3
  <2>. QED BY <2>1
<1>. QED BY <1>4 DEF Max

-----------------------------------------------------------------------------
(* Rows *)

LEMMA SumOfOne ==
    ASSUME NEW f, NEW k, f[k] \in Int
    PROVE  FoldFunctionOnSet(+, 0, f, {k}) = f[k]
<1> DEFINE pick(s) == CHOOSE x \in s : TRUE
           body(it) == [s \in SUBSET {k} |->
                          IF s = {} THEN 0 ELSE f[pick(s)] + it[s \ {pick(s)}]]
           iter == CHOOSE it : it = body(it)
           sum == [s \in SUBSET {k} |-> IF s = {} THEN 0 ELSE f[k]]
<1>1. FoldFunctionOnSet(+, 0, f, {k}) = iter[{k}]
  BY DEF FoldFunctionOnSet, MapThenFoldSet
<1>2. pick({k}) = k
  OBVIOUS
<1>3. \A s \in SUBSET {k} : s = {} \/ s = {k}
  OBVIOUS
<1>4. body(sum) = sum
  <2>1. ASSUME NEW s \in SUBSET {k} PROVE body(sum)[s] = sum[s]
    <3>1. CASE s = {}
      BY <3>1
    <3>2. CASE s = {k}
      <4>1. s \ {pick(s)} = {}
        BY <1>2, <3>2
      <4>2. body(sum)[s] = f[k] + sum[{}]
        BY <1>2, <3>2, <4>1
      <4>. QED BY <3>2, <4>2
    <3>. QED BY <1>3, <3>1, <3>2
  <2>. QED BY <2>1
<1>5. iter = body(iter)
  BY <1>4, Zenon
<1> HIDE DEF iter
<1>6. iter[{k}] = f[k] + iter[{}]
  <2>1. iter[{k}] = body(iter)[{k}]
    BY <1>5
  <2>2. body(iter)[{k}] = f[pick({k})] + iter[{k} \ {pick({k})}]
    OBVIOUS
  <2>3. {k} \ {pick({k})} = {}
    BY <1>2
  <2>. QED BY <1>2, <2>1, <2>2, <2>3
<1>7. iter[{}] = 0
  BY <1>5
<1>8. f[k] + 0 = f[k]
  OBVIOUS
<1>. QED BY <1>1, <1>6, <1>7, <1>8 DEF iter

LEMMA LinesHaveRows ==
    ASSUME NEW ls \in Seq(Line), NEW k \in 0 .. Len(ls) - 1
    PROVE  RowsIn(ls, k, k) = ls[k + 1].rows /\ Fits(ls, k, k)
<1> DEFINE rows == [i \in DOMAIN ls |-> ls[i].rows]
<1>1. k \in Int /\ k + 1 \in 1 .. Len(ls) /\ k + 1 \in DOMAIN ls
  BY LenProperties
<1>2. ls[k + 1] \in Line
  BY <1>1, ElementOfSeq
<1>3. ls[k + 1].rows \in Int /\ ls[k + 1].rows =< RowsInPage
  BY <1>2, GeometryAssumption DEF Line
<1>4. k + 1 .. k + 1 = {k + 1}
  BY <1>1
<1>5. rows[k + 1] = ls[k + 1].rows
  BY <1>1
<1> HIDE DEF rows
<1>6. FoldFunctionOnSet(+, 0, rows, {k + 1}) = ls[k + 1].rows
  BY <1>3, <1>5, SumOfOne
<1>7. RowsIn(ls, k, k) = FoldFunctionOnSet(+, 0, rows, {k + 1})
  BY <1>4 DEF RowsIn, rows
<1>. QED BY <1>3, <1>6, <1>7 DEF Fits

\* Rows do not depend on the attributes.
LEMMA RowsWithoutFlags ==
    ASSUME NEW ls, NEW ms, DOMAIN ls = DOMAIN ms,
           \A i \in DOMAIN ls : ls[i].rows = ms[i].rows,
           NEW first, NEW last
    PROVE  RowsIn(ls, first, last) = RowsIn(ms, first, last)
<1>1. [i \in DOMAIN ls |-> ls[i].rows] = [i \in DOMAIN ms |-> ms[i].rows]
  OBVIOUS
<1>. QED BY <1>1 DEF RowsIn

-----------------------------------------------------------------------------
(* What recomputeVisibleFrame() returns *)

Target(ls, last) == IF last < 0 THEN 0 ELSE IF last > Len(ls) - 1 THEN Len(ls) - 1 ELSE last

InBuffer(ls, fr) ==
    /\ fr.last \in 0 .. Len(ls) - 1 /\ fr.count \in Nat \ {0} /\ First(fr) \in 0 .. fr.last
    /\ fr.rows = RowsIn(ls, First(fr), fr.last)
    /\ Fits(ls, First(fr), fr.last)

\* As high as it can be above the line asked for.
FilledUpwards(ls, fr, t) ==
    fr.last = t /\ \A f \in 0 .. t : Fits(ls, f, t) => First(fr) =< f

AtTop(ls, fr, t) == First(fr) = 0 /\ (fr.last >= t \/ Fits(ls, 1, t))

LEMMA FrameOfProps ==
    ASSUME NEW ls, NEW first \in Nat, NEW last \in Nat, first =< last
    PROVE  LET fr == FrameOf(ls, first, last)
           IN  /\ fr.last = last /\ fr.count \in Nat \ {0} /\ First(fr) = first
               /\ fr.rows = RowsIn(ls, first, last)
  BY DEF FrameOf, First

LEMMA TargetIsClamp ==
    ASSUME NEW n \in Nat \ {0}, NEW last \in Int, NEW ls, Len(ls) = n
    PROVE  /\ Max({0, Min({last, Len(ls) - 1})}) = Target(ls, last)
           /\ Target(ls, last) \in 0 .. n - 1
<1> DEFINE m == IF last =< n - 1 THEN last ELSE n - 1
<1>1. Min({last, n - 1}) = m
  BY DEF Min
<1>2. Max({0, m}) = IF m < 0 THEN 0 ELSE m
  BY DEF Max
<1>3. Target(ls, last) = IF m < 0 THEN 0 ELSE m
  BY DEF Target
<1>4. (IF m < 0 THEN 0 ELSE m) \in 0 .. n - 1
  OBVIOUS
<1> HIDE DEF m
<1>. QED BY <1>1, <1>2, <1>3, <1>4

LEMMA RecomputeProps ==
    ASSUME NEW ls \in Seq(Line), Len(ls) >= 1, NEW last \in Int
    PROVE  LET fr == RecomputeVisibleFrame(ls, last)
               t == Target(ls, last)
           IN  /\ t \in 0 .. Len(ls) - 1
               /\ InBuffer(ls, fr)
               /\ FilledUpwards(ls, fr, t) \/ AtTop(ls, fr, t)
<1> DEFINE fr == RecomputeVisibleFrame(ls, last)
           t == Target(ls, last)
           fits == {f \in 0 .. t : Fits(ls, f, t)}
           down == {l \in 0 .. Len(ls) - 1 : Fits(ls, 0, l)}
           a == Min(fits)
           z == Max(down)
<1>0. Len(ls) \in Nat \ {0}
  BY LenProperties
<1>1. t \in 0 .. Len(ls) - 1 /\ Max({0, Min({last, Len(ls) - 1})}) = t
  BY <1>0, TargetIsClamp
<1> HIDE DEF t
<1>2. t \in fits /\ 0 \in down
  BY <1>0, <1>1, LinesHaveRows
<1>3. a \in fits /\ \A f \in fits : a =< f
  <2>1. fits \subseteq Nat /\ fits # {}
    BY <1>2
  <2> HIDE DEF fits
  <2>. QED BY <2>1, LeastNumber
<1>4. z \in down /\ \A l \in down : l =< z
  <2>1. down \subseteq 0 .. Len(ls) - 1 /\ down # {} /\ Len(ls) - 1 \in Nat
    BY <1>0, <1>2
  <2> HIDE DEF down
  <2>. QED BY <2>1, GreatestNumber
<1> HIDE DEF a, z
<1>5. a \in 0 .. t /\ Fits(ls, a, t) /\ \A f \in 0 .. t : Fits(ls, f, t) => a =< f
  BY <1>3
<1>6. z \in 0 .. Len(ls) - 1 /\ Fits(ls, 0, z) /\ \A l \in 0 .. Len(ls) - 1 : Fits(ls, 0, l) => l =< z
  BY <1>4
<1> HIDE DEF fits, down
<1>7. Upwards(ls, t) = FrameOf(ls, a, t) /\ FromTop(ls) = FrameOf(ls, 0, z)
  BY DEF Upwards, FromTop, a, z, fits, down
<1>8. First(Upwards(ls, t)) = a
  BY <1>1, <1>5, <1>7, FrameOfProps
<1>9. fr = IF a - 1 > 0 THEN FrameOf(ls, a, t) ELSE FrameOf(ls, 0, z)
  BY <1>1, <1>7, <1>8 DEF RecomputeVisibleFrame
<1> HIDE DEF fr
<1>10. CASE a - 1 > 0
  <2>1. /\ fr.last = t /\ fr.count \in Nat \ {0} /\ First(fr) = a
        /\ fr.rows = RowsIn(ls, a, t)
    BY <1>1, <1>5, <1>9, <1>10, FrameOfProps
  <2>2. InBuffer(ls, fr) /\ FilledUpwards(ls, fr, t)
    BY <1>1, <1>5, <2>1 DEF InBuffer, FilledUpwards
  <2>. QED BY <1>1, <2>2 DEF fr, t
<1>11. CASE ~(a - 1 > 0)
  <2>1. /\ fr.last = z /\ fr.count \in Nat \ {0} /\ First(fr) = 0
        /\ fr.rows = RowsIn(ls, 0, z)
    BY <1>6, <1>9, <1>11, FrameOfProps
  <2>2. InBuffer(ls, fr)
    BY <1>6, <2>1 DEF InBuffer
  <2>3. a = 0 \/ a = 1
    BY <1>5, <1>11
  <2>4. AtTop(ls, fr, t)
    BY <1>1, <1>5, <1>6, <2>1, <2>3 DEF AtTop
  <2>. QED BY <1>1, <2>2, <2>4 DEF fr, t
<1>. QED BY <1>10, <1>11

-----------------------------------------------------------------------------
(* The invariant *)

LinesOK == lines \in Seq(Line) /\ Len(lines) \in 1 .. MaxSize
IInv == LinesOK /\ InBuffer(lines, frame)

LEMMA InvImpliesFrameOK == IInv => FrameOK
<1> SUFFICES ASSUME IInv PROVE FrameOK
  OBVIOUS
<1>1. Len(lines) \in Nat
  BY LenProperties DEF IInv, LinesOK
<1>. QED BY <1>1 DEF IInv, LinesOK, InBuffer, FrameOK, Fits

LEMMA InitInv == Init => IInv
<1> SUFFICES ASSUME Init PROVE IInv
  OBVIOUS
<1> DEFINE first == [rows |-> 1, flag |-> FScreenBg]
<1>1. first \in Line
  BY GeometryAssumption DEF Line, Flags
<1>2. lines = <<first>> /\ lines \in Seq(Line) /\ Len(lines) = 1
  BY <1>1 DEF Init
<1>3. RowsIn(lines, 0, 0) = 1 /\ Fits(lines, 0, 0)
  <2>1. 0 \in 0 .. Len(lines) - 1 /\ lines[0 + 1].rows = 1
    BY <1>2
  <2>. QED BY <1>2, <2>1, LinesHaveRows
<1>4. LinesOK
  BY <1>2, GeometryAssumption DEF LinesOK
<1>5. frame.last = 0 /\ frame.count = 1 /\ frame.rows = 1 /\ First(frame) = 0
  BY DEF Init, First
<1>6. InBuffer(lines, frame)
  BY <1>2, <1>3, <1>5 DEF InBuffer
<1>. QED BY <1>4, <1>6 DEF IInv

\* The buffer stays in its bounds: a full one drops its oldest line.
LEMMA AppendKeepsLines ==
    ASSUME LinesOK, NEW line \in Line, AppendLine(line)
    PROVE  LinesOK'
<1> DEFINE kept == IF Len(lines) >= MaxSize THEN Tail(lines) ELSE lines
<1>1. lines \in Seq(Line) /\ Len(lines) \in Nat /\ Len(lines) \in 1 .. MaxSize /\ lines # <<>>
  BY LenProperties, EmptySeq DEF LinesOK
<1>2. kept \in Seq(Line) /\ Len(kept) \in 0 .. MaxSize - 1
  <2>1. CASE Len(lines) >= MaxSize
    <3>1. kept = Tail(lines)
      BY <2>1
    <3>2. Tail(lines) \in Seq(Line) /\ Len(Tail(lines)) = Len(lines) - 1
      BY <1>1, HeadTailProperties
    <3>3. Len(lines) - 1 \in 0 .. MaxSize - 1
      <4> DEFINE n == Len(lines)
      <4>1. n \in 1 .. MaxSize /\ MaxSize \in Nat
        BY <1>1, GeometryAssumption
      <4> HIDE DEF n
      <4>2. n - 1 \in 0 .. MaxSize - 1
        BY <4>1
      <4>. QED BY <4>2 DEF n
    <3> HIDE DEF kept
    <3>. QED BY <3>1, <3>2, <3>3
  <2>2. CASE ~(Len(lines) >= MaxSize)
    BY <1>1, <2>2, GeometryAssumption
  <2>. QED BY <2>1, <2>2
<1> HIDE DEF kept
<1>3. Append(kept, line) \in Seq(Line) /\ Len(Append(kept, line)) = Len(kept) + 1
  BY <1>2, AppendProperties
<1>4. lines' = Append(kept, line)
  BY DEF AppendLine, kept
<1>. QED BY <1>2, <1>3, <1>4, GeometryAssumption DEF LinesOK

LEMMA FlagsKeepRows ==
    ASSUME LinesOK, UpdateLastLineFlags
    PROVE  /\ LinesOK' /\ Len(lines') = Len(lines)
           /\ \A first, last : RowsIn(lines', first, last) = RowsIn(lines, first, last)
<1>1. /\ lines \in Seq(Line) /\ Len(lines) \in Nat /\ DOMAIN lines = 1 .. Len(lines)
      /\ \A i \in 1 .. Len(lines) : lines[i] \in Line
  BY LenProperties, ElementOfSeq DEF LinesOK
<1> DEFINE new(i) == IF i > 1 /\ i > Len(lines) - RowsInPage /\ lines[i].flag = FScreenBg
                       THEN [lines[i] EXCEPT !.flag = HostOutput]
                       ELSE lines[i]
<1>2. \A i \in 1 .. Len(lines) : new(i) \in Line /\ new(i).rows = lines[i].rows
  BY <1>1 DEF Line, Flags
<1>3. lines' = [i \in 1 .. Len(lines) |-> new(i)]
  BY <1>1 DEF UpdateLastLineFlags
<1> HIDE DEF new
<1>4. lines' \in Seq(Line)
  BY <1>1, <1>2, <1>3, IsASeq
<1>5. DOMAIN lines' = 1 .. Len(lines) /\ Len(lines') = Len(lines)
  BY <1>1, <1>3, <1>4, LenProperties
<1>6. \A i \in DOMAIN lines' : lines'[i].rows = lines[i].rows
  BY <1>2, <1>3, <1>5
<1>7. \A first, last : RowsIn(lines', first, last) = RowsIn(lines, first, last)
  BY <1>1, <1>5, <1>6, RowsWithoutFlags
<1>. QED BY <1>4, <1>5, <1>7 DEF LinesOK

\* What each operation asks recomputeVisibleFrame() for.
LEMMA PageProps ==
    ASSUME IInv, NEW last \in Int, PageTo(last)
    PROVE  /\ IInv' /\ lines' = lines
           /\ Target(lines, last) \in 0 .. Len(lines) - 1
           /\ \/ FilledUpwards(lines, frame', Target(lines, last))
              \/ AtTop(lines, frame', Target(lines, last))
  BY RecomputeProps DEF PageTo, IInv, LinesOK

LEMMA OutputProps ==
    ASSUME IInv, NEW line \in Line, AppendLine(line)
    PROVE  /\ IInv'
           /\ LET t == Target(lines', Bottom(lines'))
              IN  /\ t \in 0 .. Len(lines') - 1
                  /\ FilledUpwards(lines', frame', t) \/ AtTop(lines', frame', t)
<1>1. LinesOK'
  BY AppendKeepsLines DEF IInv
<1>2. lines' \in Seq(Line) /\ Len(lines') >= 1 /\ Bottom(lines') \in Int
  BY <1>1, GeometryAssumption DEF LinesOK, Bottom
<1>3. frame' = RecomputeVisibleFrame(lines', Bottom(lines'))
  BY DEF AppendLine
<1>. QED BY <1>1, <1>2, <1>3, RecomputeProps DEF IInv

LEMMA NextPageIsBehind ==
    ASSUME IInv
    PROVE  /\ LastOfNextPage \in frame.last .. Len(lines) - 1
           /\ \/ LastOfNextPage = frame.last
              \/ Fits(lines, frame.last + 1, LastOfNextPage)
<1> DEFINE S == {l \in frame.last + 1 .. Len(lines) - 1 : Fits(lines, frame.last + 1, l)}
<1>1. Len(lines) \in Nat /\ frame.last \in 0 .. Len(lines) - 1 /\ Len(lines) - 1 \in Nat
  BY LenProperties DEF IInv, LinesOK, InBuffer
<1>2. {frame.last} \cup S \subseteq 0 .. Len(lines) - 1 /\ {frame.last} \cup S # {}
  BY <1>1
<1>3. LastOfNextPage = Max({frame.last} \cup S)
  BY DEF LastOfNextPage
<1>4. LastOfNextPage \in {frame.last} \cup S
  <2> HIDE DEF S
  <2>. QED BY <1>1, <1>2, <1>3, GreatestNumber
<1>. QED BY <1>1, <1>4

LEMMA PageTargets ==
    ASSUME IInv
    PROVE  /\ LastOfNextPage \in Int /\ frame.last - frame.count \in Int
           /\ Bottom(lines) \in Int /\ 0 \in Int
<1>1. Len(lines) \in Nat /\ frame.last \in Int /\ frame.count \in Int
  BY LenProperties DEF IInv, LinesOK, InBuffer
<1>. QED BY <1>1, NextPageIsBehind DEF Bottom

LEMMA InvStep == IInv /\ [Next]_vars => IInv'
<1> SUFFICES ASSUME IInv, [Next]_vars PROVE IInv'
  OBVIOUS
<1>1. CASE Output
  BY <1>1, OutputProps DEF Output
<1>2. CASE ClearUplines
  <2> DEFINE young == lines[Len(lines)]
  <2>1. lines \in Seq(Line) /\ Len(lines) \in 1 .. Len(lines)
    BY LenProperties DEF IInv, LinesOK
  <2>2. young \in Line
    BY <2>1, ElementOfSeq
  <2>3. lines' = <<young>>
    BY <1>2 DEF ClearUplines
  <2> HIDE DEF young
  <2>4. lines' \in Seq(Line) /\ Len(lines') = 1
    BY <2>2, <2>3
  <2>5. LinesOK'
    BY <2>4, GeometryAssumption DEF LinesOK
  <2>6. frame' = RecomputeVisibleFrame(lines', 0)
    BY <1>2 DEF ClearUplines, FrameAfterClear
  <2>7. InBuffer(lines', frame')
    BY <2>4, <2>6, RecomputeProps
  <2>. QED BY <2>5, <2>7 DEF IInv
<1>3. CASE Page
  BY <1>3, PageProps, PageTargets
     DEF Page, PageTowardsYoungest, PageTowardsOldest, PageToYoungest, PageToOldest
<1>4. CASE UpdateLastLineFlags
  <2>1. /\ LinesOK' /\ Len(lines') = Len(lines) /\ frame' = frame
        /\ \A first, last : RowsIn(lines', first, last) = RowsIn(lines, first, last)
    BY <1>4, FlagsKeepRows DEF IInv, UpdateLastLineFlags
  <2>. QED BY <2>1 DEF IInv, InBuffer, Fits
<1>5. CASE UNCHANGED vars
  BY <1>5 DEF vars, IInv, LinesOK, InBuffer
<1>. QED BY <1>1, <1>2, <1>3, <1>4, <1>5 DEF Next

LEMMA FrameInvariant == Spec => []IInv
  BY InitInv, InvStep, PTL DEF Spec

\* Whatever is appended, cleared or paged to, the frame is a run of lines of
\* the buffer that fits into the page, and its row count is right.
THEOREM FrameIsOK == Spec => []FrameOK
  BY FrameInvariant, InvImpliesFrameOK, PTL

-----------------------------------------------------------------------------
(* Where the frame goes *)

LEMMA YoungestStep ==
    ASSUME IInv, Output \/ PageToYoungest
    PROVE  frame'.last = Len(lines') - 1 \/ FellToTop(Len(lines') - 1)
<1> DEFINE t == Target(lines', Bottom(lines'))
<1>1. /\ IInv' /\ t \in 0 .. Len(lines') - 1
      /\ FilledUpwards(lines', frame', t) \/ AtTop(lines', frame', t)
  BY OutputProps, PageProps, PageTargets DEF Output, PageToYoungest, Bottom
<1>2. Len(lines') \in Nat /\ Len(lines') >= 1 /\ frame'.last \in 0 .. Len(lines') - 1
  BY <1>1, LenProperties DEF IInv, LinesOK, InBuffer
<1>3. t = Len(lines') - 1
  BY <1>2 DEF Target, Bottom
<1>. QED BY <1>1, <1>2, <1>3 DEF FilledUpwards, AtTop, FellToTop

\* New output and a jump to the bottom show the youngest line, or the frame
\* has fallen to the top of a buffer whose other lines fit into a page.
THEOREM YoungestIsShown == Spec => YoungestOrTop
<1>1. IInv /\ [Next]_vars =>
        [Output \/ PageToYoungest
           => frame'.last = Len(lines') - 1 \/ FellToTop(Len(lines') - 1)]_vars
  BY YoungestStep
<1>. QED BY <1>1, FrameInvariant, PTL DEF Spec, YoungestOrTop

LEMMA YoungerStep ==
    ASSUME IInv, PageTowardsYoungest
    PROVE  First(frame') =< frame.last + 1
<1> DEFINE t == LastOfNextPage
<1>1. /\ t \in frame.last .. Len(lines) - 1 /\ frame.last \in Nat /\ Len(lines) \in Nat
      /\ t = frame.last \/ Fits(lines, frame.last + 1, t)
  BY NextPageIsBehind, LenProperties DEF IInv, LinesOK, InBuffer
<1> HIDE DEF t
<1>2. t \in Int /\ PageTo(t)
  BY PageTargets DEF PageTowardsYoungest, t
<1>3. Target(lines, t) = t
  BY <1>1 DEF Target
<1>4. IInv' /\ (FilledUpwards(lines, frame', t) \/ AtTop(lines, frame', t))
  BY <1>2, <1>3, PageProps
<1>5. First(frame') \in 0 .. frame'.last
  BY <1>4 DEF IInv, InBuffer
<1>6. CASE FilledUpwards(lines, frame', t)
  <2>1. CASE t = frame.last
    BY <1>1, <1>5, <1>6, <2>1 DEF FilledUpwards
  <2>2. CASE t # frame.last
    <3>1. frame.last + 1 \in 0 .. t /\ Fits(lines, frame.last + 1, t)
      BY <1>1, <2>2
    <3>. QED BY <1>6, <3>1 DEF FilledUpwards
  <2>. QED BY <2>1, <2>2
<1>7. CASE AtTop(lines, frame', t)
  BY <1>1, <1>7 DEF AtTop
<1>. QED BY <1>4, <1>6, <1>7

LEMMA OlderStep ==
    ASSUME IInv, PageTowardsOldest
    PROVE  frame'.last >= First(frame) - 1 \/ FellToTop(First(frame) - 1)
<1> DEFINE t == frame.last - frame.count
           u == Target(lines, t)
<1>1. /\ t \in Int /\ t = First(frame) - 1 /\ First(frame) \in 0 .. frame.last
      /\ Len(lines) \in Nat /\ frame.last \in 0 .. Len(lines) - 1
  BY LenProperties DEF IInv, LinesOK, InBuffer, First
<1>2. IInv' /\ lines' = lines /\ (FilledUpwards(lines, frame', u) \/ AtTop(lines, frame', u))
  BY <1>1, PageProps DEF PageTowardsOldest
<1>3. u = IF t < 0 THEN 0 ELSE t
  BY <1>1 DEF Target
<1>4. frame'.last \in Nat
  BY <1>2, LenProperties DEF IInv, LinesOK, InBuffer
<1> HIDE DEF t, u
<1>5. CASE t < 0
  BY <1>1, <1>4, <1>5
<1>6. CASE ~(t < 0)
  BY <1>1, <1>2, <1>3, <1>4, <1>6 DEF FilledUpwards, AtTop, FellToTop
<1>. QED BY <1>5, <1>6

\* Paging leaves no line out between the old page and the new one.
THEOREM PagingIsSeamless == Spec => NoLineSkipped
<1>1. IInv /\ [Next]_vars =>
        [/\ PageTowardsYoungest => First(frame') =< frame.last + 1
         /\ PageTowardsOldest =>
              \/ frame'.last >= First(frame) - 1
              \/ FellToTop(First(frame) - 1)]_vars
  BY YoungerStep, OlderStep
<1>. QED BY <1>1, FrameInvariant, PTL DEF Spec, NoLineSkipped
=============================================================================
