-------------------------- MODULE LineEditor_proofs --------------------------
(***************************************************************************)
(* Proofs about the lines of an editor of EE, for any number of lines,     *)
(* file, texts, marks and calls: the list stays sound, nothing dangles,    *)
(* and the pointers carry out the sequence of lines of TextList.           *)
(***************************************************************************)
EXTENDS LineEditor, SequenceTheorems, FiniteSetTheorems, FunctionTheorems, TLAPS

-----------------------------------------------------------------------------
(* The inductive invariant *)

\* The lines of the editor are w[1] .. w[n], between the guard lines w[0] and
\* w[n + 1], once each, and chained in both directions.
Chained(next, prev, n, w) ==
    /\ n \in Nat /\ w \in [0 .. n + 1 -> Slots]
    /\ w[0] = BOF /\ w[n + 1] = EOF
    /\ \A i \in 1 .. n : w[i] \in Lines
    /\ \A i, k \in 0 .. n + 1 : w[i] = w[k] => i = k
    /\ \A i \in 0 .. n : next[w[i]] = w[i + 1]
    /\ \A i \in 0 .. n : prev[w[i + 1]] = w[i]

\* The free lines are f[1] .. f[m], once each, and chained up to a null pointer.
Stacked(next, first, m, f) ==
    /\ m \in Nat /\ f \in [1 .. m + 1 -> Lines \cup {NULL}]
    /\ f[m + 1] = NULL /\ first = f[1]
    /\ \A i \in 1 .. m : f[i] \in Lines
    /\ \A i, k \in 1 .. m : f[i] = f[k] => i = k
    /\ \A i \in 1 .. m : next[f[i]] = f[i + 1]

\* The lines of the list, and those that are free.
Listed(n, w) == {w[i] : i \in 1 .. n}
Unused(m, f) == {f[k] : k \in 1 .. m}

Fields == {"next", "prev", "mine", "text", "firstFree", "cur", "curNo", "count", "marks",
           "modified", "oom", "broken"}

Shaped(e) ==
    /\ e = [x \in Fields |-> e[x]]
    /\ e.next \in [Slots -> Pointers] /\ e.prev \in [Slots -> Pointers]
    /\ e.mine \in [Slots -> BOOLEAN] /\ e.text \in [Lines -> Texts]
    /\ e.firstFree \in Lines \cup {NULL} /\ e.cur \in Pointers
    /\ e.curNo \in Int /\ e.count \in Int /\ e.marks \in [MarkNos -> Pointers]
    /\ e.modified \in BOOLEAN /\ e.oom \in BOOLEAN /\ e.broken \in BOOLEAN

\* The lines in the list name the editor, those that are free do not; the
\* current line and the marks are lines of the list or the guard line, the
\* marks also lines of G, which are being freed.
Holds(e, n, w, m, f, G) ==
    /\ \A l \in Listed(n, w) : e.mine[l]
    /\ \A l \in Unused(m, f) : ~e.mine[l]
    /\ e.count = n /\ ~e.broken
    /\ e.cur \in Listed(n, w) \cup {BOF}
    /\ \A k \in MarkNos : e.marks[k] \in Listed(n, w) \cup {NULL, BOF} \cup G

Sound(e, n, w, m, f, G) ==
    /\ Shaped(e) /\ Holds(e, n, w, m, f, G)
    /\ Chained(e.next, e.prev, n, w) /\ Stacked(e.next, e.firstFree, m, f)
    /\ Listed(n, w) \cap Unused(m, f) = {}
    /\ G \subseteq Lines /\ G \cap (Listed(n, w) \cup Unused(m, f)) = {}

\* Lines are lost only by a call that ran out of them.
AllThere(starved0, n, w, m, f, G) == starved0 \/ Lines = Listed(n, w) \cup Unused(m, f) \cup G

KeptBut(e, starved0, G) ==
    \E n, w, m, f : Sound(e, n, w, m, f, G) /\ AllThere(starved0, n, w, m, f, G)
Kept(e, starved0) == KeptBut(e, starved0, {})

IInv == Kept(r, starved)

-----------------------------------------------------------------------------
(* Sequences *)

LEMMA LeastNumber ==
    ASSUME NEW S, S \subseteq Nat, S # {}
    PROVE  \E m \in S : (\A x \in S : m =< x) /\ Min(S) = m
<1> DEFINE less == {p \in Nat \X Nat : p[1] < p[2]}
<1>0. IsWellFoundedOn(less, Nat)
  BY NatLessThanWellFounded DEF OpToRel
<1> HIDE DEF less
<1>1. PICK m \in S : \A x \in S : ~(<<x, m>> \in less)
  BY <1>0, WFMin
<1>2. \A x \in S : m =< x
  <2> SUFFICES ASSUME NEW x \in S PROVE m =< x
    OBVIOUS
  <2>1. x < m => <<x, m>> \in less
    BY DEF less
  <2>. QED BY <1>1, <2>1
<1>3. \A y \in S : (\A x \in S : y =< x) => y = m
  BY <1>2
<1>. QED BY <1>2, <1>3 DEF Min

\* A sequence is known by its length and its elements.
LEMMA SameSeq ==
    ASSUME NEW n \in Nat, NEW S, NEW T, NEW c \in [1 .. n -> S], NEW d \in [1 .. n -> T],
           \A i \in 1 .. n : c[i] = d[i]
    PROVE  c = d
OBVIOUS

LEMMA Prefix ==
    ASSUME NEW S, NEW n \in Nat, NEW c \in [1 .. n -> S]
    PROVE  /\ c \in Seq(S) /\ Len(c) = n
           /\ \A k \in 0 .. n : SubSeq(c, 1, k) = [i \in 1 .. k |-> c[i]]
<1>1. c \in Seq(S) /\ Len(c) = n
  OBVIOUS
<1>2. ASSUME NEW k \in 0 .. n PROVE SubSeq(c, 1, k) = [i \in 1 .. k |-> c[i]]
  <2>1. \A i \in 1 .. k : c[i] \in S
    OBVIOUS
  <2>2. /\ SubSeq(c, 1, k) \in Seq(S) /\ Len(SubSeq(c, 1, k)) = k
        /\ \A i \in 1 .. k : SubSeq(c, 1, k)[i] = c[i]
    BY <2>1, SubSeqProperties, 1 \in Int
  <2>3. SubSeq(c, 1, k) \in [1 .. k -> S]
    BY <2>2, LenProperties
  <2>. QED BY <2>1, <2>2, <2>3
<1>. QED BY <1>1, <1>2

\* The walk Follow() goes.
Step(e, met) == IF Last(met) \in {EOF, NULL} THEN met ELSE Append(met, e.next[Last(met)])
WalkOf(e, l, n, walk) ==
    walk = [i \in 0 .. n |-> IF i = 0 THEN <<l>> ELSE Step(e, walk[i - 1])]

\* The slots met are c[1] .. c[k], of which the last ends the walk.
LEMMA FollowIs ==
    ASSUME NEW e, NEW k \in 1 .. Cardinality(Lines) + 2, NEW S, NEW c \in [1 .. k -> S],
           c[k] \in {EOF, NULL},
           \A i \in 1 .. k - 1 : c[i] \notin {EOF, NULL} /\ e.next[c[i]] = c[i + 1]
    PROVE  Follow(e, c[1]) = c
<1> DEFINE n == Cardinality(Lines) + 1
           size(j) == IF j + 1 < k THEN j + 1 ELSE k
           met(j) == [i \in 1 .. size(j) |-> c[i]]
           walk == CHOOSE w : WalkOf(e, c[1], n, w)
           good == [j \in 0 .. n |-> met(j)]
<1>1. n \in Nat /\ k \in 1 .. n + 1
  BY LinesAssumption, FS_CardinalityType
<1>2. Follow(e, c[1]) = walk[n]
  BY DEF Follow, WalkOf, Step
<1> HIDE DEF n
<1>3. met(0) = <<c[1]>>
  <2>1. size(0) = 1
    BY <1>1
  <2>2. met(0) = [i \in 1 .. 1 |-> c[i]]
    BY <2>1
  <2>. QED BY <2>2
<1>4. ASSUME NEW j \in 1 .. n PROVE met(j) = Step(e, met(j - 1))
  <2>0. size(j - 1) \in 1 .. k /\ j - 1 \in Nat
    BY <1>1
  <2>1. met(j - 1) \in Seq(S) /\ Len(met(j - 1)) = size(j - 1)
        /\ Last(met(j - 1)) = c[size(j - 1)]
    <3>1. met(j - 1) \in [1 .. size(j - 1) -> S]
      BY <2>0
    <3>2. met(j - 1) \in Seq(S) /\ Len(met(j - 1)) = size(j - 1)
      BY <2>0, <3>1
    <3>3. met(j - 1)[size(j - 1)] = c[size(j - 1)]
      BY <2>0
    <3>. QED BY <3>2, <3>3 DEF Last
  <2>2. CASE size(j - 1) = k
    <3>1. size(j) = k
      BY <1>1, <2>2
    <3>2. met(j) = met(j - 1)
      BY <2>2, <3>1
    <3>. QED BY <2>1, <2>2, <3>2 DEF Step
  <2>3. CASE size(j - 1) # k
    <3>1. size(j - 1) = j /\ size(j) = j + 1 /\ j + 1 \in 1 .. k /\ j \in 1 .. k - 1
      BY <1>1, <2>3
    <3>2. c[j] \notin {EOF, NULL} /\ e.next[c[j]] = c[j + 1]
      BY <3>1
    <3>3. Step(e, met(j - 1)) = Append(met(j - 1), c[j + 1])
      BY <2>1, <3>1, <3>2 DEF Step
    <3> DEFINE a == Append(met(j - 1), c[j + 1])
    <3>4. c[j + 1] \in S
      BY <3>1
    <3>5. met(j - 1) = [i \in 1 .. j |-> c[i]] /\ met(j) = [i \in 1 .. j + 1 |-> c[i]]
      BY <3>1
    <3> HIDE DEF met
    <3>6. /\ a \in Seq(S) /\ Len(a) = j + 1
          /\ \A i \in 1 .. j : a[i] = met(j - 1)[i]
          /\ a[j + 1] = c[j + 1]
      BY <2>1, <3>1, <3>4, AppendProperties
    <3>7. a \in [1 .. j + 1 -> S]
      BY <3>6, LenProperties
    <3> HIDE DEF a
    <3>8. met(j) \in [1 .. j + 1 -> S]
      BY <3>1, <3>5
    <3>9. \A i \in 1 .. j + 1 : a[i] = met(j)[i]
      BY <3>1, <3>5, <3>6
    <3>10. a = met(j)
      BY <3>1, <3>7, <3>8, <3>9, SameSeq
    <3>. QED BY <3>3, <3>10 DEF a
  <2>. QED BY <2>2, <2>3
<1> HIDE DEF met, size
<1>5. WalkOf(e, c[1], n, good)
  <2>1. ASSUME NEW j \in 0 .. n
        PROVE  good[j] = IF j = 0 THEN <<c[1]>> ELSE Step(e, good[j - 1])
    <3>1. CASE j = 0
      BY <1>1, <1>3, <3>1
    <3>2. CASE j # 0
      <4>1. j \in 1 .. n /\ j - 1 \in 0 .. n
        BY <1>1, <3>2
      <4>2. good[j] = met(j) /\ good[j - 1] = met(j - 1)
        BY <4>1
      <4>. QED BY <1>4, <3>2, <4>1, <4>2
    <3>. QED BY <3>1, <3>2
  <2> DEFINE u == [j \in 0 .. n |-> IF j = 0 THEN <<c[1]>> ELSE Step(e, good[j - 1])]
  <2>2. good = u
    BY <2>1
  <2> HIDE DEF good
  <2>. QED BY <2>2 DEF WalkOf
<1>6. WalkOf(e, c[1], n, walk)
  BY <1>5
<1> HIDE DEF walk, good
<1> DEFINE bad == {j \in 0 .. n : walk[j] # met(j)}
<1>7. ASSUME bad # {} PROVE FALSE
  <2>1. bad \subseteq Nat
    BY <1>1
  <2> HIDE DEF bad
  <2>2. PICK j \in bad : \A x \in bad : j =< x
    BY <1>7, <2>1, LeastNumber
  <2> USE DEF bad
  <2>3. CASE j = 0
    <3>1. walk[0] = <<c[1]>>
      BY <1>1, <1>6 DEF WalkOf
    <3>. QED BY <1>3, <2>2, <2>3, <3>1
  <2>4. CASE j # 0
    <3>1. j \in 1 .. n /\ j - 1 \in 0 .. n
      BY <1>1, <2>2, <2>4
    <3>2. walk[j] = Step(e, walk[j - 1])
      BY <1>6, <2>4, <3>1 DEF WalkOf
    <3>3. walk[j - 1] = met(j - 1)
      <4>1. j - 1 \notin bad
        BY <2>2, <3>1
      <4>. QED BY <3>1, <4>1
    <3>. QED BY <1>4, <2>2, <3>1, <3>2, <3>3
  <2>. QED BY <2>3, <2>4
<1>8. n \in 0 .. n
  BY <1>1
<1>9. walk[n] = met(n)
  BY <1>7, <1>8
<1>10. met(n) = c
  <2>1. size(n) = k
    BY <1>1 DEF size
  <2>. QED BY <2>1 DEF met
<1>. QED BY <1>2, <1>9, <1>10

-----------------------------------------------------------------------------
(* What the walks find *)

LEMMA Guards == /\ NULL # BOF /\ NULL # EOF /\ BOF # EOF
                /\ \A l \in Lines : l # NULL /\ l # BOF /\ l # EOF
                /\ Slots = Lines \cup {BOF, EOF} /\ Pointers = Slots \cup {NULL}
BY LinesAssumption DEF NULL, BOF, EOF, Slots, Pointers

LEMMA Fits ==
    ASSUME NEW n \in Nat, NEW c \in [1 .. n -> Lines], \A i, k \in 1 .. n : c[i] = c[k] => i = k
    PROVE  n =< Cardinality(Lines) /\ Cardinality(Lines) \in Nat
<1>1. c \in Injection(1 .. n, Lines)
  BY Fun_IsInj
<1>2. Cardinality(1 .. n) =< Cardinality(Lines)
  BY <1>1, LinesAssumption, FS_Injection
<1>3. Cardinality(1 .. n) = n
  BY FS_Interval
<1>. QED BY <1>2, <1>3, LinesAssumption, FS_CardinalityType

Onward(n, w, p) == [i \in 1 .. n + 2 - p |-> w[p + i - 1]]

LEMMA WalkFrom ==
    ASSUME NEW e, NEW n, NEW w, Chained(e.next, e.prev, n, w), NEW p \in 0 .. n + 1
    PROVE  Follow(e, w[p]) = Onward(n, w, p)
<1> DEFINE c == Onward(n, w, p)
           k == n + 2 - p
<1>1. n \in Nat /\ p \in Int /\ k \in Int /\ k >= 1
  BY DEF Chained
<1>2. n =< Cardinality(Lines) /\ Cardinality(Lines) \in Nat
  <2> DEFINE d == [i \in 1 .. n |-> w[i]]
  <2>1. d \in [1 .. n -> Lines]
    BY <1>1 DEF Chained
  <2>2. \A i, j \in 1 .. n : d[i] = d[j] => i = j
    BY <1>1 DEF Chained
  <2>. QED BY <1>1, <2>1, <2>2, Fits
<1>3. k \in 1 .. Cardinality(Lines) + 2
  BY <1>1, <1>2
<1>4. c \in [1 .. k -> Slots]
  BY <1>1 DEF Chained, Onward
<1>5. c[k] = EOF /\ c[1] = w[p]
  BY <1>1 DEF Chained, Onward
<1>6. ASSUME NEW i \in 1 .. k - 1
      PROVE  c[i] \notin {EOF, NULL} /\ e.next[c[i]] = c[i + 1]
  <2> DEFINE j == p + i - 1
  <2>1. j \in 0 .. n
    BY <1>1
  <2>2. c[i] = w[j] /\ c[i + 1] = w[j + 1]
    BY <1>1, <2>1 DEF Onward
  <2>3. w[j] \in Lines \cup {BOF}
    BY <1>1, <2>1 DEF Chained
  <2>. QED BY <2>1, <2>2, <2>3, Guards DEF Chained
<1> HIDE DEF c, k
<1>7. Follow(e, c[1]) = c
  BY <1>3, <1>4, <1>5, <1>6, FollowIs
<1>. QED BY <1>5, <1>7 DEF c

FirstOnes(n, c) == [i \in 1 .. n |-> c[i]]

LEMMA FrontIs ==
    ASSUME NEW S, NEW n \in Nat, NEW c \in [1 .. n + 1 -> S]
    PROVE  Front(c) = FirstOnes(n, c)
<1>1. Len(c) = n + 1 /\ n \in 0 .. n + 1 /\ Len(c) - 1 = n
  OBVIOUS
<1>2. \A k \in 0 .. n + 1 : SubSeq(c, 1, k) = [i \in 1 .. k |-> c[i]]
  BY Prefix
<1>3. SubSeq(c, 1, n) = FirstOnes(n, c)
  BY <1>1, <1>2 DEF FirstOnes
<1>. QED BY <1>1, <1>3 DEF Front

LEMMA ChainIs ==
    ASSUME NEW e, NEW n, NEW w, Chained(e.next, e.prev, n, w)
    PROVE  Chain(e) = [i \in 1 .. n |-> w[i]] /\ ToSet(Chain(e)) = Listed(n, w)
<1>1. n \in Nat /\ e.next[BOF] = w[1] /\ 1 \in 0 .. n + 1
  BY DEF Chained
<1>2. Follow(e, e.next[BOF]) = Onward(n, w, 1)
  BY <1>1, WalkFrom
<1> DEFINE d == [i \in 1 .. n + 1 |-> w[i]]
<1>3. Onward(n, w, 1) = d
  BY <1>1 DEF Onward
<1>4. d \in [1 .. n + 1 -> Slots]
  BY <1>1 DEF Chained
<1>5. \A i \in 1 .. n : d[i] = w[i]
  BY <1>1
<1> HIDE DEF d
<1>6. Chain(e) = [i \in 1 .. n |-> w[i]]
  <2>1. Front(d) = FirstOnes(n, d)
    BY <1>1, <1>4, FrontIs
  <2>2. FirstOnes(n, d) = [i \in 1 .. n |-> w[i]]
    BY <1>5 DEF FirstOnes
  <2>. QED BY <1>2, <1>3, <2>1, <2>2 DEF Chain
<1>7. ToSet([i \in 1 .. n |-> w[i]]) = Listed(n, w)
  BY DEF ToSet, Listed
<1>. QED BY <1>6, <1>7

LEMMA FreeIs ==
    ASSUME NEW e, NEW m, NEW f, Stacked(e.next, e.firstFree, m, f)
    PROVE  FreeLines(e) = [i \in 1 .. m |-> f[i]] /\ ToSet(FreeLines(e)) = Unused(m, f)
<1>1. m \in Nat /\ f \in [1 .. m + 1 -> Lines \cup {NULL}] /\ e.firstFree = f[1] /\ f[m + 1] = NULL
      /\ \A i \in 1 .. m : f[i] \in Lines /\ e.next[f[i]] = f[i + 1]
  BY DEF Stacked
<1>2. FreeLines(e) = [i \in 1 .. m |-> f[i]]
  <2>1. CASE m = 0
    <3>1. FreeLines(e) = <<>>
      BY <1>1, <2>1 DEF FreeLines
    <3>2. [i \in 1 .. 0 |-> f[i]] = <<>>
      OBVIOUS
    <3>. QED BY <2>1, <3>1, <3>2
  <2>2. CASE m # 0
    <3>1. e.firstFree # NULL
      BY <1>1, <2>2, Guards
    <3>2. m + 1 \in 1 .. Cardinality(Lines) + 2
      <4> DEFINE d == [i \in 1 .. m |-> f[i]]
      <4>1. d \in [1 .. m -> Lines]
        BY <1>1
      <4>2. \A i, k \in 1 .. m : d[i] = d[k] => i = k
        BY DEF Stacked
      <4>3. m =< Cardinality(Lines) /\ Cardinality(Lines) \in Nat
        BY <1>1, <4>1, <4>2, Fits
      <4>. QED BY <1>1, <4>3
    <3>3. \A i \in 1 .. (m + 1) - 1 : f[i] \notin {EOF, NULL} /\ e.next[f[i]] = f[i + 1]
      BY <1>1, Guards
    <3>4. Follow(e, f[1]) = f
      <4> DEFINE k == m + 1
      <4>1. /\ k \in 1 .. Cardinality(Lines) + 2 /\ f \in [1 .. k -> Lines \cup {NULL}]
            /\ f[k] \in {EOF, NULL}
            /\ \A i \in 1 .. k - 1 : f[i] \notin {EOF, NULL} /\ e.next[f[i]] = f[i + 1]
        BY <1>1, <3>2, <3>3
      <4> HIDE DEF k
      <4>. QED BY <4>1, FollowIs
    <3>5. Front(f) = [i \in 1 .. m |-> f[i]]
      <4>1. m \in Nat /\ f \in [1 .. m + 1 -> Lines \cup {NULL}]
        BY <1>1
      <4>2. Front(f) = FirstOnes(m, f)
        BY <4>1, FrontIs
      <4>. QED BY <4>2 DEF FirstOnes
    <3>. QED BY <1>1, <3>1, <3>4, <3>5 DEF FreeLines
  <2>. QED BY <2>1, <2>2
<1>3. ToSet([i \in 1 .. m |-> f[i]]) = Unused(m, f)
  BY DEF ToSet, Unused
<1>. QED BY <1>2, <1>3

\* Place of the first l in c, 0 if there is none.
Index(c, l) == SelectInSeq(c, LAMBDA x : x = l)
Distinct(n, c) == \A i, k \in 1 .. n : c[i] = c[k] => i = k
Misses(n, c, l) == \A i \in 1 .. n : c[i] # l

LEMMA IndexIs ==
    ASSUME NEW S, NEW n \in Nat, NEW c \in [1 .. n -> S]
    PROVE  /\ Distinct(n, c) => \A j \in 1 .. n : Index(c, c[j]) = j
           /\ \A l : Misses(n, c, l) => Index(c, l) = 0
<1> DEFINE I(l) == {i \in 1 .. n : c[i] = l}
<1>1. Len(c) = n
  OBVIOUS
<1>2. \A l : Index(c, l) = IF I(l) # {} THEN Min(I(l)) ELSE 0
  BY <1>1 DEF Index, SelectInSeq
<1>3. ASSUME Distinct(n, c), NEW j \in 1 .. n
      PROVE  Index(c, c[j]) = j
  <2>1. I(c[j]) = {j}
    BY <1>3 DEF Distinct
  <2>. QED BY <1>2, <2>1 DEF Min
<1>4. ASSUME NEW l, Misses(n, c, l)
      PROVE  Index(c, l) = 0
  <2>1. I(l) = {}
    BY <1>4 DEF Misses
  <2>. QED BY <1>2, <2>1
<1>. QED BY <1>3, <1>4

LEMMA OnwardIs ==
    ASSUME NEW next, NEW prev, NEW n, NEW w, Chained(next, prev, n, w), NEW p \in 0 .. n + 1,
           NEW h, h = n + 2 - p, NEW c, c = Onward(n, w, p)
    PROVE  /\ n \in Nat /\ h \in Nat \ {0} /\ c \in [1 .. h -> Slots] /\ Len(c) = h
           /\ \A i \in 1 .. h : c[i] = w[p + i - 1]
           /\ Distinct(h, c)
<1>1. n \in Nat /\ h \in Nat \ {0}
  BY DEF Chained
<1>2. \A i \in 1 .. h : p + i - 1 \in 0 .. n + 1
  BY <1>1
<1>3. \A i \in 1 .. h : c[i] = w[p + i - 1]
  BY DEF Onward
<1>4. c \in [1 .. h -> Slots]
  BY <1>2 DEF Chained, Onward
<1>5. Len(c) = h
  BY <1>1, <1>4
<1>6. ASSUME NEW i \in 1 .. h, NEW k \in 1 .. h, c[i] = c[k]
      PROVE  i = k
  <2>1. p + i - 1 = p + k - 1
    BY <1>2, <1>3, <1>6 DEF Chained
  <2>. QED BY <1>1, <2>1
<1>. QED BY <1>1, <1>3, <1>4, <1>5, <1>6 DEF Distinct

LEMMA PlaceIs ==
    ASSUME NEW e, NEW n, NEW w, Chained(e.next, e.prev, n, w)
    PROVE  /\ \A p \in 0 .. n + 1 : PlaceOf(e, w[p]) = p
           /\ \A l : (\A p \in 0 .. n + 1 : w[p] # l) => PlaceOf(e, l) = -1
<1> DEFINE c == Onward(n, w, 0)
           k == n + 2
<1>1. n \in Nat /\ 0 \in 0 .. n + 1 /\ w[0] = BOF /\ k = n + 2 - 0
  BY DEF Chained
<1>3. Follow(e, BOF) = c
  BY <1>1, WalkFrom
<1> HIDE DEF c, k
<1>2. /\ k \in Nat /\ c \in [1 .. k -> Slots] /\ \A i \in 1 .. k : c[i] = w[0 + i - 1]
      /\ Distinct(k, c)
  BY <1>1, OnwardIs DEF c
<1>0. \A l : PlaceOf(e, l) = Index(c, l) - 1
  BY <1>3 DEF PlaceOf, Index, SelectInSeq
<1>4. ASSUME NEW p \in 0 .. n + 1 PROVE PlaceOf(e, w[p]) = p
  <2>1. p + 1 \in 1 .. k /\ c[p + 1] = w[p]
    BY <1>1, <1>2 DEF k
  <2>2. \A j \in 1 .. k : Index(c, c[j]) = j
    BY <1>2, IndexIs
  <2>3. Index(c, c[p + 1]) = p + 1
    BY <2>1, <2>2
  <2>. QED BY <1>0, <2>1, <2>3
<1>5. ASSUME NEW l, \A p \in 0 .. n + 1 : w[p] # l PROVE PlaceOf(e, l) = -1
  <2>1. Misses(k, c, l)
    <3> SUFFICES ASSUME NEW i \in 1 .. k PROVE c[i] # l
      BY DEF Misses
    <3>1. i - 1 \in 0 .. n + 1 /\ c[i] = w[i - 1]
      BY <1>1, <1>2 DEF k
    <3>. QED BY <1>5, <3>1
  <2>2. \A x : Misses(k, c, x) => Index(c, x) = 0
    BY <1>2, IndexIs
  <2>. QED BY <1>0, <2>1, <2>2
<1>. QED BY <1>4, <1>5

LEMMA Reach ==
    ASSUME NEW e, NEW n, NEW w, Chained(e.next, e.prev, n, w),
           NEW p \in 0 .. n + 1, NEW q \in 0 .. n + 1
    PROVE  Contains(Follow(e, w[p]), w[q]) <=> p =< q
<1> DEFINE c == Onward(n, w, p)
<1>1. Follow(e, w[p]) = c
  BY WalkFrom
<1>2. /\ n \in Nat /\ Len(c) = n + 2 - p
      /\ \A i \in 1 .. n + 2 - p : c[i] = w[p + i - 1]
  BY OnwardIs
<1> HIDE DEF c
<1>3. ASSUME p =< q PROVE Contains(c, w[q])
  <2>1. q - p + 1 \in 1 .. n + 2 - p /\ p + (q - p + 1) - 1 = q
    BY <1>2, <1>3
  <2>2. c[q - p + 1] = w[q]
    BY <1>2, <2>1
  <2>. QED BY <1>2, <2>1, <2>2 DEF Contains
<1>4. ASSUME Contains(c, w[q]) PROVE p =< q
  <2>1. PICK i \in 1 .. n + 2 - p : c[i] = w[q]
    BY <1>2, <1>4 DEF Contains
  <2>2. p + i - 1 \in 0 .. n + 1 /\ w[p + i - 1] = w[q]
    BY <1>2, <2>1
  <2>3. p + i - 1 = q
    BY <2>2 DEF Chained
  <2>. QED BY <1>2, <2>3
<1>. QED BY <1>1, <1>3, <1>4

\* A range in order, or none.
InOrder(n, w, range) ==
    \/ range = <<>>
    \/ \E p, q \in 1 .. n : p =< q /\ range = <<w[p], w[q]>>

LEMMA OrderIs ==
    ASSUME NEW e, NEW n, NEW w, Chained(e.next, e.prev, n, w), NEW a, NEW b,
           a \in Listed(n, w) \/ ~Own(e, a), b \in Listed(n, w) \/ ~Own(e, b)
    PROVE  InOrder(n, w, OrderLines(e, a, b))
<1>1. CASE ~Own(e, a) \/ ~Own(e, b)
  BY <1>1 DEF OrderLines, InOrder
<1>2. CASE Own(e, a) /\ Own(e, b)
  <2>1. PICK i \in 1 .. n : a = w[i]
    BY <1>2 DEF Listed
  <2>2. PICK k \in 1 .. n : b = w[k]
    BY <1>2 DEF Listed
  <2>3. n \in Nat /\ i \in 0 .. n + 1 /\ k \in 0 .. n + 1
    BY DEF Chained
  <2>4. Contains(Follow(e, a), b) <=> i =< k
    BY <2>1, <2>2, <2>3, Reach
  <2>5. CASE i =< k
    BY <1>2, <2>1, <2>2, <2>4, <2>5 DEF OrderLines, InOrder
  <2>6. CASE ~(i =< k)
    BY <1>2, <2>1, <2>2, <2>3, <2>4, <2>6 DEF OrderLines, InOrder
  <2>. QED BY <2>5, <2>6
<1>. QED BY <1>1, <1>2

\* k lines from w[p] on.
Run(w, p, k) == [i \in 1 .. k |-> w[p + i - 1]]
RunBetween(e, n, w, p, q) == Between(e, w[p], w[q]) = Run(w, p, q - p + 1)

LEMMA BetweenIs ==
    ASSUME NEW e, NEW n, NEW w, Chained(e.next, e.prev, n, w),
           NEW p \in 1 .. n, NEW q \in 1 .. n, p =< q
    PROVE  RunBetween(e, n, w, p, q)
<1> DEFINE c == Onward(n, w, p)
           k == n + 1 - p
           h == k + 1
           d == [i \in 1 .. k |-> c[i]]
           j == q - p + 1
<1>1. n \in Nat /\ p \in 0 .. n + 1 /\ k \in Nat /\ h = n + 2 - p /\ j \in 1 .. k
  BY DEF Chained
<1>2. /\ c \in [1 .. h -> Slots] /\ \A i \in 1 .. h : c[i] = w[p + i - 1]
      /\ Distinct(h, c)
  <2>1. c = Onward(n, w, p) /\ h = n + 2 - p
    BY <1>1
  <2> HIDE DEF c, h
  <2>2. \A x \in 0 .. n + 1 : \A y, z : (y = n + 2 - x /\ z = Onward(n, w, x)) =>
            /\ z \in [1 .. y -> Slots] /\ \A i \in 1 .. y : z[i] = w[x + i - 1]
            /\ Distinct(y, z)
    BY OnwardIs
  <2>3. p \in 0 .. n + 1
    BY <1>1
  <2>4. h = n + 2 - p /\ c = Onward(n, w, p)
    BY <2>1
  <2>5. c \in [1 .. h -> Slots] /\ Distinct(h, c)
    BY <2>2, <2>3, <2>4, Zenon
  <2>6. \A i \in 1 .. h : c[i] = w[p + i - 1]
    BY <2>4 DEF Onward
  <2>. QED BY <2>5, <2>6
<1>3. Follow(e, w[p]) = c
  BY <1>1, WalkFrom
<1> HIDE DEF c
<1>4. d \in [1 .. k -> Slots] /\ (\A i \in 1 .. k : d[i] = w[p + i - 1])
      /\ Distinct(k, d)
  BY <1>1, <1>2 DEF Distinct
<1>5. Front(c) = d
  <2>1. k \in Nat /\ c \in [1 .. k + 1 -> Slots]
    BY <1>1, <1>2
  <2> HIDE DEF k
  <2>2. Front(c) = FirstOnes(k, c)
    BY <2>1, FrontIs
  <2>. QED BY <2>2 DEF FirstOnes, k
<1>6. d[j] = w[q]
  <2>1. p + j - 1 = q
    BY <1>1
  <2>. QED BY <1>1, <1>4, <2>1
<1> HIDE DEF d, k
<1>7. Index(d, w[q]) = j
  <2>1. \A g \in 1 .. k : Index(d, d[g]) = g
    BY <1>1, <1>4, IndexIs
  <2>. QED BY <1>1, <1>6, <2>1
<1>8. SubSeq(d, 1, j) = [i \in 1 .. j |-> d[i]]
  <2>1. j \in 0 .. k
    BY <1>1
  <2>2. \A g \in 0 .. k : SubSeq(d, 1, g) = [i \in 1 .. g |-> d[i]]
    BY <1>1, <1>4, Prefix
  <2>. QED BY <2>1, <2>2
<1>9. [i \in 1 .. j |-> d[i]] = [i \in 1 .. j |-> w[p + i - 1]]
  BY <1>1, <1>4
<1>10. j # 0
  BY <1>1
<1>11. Between(e, w[p], w[q]) = IF Index(d, w[q]) = 0 THEN d ELSE SubSeq(d, 1, Index(d, w[q]))
  BY <1>3, <1>5 DEF Between, Index, SelectInSeq
<1>12. Between(e, w[p], w[q]) = [i \in 1 .. j |-> w[p + i - 1]]
  BY <1>7, <1>8, <1>9, <1>10, <1>11
<1>. QED BY <1>12 DEF RunBetween, Run

-----------------------------------------------------------------------------
(* What relinking does *)

Cut(n, w, p, q) == [i \in 0 .. n - q + p |-> IF i < p THEN w[i] ELSE w[i + (q - p + 1)]]

\* The lines from p to q are unlinked.
LinkedOut(next, prev, n, w, p, q, next2, prev2) ==
    /\ \A i \in 0 .. n : (i < p - 1 \/ i > q) => next2[w[i]] = next[w[i]]
    /\ next2[w[p - 1]] = w[q + 1]
    /\ \A i \in 1 .. n + 1 : (i < p \/ i > q + 1) => prev2[w[i]] = prev[w[i]]
    /\ prev2[w[q + 1]] = w[p - 1]

LEMMA CutLinks ==
    ASSUME NEW next, NEW prev, NEW n, NEW w, Chained(next, prev, n, w),
           NEW p \in 1 .. n, NEW q \in 1 .. n, p =< q, NEW next2, NEW prev2,
           LinkedOut(next, prev, n, w, p, q, next2, prev2),
           NEW g, g = n - (q - p + 1), NEW v, v = Cut(n, w, p, q)
    PROVE  /\ Chained(next2, prev2, g, v)
           /\ Listed(g, v) = Listed(n, w) \ {w[i] : i \in p .. q}
<1> DEFINE d == q - p + 1
           from(i) == IF i < p THEN i ELSE i + d
<1>0. n \in Nat /\ g \in Nat /\ d \in Nat \ {0} /\ g = n - d
  BY DEF Chained
<1>1. v = [i \in 0 .. g + 1 |-> w[from(i)]]
  BY <1>0 DEF Cut
<1>2. \A i \in 0 .. g + 1 : /\ from(i) \in 0 .. n + 1 /\ v[i] = w[from(i)]
                            /\ ~(from(i) \in p .. q)
  BY <1>0, <1>1
<1>3. v \in [0 .. g + 1 -> Slots]
  BY <1>1, <1>2 DEF Chained
<1>4. v[0] = BOF /\ v[g + 1] = EOF
  <2>1. from(0) = 0 /\ from(g + 1) = n + 1 /\ 0 \in 0 .. g + 1 /\ g + 1 \in 0 .. g + 1
    BY <1>0
  <2>. QED BY <1>2, <2>1 DEF Chained
<1>5. \A i \in 1 .. g : v[i] \in Lines
  <2> SUFFICES ASSUME NEW i \in 1 .. g PROVE v[i] \in Lines
    OBVIOUS
  <2>1. from(i) \in 1 .. n /\ i \in 0 .. g + 1
    BY <1>0
  <2>. QED BY <1>2, <2>1 DEF Chained
<1>6. ASSUME NEW i \in 0 .. g + 1, NEW k \in 0 .. g + 1, v[i] = v[k] PROVE i = k
  <2>1. from(i) = from(k)
    BY <1>2, <1>6 DEF Chained
  <2>. QED BY <1>0, <2>1
<1>7. ASSUME NEW i \in 0 .. g PROVE next2[v[i]] = v[i + 1]
  <2> USE DEF LinkedOut
  <2>1. i \in 0 .. g + 1 /\ i + 1 \in 0 .. g + 1
    BY <1>0
  <2>2. v[i] = w[from(i)] /\ v[i + 1] = w[from(i + 1)]
    BY <1>2, <2>1
  <2>3. CASE i = p - 1
    <3>1. from(i) = p - 1 /\ from(i + 1) = q + 1
      BY <1>0, <2>3
    <3>. QED BY <2>2, <3>1
  <2>4. CASE i # p - 1
    <3>1. /\ from(i) \in 0 .. n /\ from(i + 1) = from(i) + 1
          /\ from(i) < p - 1 \/ from(i) > q
      BY <1>0, <2>1, <2>4
    <3>2. next2[w[from(i)]] = next[w[from(i)]]
      BY <3>1
    <3>3. next[w[from(i)]] = w[from(i) + 1]
      BY <3>1 DEF Chained
    <3>. QED BY <2>2, <3>1, <3>2, <3>3
  <2>. QED BY <2>3, <2>4
<1>8. ASSUME NEW i \in 0 .. g PROVE prev2[v[i + 1]] = v[i]
  <2> USE DEF LinkedOut
  <2>1. i \in 0 .. g + 1 /\ i + 1 \in 0 .. g + 1
    BY <1>0
  <2>2. v[i] = w[from(i)] /\ v[i + 1] = w[from(i + 1)]
    BY <1>2, <2>1
  <2>3. CASE i = p - 1
    <3>1. from(i) = p - 1 /\ from(i + 1) = q + 1
      BY <1>0, <2>3
    <3>. QED BY <2>2, <3>1
  <2>4. CASE i # p - 1
    <3>1. /\ from(i) \in 0 .. n /\ from(i + 1) = from(i) + 1 /\ from(i) + 1 \in 1 .. n + 1
          /\ from(i) + 1 < p \/ from(i) + 1 > q + 1
      BY <1>0, <2>1, <2>4
    <3>2. prev2[w[from(i) + 1]] = prev[w[from(i) + 1]]
      BY <3>1
    <3>3. prev[w[from(i) + 1]] = w[from(i)]
      BY <3>1 DEF Chained
    <3>. QED BY <2>2, <3>1, <3>2, <3>3
  <2>. QED BY <2>3, <2>4
<1>9. Listed(g, v) = Listed(n, w) \ {w[i] : i \in p .. q}
  <2>1. ASSUME NEW i \in 1 .. g
        PROVE  v[i] \in Listed(n, w) /\ ~(v[i] \in {w[k] : k \in p .. q})
    <3>1. i \in 0 .. g + 1 /\ from(i) \in 1 .. n
      BY <1>0
    <3>2. v[i] = w[from(i)] /\ ~(from(i) \in p .. q)
      BY <1>2, <3>1
    <3>3. \A k \in p .. q : w[from(i)] # w[k]
      <4>1. \A k \in p .. q : k \in 0 .. n + 1
        BY <1>0
      <4>2. from(i) \in 0 .. n + 1
        BY <1>2, <3>1
      <4>. QED BY <3>2, <4>1, <4>2 DEF Chained
    <3>. QED BY <3>1, <3>2, <3>3 DEF Listed
  <2>2. ASSUME NEW i \in 1 .. n, ~(i \in p .. q) PROVE w[i] \in Listed(g, v)
    <3> DEFINE k == IF i < p THEN i ELSE i - d
    <3>1. k \in 1 .. g /\ k \in 0 .. g + 1 /\ from(k) = i
      BY <1>0, <2>2
    <3>2. v[k] = w[i]
      BY <1>2, <3>1
    <3>. QED BY <3>1, <3>2 DEF Listed
  <2>3. \A l \in Listed(g, v) : l \in Listed(n, w) \ {w[i] : i \in p .. q}
    BY <2>1 DEF Listed
  <2>4. \A l \in Listed(n, w) \ {w[i] : i \in p .. q} : l \in Listed(g, v)
    <3> SUFFICES ASSUME NEW i \in 1 .. n, ~(w[i] \in {w[k] : k \in p .. q})
                 PROVE  w[i] \in Listed(g, v)
      BY DEF Listed
    <3>1. ~(i \in p .. q)
      OBVIOUS
    <3>. QED BY <2>2, <3>1
  <2>. QED BY <2>3, <2>4
<1> HIDE DEF d, from
<1>. QED BY <1>0, <1>3, <1>4, <1>5, <1>6, <1>7, <1>8, <1>9 DEF Chained

Spliced(n, w, t, k, c) ==
    [i \in 0 .. n + k + 1 |-> IF i =< t THEN w[i] ELSE IF i =< t + k THEN c[i - t] ELSE w[i - k]]

\* The lines c[1] .. c[k] are linked in behind the line t.
LinkedIn(next, prev, n, w, t, k, c, next2, prev2) ==
    /\ \A i \in 0 .. n : i # t => next2[w[i]] = next[w[i]]
    /\ next2[w[t]] = c[1] /\ next2[c[k]] = w[t + 1]
    /\ \A i \in 1 .. k - 1 : next2[c[i]] = c[i + 1]
    /\ \A i \in 1 .. n + 1 : i # t + 1 => prev2[w[i]] = prev[w[i]]
    /\ prev2[w[t + 1]] = c[k] /\ prev2[c[1]] = w[t]
    /\ \A i \in 1 .. k - 1 : prev2[c[i + 1]] = c[i]

Outside(n, w, k, c) == \A i \in 1 .. k : c[i] \notin Listed(n, w)

LEMMA SpliceLinks ==
    ASSUME NEW next, NEW prev, NEW n, NEW w, Chained(next, prev, n, w),
           NEW t \in 0 .. n, NEW k \in Nat \ {0}, NEW c \in [1 .. k -> Lines], Distinct(k, c),
           Outside(n, w, k, c), NEW next2, NEW prev2,
           LinkedIn(next, prev, n, w, t, k, c, next2, prev2),
           NEW g, g = n + k, NEW v, v = Spliced(n, w, t, k, c)
    PROVE  /\ Chained(next2, prev2, g, v)
           /\ Listed(g, v) = Listed(n, w) \cup {c[i] : i \in 1 .. k}
<1>0. n \in Nat /\ g \in Nat /\ g = n + k /\ t \in Nat
  BY DEF Chained
<1>1. \A i \in 0 .. g + 1 : /\ i =< t => v[i] = w[i]
                            /\ i > t /\ i =< t + k => v[i] = c[i - t]
                            /\ i > t + k => v[i] = w[i - k]
  BY <1>0 DEF Spliced
<1>2. \A i \in 1 .. k, j \in 0 .. n + 1 : c[i] # w[j]
  <2> SUFFICES ASSUME NEW i \in 1 .. k, NEW j \in 0 .. n + 1, c[i] = w[j] PROVE FALSE
    OBVIOUS
  <2>1. c[i] # BOF /\ c[i] # EOF
    BY Guards
  <2>2. j # 0 /\ j # n + 1
    BY <2>1 DEF Chained
  <2>3. j \in 1 .. n
    BY <1>0, <2>2
  <2>. QED BY <2>3 DEF Listed, Outside
<1>3. v \in [0 .. g + 1 -> Slots]
  <2>1. \A i \in 0 .. n + 1 : w[i] \in Slots
    BY DEF Chained
  <2>2. \A i \in 1 .. k : c[i] \in Slots
    BY Guards
  <2>3. ASSUME NEW i \in 0 .. g + 1 PROVE v[i] \in Slots
    <3>1. CASE i =< t
      BY <1>0, <1>1, <2>1, <3>1
    <3>2. CASE i > t /\ i =< t + k
      <4>1. i - t \in 1 .. k
        BY <1>0, <3>2
      <4>. QED BY <1>1, <2>2, <3>2, <4>1
    <3>3. CASE i > t + k
      <4>1. i - k \in 0 .. n + 1
        BY <1>0, <3>3
      <4>. QED BY <1>1, <2>1, <3>3, <4>1
    <3>. QED BY <1>0, <3>1, <3>2, <3>3
  <2>. QED BY <1>0, <2>3 DEF Spliced
<1>4. v[0] = BOF /\ v[g + 1] = EOF
  <2>1. v[0] = w[0]
    BY <1>0, <1>1
  <2>2. v[g + 1] = w[n + 1]
    <3>1. g + 1 \in 0 .. g + 1 /\ g + 1 > t + k /\ g + 1 - k = n + 1
      BY <1>0
    <3>. QED BY <1>1, <3>1
  <2>. QED BY <2>1, <2>2 DEF Chained
<1>5. ASSUME NEW i \in 1 .. g PROVE v[i] \in Lines /\ v[i] \in Listed(n, w) \cup {c[j] : j \in 1 .. k}
  <2>0. \A j \in 1 .. n : w[j] \in Lines /\ w[j] \in Listed(n, w)
    BY DEF Chained, Listed
  <2>1. CASE i =< t
    <3>1. i \in 1 .. n /\ i \in 0 .. g + 1
      BY <1>0, <2>1
    <3>. QED BY <1>1, <2>0, <2>1, <3>1
  <2>2. CASE i > t /\ i =< t + k
    <3>1. i - t \in 1 .. k /\ i \in 0 .. g + 1
      BY <1>0, <2>2
    <3>. QED BY <1>1, <2>2, <3>1
  <2>3. CASE i > t + k
    <3>1. i - k \in 1 .. n /\ i \in 0 .. g + 1
      BY <1>0, <2>3
    <3>. QED BY <1>1, <2>0, <2>3, <3>1
  <2>. QED BY <1>0, <2>1, <2>2, <2>3
<1>6. ASSUME NEW i \in 0 .. g + 1, NEW j \in 0 .. g + 1, v[i] = v[j] PROVE i = j
  <2>1. CASE i > t /\ i =< t + k
    <3>1. v[i] = c[i - t] /\ i - t \in 1 .. k
      BY <1>0, <1>1, <2>1
    <3>2. CASE j > t /\ j =< t + k
      <4>1. v[j] = c[j - t] /\ j - t \in 1 .. k
        BY <1>0, <1>1, <3>2
      <4> DEFINE x == i - t
                 y == j - t
      <4>2. x \in 1 .. k /\ y \in 1 .. k /\ c[x] = c[y]
        BY <1>6, <3>1, <4>1
      <4>3. x = y
        BY <4>2 DEF Distinct
      <4>. QED BY <1>0, <4>3
    <3>3. CASE j =< t
      <4>1. v[j] = w[j] /\ j \in 0 .. n + 1
        BY <1>0, <1>1, <3>3
      <4>. QED BY <1>2, <1>6, <3>1, <4>1
    <3>4. CASE j > t + k
      <4>1. v[j] = w[j - k] /\ j - k \in 0 .. n + 1
        BY <1>0, <1>1, <3>4
      <4>. QED BY <1>2, <1>6, <3>1, <4>1
    <3>. QED BY <1>0, <3>2, <3>3, <3>4
  <2>2. CASE ~(i > t /\ i =< t + k)
    <3> DEFINE x == IF i =< t THEN i ELSE i - k
               y == IF j =< t THEN j ELSE j - k
    <3>1. v[i] = w[x] /\ x \in 0 .. n + 1
      BY <1>0, <1>1, <2>2
    <3>2. CASE j > t /\ j =< t + k
      <4>1. v[j] = c[j - t] /\ j - t \in 1 .. k
        BY <1>0, <1>1, <3>2
      <4>. QED BY <1>2, <1>6, <3>1, <4>1
    <3>3. CASE ~(j > t /\ j =< t + k)
      <4>1. v[j] = w[y] /\ y \in 0 .. n + 1
        BY <1>0, <1>1, <3>3
      <4>2. w[x] = w[y]
        BY <1>6, <3>1, <4>1
      <4> HIDE DEF x, y
      <4>3. x = y
        BY <3>1, <4>1, <4>2 DEF Chained
      <4> USE DEF x, y
      <4>. QED BY <1>0, <2>2, <3>3, <4>3
    <3>. QED BY <3>2, <3>3
  <2>. QED BY <2>1, <2>2
<1>7. ASSUME NEW i \in 0 .. g PROVE next2[v[i]] = v[i + 1] /\ prev2[v[i + 1]] = v[i]
  <2> USE DEF LinkedIn
  <2>0. /\ i \in 0 .. g + 1 /\ i + 1 \in 0 .. g + 1
        /\ \A j \in 0 .. n : next[w[j]] = w[j + 1] /\ prev[w[j + 1]] = w[j]
    BY <1>0 DEF Chained
  <2>1. CASE i < t
    <3>1. v[i] = w[i] /\ v[i + 1] = w[i + 1]
      BY <1>0, <1>1, <2>0, <2>1
    <3>2. i \in 0 .. n /\ i + 1 \in 1 .. n + 1 /\ i # t /\ i + 1 # t + 1
      BY <1>0, <2>1
    <3>. QED BY <2>0, <3>1, <3>2
  <2>2. CASE i = t
    <3>1. v[i] = w[t] /\ v[i + 1] = c[1]
      BY <1>0, <1>1, <2>0, <2>2
    <3>. QED BY <3>1
  <2>3. CASE i > t /\ i < t + k
    <3>1. v[i] = c[i - t] /\ v[i + 1] = c[i - t + 1] /\ i - t \in 1 .. k - 1
      <4>1. i + 1 - t = i - t + 1
        BY <1>0
      <4>. QED BY <1>0, <1>1, <2>0, <2>3, <4>1
    <3>. QED BY <3>1
  <2>4. CASE i = t + k
    <3>1. v[i] = c[k] /\ v[i + 1] = w[t + 1]
      <4>1. i - t = k /\ i + 1 - k = t + 1
        BY <1>0, <2>4
      <4>. QED BY <1>0, <1>1, <2>0, <2>4, <4>1
    <3>. QED BY <3>1
  <2>5. CASE i > t + k
    <3>1. v[i] = w[i - k] /\ v[i + 1] = w[i - k + 1]
      <4>1. i + 1 - k = i - k + 1
        BY <1>0
      <4>. QED BY <1>0, <1>1, <2>0, <2>5, <4>1
    <3>2. i - k \in 0 .. n /\ i - k + 1 \in 1 .. n + 1 /\ i - k # t /\ i - k + 1 # t + 1
      BY <1>0, <2>5
    <3>. QED BY <2>0, <3>1, <3>2
  <2>. QED BY <1>0, <2>1, <2>2, <2>3, <2>4, <2>5
<1>8. Listed(g, v) = Listed(n, w) \cup {c[i] : i \in 1 .. k}
  <2>1. ASSUME NEW i \in 1 .. n PROVE w[i] \in Listed(g, v)
    <3>1. CASE i =< t
      <4>1. i \in 1 .. g /\ i \in 0 .. g + 1
        BY <1>0
      <4>. QED BY <1>1, <3>1, <4>1 DEF Listed
    <3>2. CASE i > t
      <4>1. i + k \in 1 .. g /\ i + k \in 0 .. g + 1 /\ i + k > t + k /\ (i + k) - k = i
        BY <1>0, <3>2
      <4>2. v[i + k] = w[i]
        BY <1>1, <4>1
      <4>. QED BY <4>1, <4>2 DEF Listed
    <3>. QED BY <1>0, <3>1, <3>2
  <2>2. ASSUME NEW i \in 1 .. k PROVE c[i] \in Listed(g, v)
    <3>1. i + t \in 1 .. g /\ i + t \in 0 .. g + 1 /\ i + t > t /\ i + t =< t + k /\ (i + t) - t = i
      BY <1>0
    <3>2. v[i + t] = c[i]
      BY <1>1, <3>1
    <3>. QED BY <3>1, <3>2 DEF Listed
  <2>3. Listed(g, v) \subseteq Listed(n, w) \cup {c[i] : i \in 1 .. k}
    BY <1>5 DEF Listed
  <2>4. Listed(n, w) \subseteq Listed(g, v)
    <3> SUFFICES ASSUME NEW l \in Listed(n, w) PROVE l \in Listed(g, v)
      OBVIOUS
    <3>1. PICK i \in 1 .. n : l = w[i]
      BY DEF Listed
    <3>. QED BY <2>1, <3>1
  <2>5. {c[i] : i \in 1 .. k} \subseteq Listed(g, v)
    BY <2>2
  <2>. QED BY <2>3, <2>4, <2>5
<1>. QED BY <1>0, <1>3, <1>4, <1>5, <1>6, <1>7, <1>8 DEF Chained

\* The free lines stay when no pointer of theirs changes.
LEMMA StackStays ==
    ASSUME NEW next, NEW next2, NEW first, NEW m, NEW f, Stacked(next, first, m, f),
           \A l \in Unused(m, f) : next2[l] = next[l]
    PROVE  Stacked(next2, first, m, f)
BY DEF Stacked, Unused

\* The line l is freed.
LEMMA StackPush ==
    ASSUME NEW next, NEW next2, NEW first, NEW m, NEW f, Stacked(next, first, m, f),
           NEW l \in Lines, l \notin Unused(m, f), next2[l] = first,
           \A x \in Unused(m, f) : next2[x] = next[x],
           NEW h, h = m + 1, NEW d, d = [i \in 1 .. m + 2 |-> IF i = 1 THEN l ELSE f[i - 1]]
    PROVE  Stacked(next2, l, h, d) /\ Unused(h, d) = Unused(m, f) \cup {l}
<1>1. /\ m \in Nat /\ h \in Nat /\ h = m + 1 /\ f \in [1 .. m + 1 -> Lines \cup {NULL}]
      /\ f[m + 1] = NULL /\ first = f[1] /\ \A i \in 1 .. m : f[i] \in Lines
      /\ \A i \in 1 .. m : next[f[i]] = f[i + 1]
  BY DEF Stacked
<1>2. d[1] = l /\ \A i \in 1 .. m + 1 : d[i + 1] = f[i]
  BY <1>1
<1>3. d \in [1 .. h + 1 -> Lines \cup {NULL}] /\ d[h + 1] = NULL
  BY <1>1
<1>4. \A i \in 1 .. h : d[i] \in Lines
  BY <1>1
<1>5. ASSUME NEW i \in 1 .. h, NEW k \in 1 .. h, d[i] = d[k] PROVE i = k
  <2>1. \A j \in 1 .. m : f[j] # l
    BY DEF Unused
  <2>2. CASE i = 1 \/ k = 1
    BY <1>1, <1>5, <2>1, <2>2
  <2>3. CASE i # 1 /\ k # 1
    <3>1. i - 1 \in 1 .. m /\ k - 1 \in 1 .. m /\ f[i - 1] = f[k - 1]
      BY <1>1, <1>5, <2>3
    <3>2. i - 1 = k - 1
      BY <3>1 DEF Stacked
    <3>. QED BY <1>1, <3>2
  <2>. QED BY <2>2, <2>3
<1>6. ASSUME NEW i \in 1 .. h PROVE next2[d[i]] = d[i + 1]
  <2>1. CASE i = 1
    BY <1>1, <1>2, <2>1
  <2>2. CASE i # 1
    <3>1. i - 1 \in 1 .. m /\ d[i] = f[i - 1] /\ d[i + 1] = f[i]
      BY <1>1, <2>2
    <3>2. next2[f[i - 1]] = next[f[i - 1]]
      BY <3>1 DEF Unused
    <3>3. next[f[i - 1]] = f[i]
      BY <1>1, <3>1
    <3>. QED BY <3>1, <3>2, <3>3
  <2>. QED BY <2>1, <2>2
<1>7. Unused(h, d) = Unused(m, f) \cup {l}
  <2>1. ASSUME NEW i \in 1 .. h PROVE d[i] \in Unused(m, f) \cup {l}
    <3>1. i = 1 \/ (i - 1 \in 1 .. m /\ d[i] = f[i - 1])
      BY <1>1
    <3>. QED BY <1>2, <3>1 DEF Unused
  <2>2. ASSUME NEW i \in 1 .. m PROVE f[i] \in Unused(h, d)
    <3>1. i + 1 \in 1 .. h /\ d[i + 1] = f[i]
      BY <1>1
    <3>. QED BY <3>1 DEF Unused
  <2>3. l \in Unused(h, d)
    <3>1. 1 \in 1 .. h
      BY <1>1
    <3>. QED BY <1>2, <3>1 DEF Unused
  <2>4. Unused(h, d) \subseteq Unused(m, f) \cup {l}
    <3> SUFFICES ASSUME NEW x \in Unused(h, d) PROVE x \in Unused(m, f) \cup {l}
      OBVIOUS
    <3>1. PICK i \in 1 .. h : x = d[i]
      BY DEF Unused
    <3>. QED BY <2>1, <3>1
  <2>5. Unused(m, f) \subseteq Unused(h, d)
    <3> SUFFICES ASSUME NEW x \in Unused(m, f) PROVE x \in Unused(h, d)
      OBVIOUS
    <3>1. PICK i \in 1 .. m : x = f[i]
      BY DEF Unused
    <3>. QED BY <2>2, <3>1
  <2>. QED BY <2>3, <2>4, <2>5
<1>. QED BY <1>1, <1>2, <1>3, <1>4, <1>5, <1>6, <1>7 DEF Stacked

\* The first k free lines are taken.
Untouched(next, next2, m, f, k) == \A i \in k + 1 .. m : next2[f[i]] = next[f[i]]
Popped(m, f, k) == [i \in 1 .. m - k + 1 |-> f[i + k]]

LEMMA StackPop ==
    ASSUME NEW next, NEW next2, NEW first, NEW m, NEW f, Stacked(next, first, m, f),
           NEW k \in 0 .. m, Untouched(next, next2, m, f, k)
    PROVE  /\ Stacked(next2, f[k + 1], m - k, Popped(m, f, k))
           /\ Unused(m - k, Popped(m, f, k)) = Unused(m, f) \ Unused(k, f)
<1> DEFINE h == m - k
           d == Popped(m, f, k)
<1>1. /\ m \in Nat /\ h \in Nat /\ h = m - k /\ k \in Nat
      /\ f \in [1 .. m + 1 -> Lines \cup {NULL}]
      /\ f[m + 1] = NULL /\ \A i \in 1 .. m : f[i] \in Lines
      /\ \A i \in 1 .. m : next[f[i]] = f[i + 1]
  BY DEF Stacked
<1>2. \A i \in 1 .. h + 1 : d[i] = f[i + k] /\ i + k \in 1 .. m + 1
  BY <1>1 DEF Popped
<1>3. d \in [1 .. h + 1 -> Lines \cup {NULL}]
  BY <1>1 DEF Popped
<1>4. d[h + 1] = NULL /\ d[1] = f[k + 1]
  <2>1. h + 1 \in 1 .. h + 1 /\ 1 \in 1 .. h + 1 /\ h + 1 + k = m + 1 /\ 1 + k = k + 1
    BY <1>1
  <2>. QED BY <1>1, <1>2, <2>1
<1>5. \A i \in 1 .. h : d[i] = f[i + k] /\ i + k \in 1 .. m /\ i + k \in k + 1 .. m
                        /\ d[i + 1] = f[i + k + 1]
  <2> SUFFICES ASSUME NEW i \in 1 .. h
               PROVE  d[i] = f[i + k] /\ i + k \in 1 .. m /\ i + k \in k + 1 .. m
                      /\ d[i + 1] = f[i + k + 1]
    OBVIOUS
  <2>1. i \in 1 .. h + 1 /\ i + 1 \in 1 .. h + 1 /\ i + 1 + k = i + k + 1
    BY <1>1
  <2>2. i + k \in 1 .. m /\ i + k \in k + 1 .. m
    BY <1>1
  <2>. QED BY <1>2, <2>1, <2>2
<1>6. ASSUME NEW i \in 1 .. h, NEW j \in 1 .. h, d[i] = d[j] PROVE i = j
  <2>1. i + k = j + k
    BY <1>5, <1>6 DEF Stacked
  <2>. QED BY <1>1, <2>1
<1>7. ASSUME NEW i \in 1 .. h PROVE d[i] \in Lines /\ next2[d[i]] = d[i + 1]
  BY <1>1, <1>5 DEF Untouched
<1>8. Unused(h, d) = Unused(m, f) \ Unused(k, f)
  <2>1. ASSUME NEW i \in 1 .. h PROVE d[i] \in Unused(m, f) /\ \A j \in 1 .. k : d[i] # f[j]
    <3>1. \A j \in 1 .. k : j \in 1 .. m /\ j # i + k
      BY <1>1
    <3>2. \A j \in 1 .. k : f[i + k] # f[j]
      BY <1>5, <3>1 DEF Stacked
    <3>. QED BY <1>5, <3>2 DEF Unused
  <2>2. ASSUME NEW i \in 1 .. m, \A j \in 1 .. k : f[i] # f[j] PROVE f[i] \in Unused(h, d)
    <3>1. ~(i \in 1 .. k)
      BY <2>2
    <3>2. i - k \in 1 .. h /\ (i - k) + k = i
      BY <1>1, <3>1
    <3>3. d[i - k] = f[i]
      BY <1>5, <3>2
    <3>. QED BY <3>2, <3>3 DEF Unused
  <2>3. ASSUME NEW x \in Unused(h, d) PROVE x \in Unused(m, f) \ Unused(k, f)
    <3>1. PICK i \in 1 .. h : x = d[i]
      BY DEF Unused
    <3>. QED BY <2>1, <3>1 DEF Unused
  <2>4. ASSUME NEW x \in Unused(m, f) \ Unused(k, f) PROVE x \in Unused(h, d)
    <3>1. PICK i \in 1 .. m : x = f[i]
      BY DEF Unused
    <3>2. \A j \in 1 .. k : f[i] # f[j]
      BY <2>4, <3>1 DEF Unused
    <3>. QED BY <2>2, <3>1, <3>2
  <2>. QED BY <2>3, <2>4
<1>9. Stacked(next2, f[k + 1], h, d)
  <2> HIDE DEF h, d
  <2>. QED BY <1>1, <1>3, <1>4, <1>6, <1>7 DEF Stacked
<1>. QED BY <1>8, <1>9

-----------------------------------------------------------------------------
(* Freeing lines *)

Tokens == UNION {ToSet(t) : t \in Typed \cup ToSet(File)}

\* A text is a sequence of at most WorkLrecl tokens.
LEMMA TextIs ==
    /\ \A k \in 0 .. WorkLrecl : [1 .. k -> Tokens] \subseteq Texts
    /\ \A txt \in Texts : txt \in Seq(Tokens) /\ Len(txt) \in 0 .. WorkLrecl
    /\ <<>> \in Texts
<1>1. Texts = UNION {[1 .. k -> Tokens] : k \in 0 .. WorkLrecl} /\ WorkLrecl \in Nat
  BY EditorAssumption DEF Texts, BoundedSeq, SeqOf, Tokens
<1>2. ASSUME NEW txt \in Texts PROVE txt \in Seq(Tokens) /\ Len(txt) \in 0 .. WorkLrecl
  <2>1. PICK k \in 0 .. WorkLrecl : txt \in [1 .. k -> Tokens]
    BY <1>1
  <2>2. txt \in Seq(Tokens) /\ Len(txt) = k
    BY <1>1, <2>1
  <2>. QED BY <2>2
<1>3. \A k \in 0 .. WorkLrecl : [1 .. k -> Tokens] \subseteq Texts
  BY <1>1
<1>4. <<>> \in [1 .. 0 -> Tokens] /\ 0 \in 0 .. WorkLrecl
  BY <1>1
<1>. QED BY <1>2, <1>3, <1>4

\* A line that was given up, and is neither in the list nor free, is freed.
LEMMA FreeOne ==
    ASSUME NEW e, NEW starved0, NEW G, KeptBut(e, starved0, G), NEW l \in G
    PROVE  KeptBut(FreeLine(e, l), starved0, G \ {l})
<1>1. PICK n, w, m, f : Sound(e, n, w, m, f, G) /\ AllThere(starved0, n, w, m, f, G)
  BY DEF KeptBut
<1> DEFINE e2 == FreeLine(e, l)
           h == m + 1
           d == [i \in 1 .. m + 2 |-> IF i = 1 THEN l ELSE f[i - 1]]
<1>2. /\ l \in Lines /\ l \in Slots /\ l \notin Listed(n, w) /\ l \notin Unused(m, f)
      /\ l # BOF /\ l # EOF /\ l # NULL
  BY <1>1, Guards DEF Sound
<1>3. Shaped(e)
  BY <1>1 DEF Sound
<1>4. /\ e2.next = [e.next EXCEPT ![l] = e.firstFree] /\ e2.prev = [e.prev EXCEPT ![l] = NULL]
      /\ e2.mine = [e.mine EXCEPT ![l] = FALSE] /\ e2.text = [e.text EXCEPT ![l] = <<>>]
      /\ e2.firstFree = l /\ e2.cur = e.cur /\ e2.curNo = e.curNo /\ e2.count = e.count
      /\ e2.marks = [k \in MarkNos |-> IF e.marks[k] = l THEN NULL ELSE e.marks[k]]
      /\ e2.modified = e.modified /\ e2.oom = e.oom /\ e2.broken = e.broken
  BY <1>3 DEF FreeLine, Shaped, Fields
<1>5. e2 = [x \in Fields |-> e2[x]]
  BY <1>3 DEF FreeLine, Shaped, Fields
<1> HIDE DEF e2, h, d
<1>6. Shaped(e2)
  <2>1. e2.mine \in [Slots -> BOOLEAN]
    BY <1>2, <1>3, <1>4 DEF Shaped
  <2>2. e2.next \in [Slots -> Pointers] /\ e2.prev \in [Slots -> Pointers]
    BY <1>2, <1>3, <1>4, Guards DEF Shaped
  <2>3. e2.text \in [Lines -> Texts]
    BY <1>2, <1>3, <1>4, TextIs DEF Shaped
  <2>4. e2.marks \in [MarkNos -> Pointers]
    BY <1>3, <1>4, Guards DEF Shaped
  <2>. QED BY <1>2, <1>3, <1>4, <1>5, <2>1, <2>2, <2>3, <2>4 DEF Shaped
<1>7. Stacked(e2.next, e2.firstFree, h, d) /\ Unused(h, d) = Unused(m, f) \cup {l}
  <2>1. Stacked(e.next, e.firstFree, m, f)
    BY <1>1 DEF Sound
  <2>2. e2.next[l] = e.firstFree /\ \A x \in Unused(m, f) : e2.next[x] = e.next[x]
    BY <1>2, <1>3, <1>4 DEF Shaped
  <2>3. h = m + 1 /\ d = [i \in 1 .. m + 2 |-> IF i = 1 THEN l ELSE f[i - 1]]
    BY DEF h, d
  <2>4. Stacked(e2.next, l, h, d) /\ Unused(h, d) = Unused(m, f) \cup {l}
    BY <1>2, <2>1, <2>2, <2>3, StackPush
  <2>. QED BY <1>4, <2>4
<1>8. Chained(e2.next, e2.prev, n, w)
  <2>1. Chained(e.next, e.prev, n, w)
    BY <1>1 DEF Sound
  <2>2. \A i \in 0 .. n + 1 : w[i] # l
    <3> SUFFICES ASSUME NEW i \in 0 .. n + 1, w[i] = l PROVE FALSE
      OBVIOUS
    <3>1. i # 0 /\ i # n + 1
      BY <1>2, <2>1 DEF Chained
    <3>2. i \in 1 .. n
      BY <2>1, <3>1 DEF Chained
    <3>. QED BY <1>2, <3>2 DEF Listed
  <2>3. \A i \in 0 .. n + 1 : e2.next[w[i]] = e.next[w[i]] /\ e2.prev[w[i]] = e.prev[w[i]]
    BY <1>3, <1>4, <2>1, <2>2 DEF Shaped, Chained
  <2>4. \A i \in 0 .. n : i \in 0 .. n + 1 /\ i + 1 \in 0 .. n + 1
    BY <2>1 DEF Chained
  <2>. QED BY <2>1, <2>3, <2>4 DEF Chained
<1>9. Holds(e2, n, w, h, d, G \ {l})
  <2>1. Holds(e, n, w, m, f, G) /\ Listed(n, w) \cap Unused(m, f) = {} /\ Listed(n, w) \subseteq Slots
    BY <1>1, Guards DEF Sound, Chained, Listed
  <2>2. \A x \in Listed(n, w) : e2.mine[x]
    BY <1>2, <1>3, <1>4, <2>1 DEF Holds, Shaped
  <2>3. \A x \in Unused(h, d) : ~e2.mine[x]
    <3>1. Unused(m, f) \subseteq Slots
      BY <1>1, Guards DEF Sound, Stacked, Unused
    <3>2. ~e2.mine[l]
      BY <1>2, <1>3, <1>4 DEF Shaped
    <3>3. \A x \in Unused(m, f) : ~e2.mine[x]
      BY <1>2, <1>3, <1>4, <2>1, <3>1 DEF Holds, Shaped
    <3>. QED BY <1>7, <3>2, <3>3
  <2>4. \A k \in MarkNos : e2.marks[k] \in Listed(n, w) \cup {NULL, BOF} \cup (G \ {l})
    BY <1>4, <2>1 DEF Holds
  <2>. QED BY <1>4, <2>1, <2>2, <2>3, <2>4 DEF Holds
<1>10. Sound(e2, n, w, h, d, G \ {l})
  BY <1>1, <1>2, <1>6, <1>7, <1>8, <1>9 DEF Sound
<1>11. AllThere(starved0, n, w, h, d, G \ {l})
  BY <1>1, <1>7 DEF AllThere
<1>12. KeptBut(e2, starved0, G \ {l})
  BY <1>10, <1>11 DEF KeptBut
<1>. QED BY <1>12 DEF e2

\* The two functions that are called in turn, and what comes of that.
Turn(freeing, e, x) == IF freeing THEN FreeLine(e, x) ELSE InsertLine(e, x)
TurnOf(freeing, e, c, k, u) ==
    u = [i \in 0 .. k |-> IF i = 0 THEN e ELSE Turn(freeing, u[i - 1], c[i])]

LEMMA TurnExists ==
    ASSUME NEW freeing, NEW e, NEW c, NEW k \in Nat
    PROVE  \E u : TurnOf(freeing, e, c, k, u)
<1> DEFINE bad == {j \in Nat : ~\E u : TurnOf(freeing, e, c, j, u)}
<1>1. 0 \notin bad
  <2> DEFINE u == [i \in 0 .. 0 |-> e]
  <2>1. u = [i \in 0 .. 0 |-> IF i = 0 THEN e ELSE Turn(freeing, u[i - 1], c[i])]
    OBVIOUS
  <2> HIDE DEF u
  <2>2. TurnOf(freeing, e, c, 0, u)
    BY <2>1 DEF TurnOf
  <2>. QED BY <2>2
<1>2. ASSUME NEW j \in Nat, j # 0, j - 1 \notin bad PROVE j \notin bad
  <2>1. j - 1 \in Nat
    BY <1>2
  <2>2. PICK u : TurnOf(freeing, e, c, j - 1, u)
    BY <1>2, <2>1
  <2> DEFINE v == [i \in 0 .. j |-> IF i = j THEN Turn(freeing, u[j - 1], c[j]) ELSE u[i]]
             x == [i \in 0 .. j |-> IF i = 0 THEN e ELSE Turn(freeing, v[i - 1], c[i])]
  <2>3. \A i \in 0 .. j - 1 : u[i] = IF i = 0 THEN e ELSE Turn(freeing, u[i - 1], c[i])
    BY <2>1, <2>2 DEF TurnOf
  <2>4. ASSUME NEW i \in 0 .. j PROVE v[i] = x[i]
    <3>1. CASE i = j
      BY <1>2, <2>1, <3>1
    <3>2. CASE i # j /\ i # 0
      <4>1. i \in 0 .. j - 1 /\ i - 1 \in 0 .. j /\ i - 1 # j
        BY <3>2
      <4>2. v[i] = u[i] /\ v[i - 1] = u[i - 1]
        BY <3>2, <4>1
      <4>. QED BY <2>3, <3>2, <4>1, <4>2
    <3>3. CASE i # j /\ i = 0
      <4>1. i \in 0 .. j - 1 /\ v[i] = u[i]
        BY <2>1, <3>3
      <4>. QED BY <2>3, <3>3, <4>1
    <3>. QED BY <3>1, <3>2, <3>3
  <2>5. v = x
    BY <2>4
  <2> HIDE DEF v
  <2>6. TurnOf(freeing, e, c, j, v)
    BY <2>5 DEF TurnOf
  <2>. QED BY <2>6
<1>3. bad = {}
  <2>1. bad \subseteq Nat
    OBVIOUS
  <2> HIDE DEF bad
  <2> SUFFICES ASSUME bad # {} PROVE FALSE
    OBVIOUS
  <2>2. PICK j \in bad : \A y \in bad : j =< y
    BY <2>1, LeastNumber
  <2>3. j \in Nat /\ j # 0
    BY <1>1, <2>1
  <2>4. j - 1 \notin bad
    BY <2>1, <2>2, <2>3
  <2>. QED BY <1>2, <2>3, <2>4
<1>. QED BY <1>3

LEMMA FreeAll ==
    ASSUME NEW e, NEW starved0, NEW k \in Nat, NEW c \in [1 .. k -> Lines], Distinct(k, c),
           KeptBut(e, starved0, {c[i] : i \in 1 .. k})
    PROVE  Kept(InTurn(FreeLine, e, c), starved0)
<1> DEFINE after == CHOOSE u : TurnOf(TRUE, e, c, k, u)
           left(j) == {c[i] : i \in j + 1 .. k}
           bad == {j \in 0 .. k : ~KeptBut(after[j], starved0, left(j))}
<1>1. InTurn(FreeLine, e, c) = after[k]
  <2>1. Len(c) = k
    OBVIOUS
  <2>. QED BY <2>1 DEF InTurn, TurnOf, Turn
<1>2. TurnOf(TRUE, e, c, k, after)
  BY TurnExists
<1> HIDE DEF after
<1>3. after[0] = e
  BY <1>2 DEF TurnOf
<1>4. \A j \in 1 .. k : after[j] = FreeLine(after[j - 1], c[j])
  BY <1>2 DEF TurnOf, Turn
<1>5. 0 \notin bad
  <2>1. left(0) = {c[i] : i \in 1 .. k}
    OBVIOUS
  <2>. QED BY <1>3, <2>1
<1>6. ASSUME NEW j \in 1 .. k, j - 1 \notin bad PROVE j \notin bad
  <2>1. j - 1 \in 0 .. k
    OBVIOUS
  <2>2. KeptBut(after[j - 1], starved0, left(j - 1))
    BY <1>6, <2>1
  <2>3. c[j] \in left(j - 1)
    OBVIOUS
  <2>4. left(j - 1) \ {c[j]} = left(j)
    <3>1. \A i \in j .. k : i # j => i \in j + 1 .. k
      OBVIOUS
    <3>2. \A i \in j + 1 .. k : i \in j .. k /\ c[i] # c[j]
      BY DEF Distinct
    <3>. QED BY <3>1, <3>2
  <2> HIDE DEF left
  <2>5. KeptBut(FreeLine(after[j - 1], c[j]), starved0, left(j - 1) \ {c[j]})
    BY <2>2, <2>3, FreeOne
  <2>. QED BY <1>4, <2>4, <2>5
<1>7. bad = {}
  <2>1. bad \subseteq Nat /\ \A j \in bad : j \in 0 .. k
    OBVIOUS
  <2> HIDE DEF bad
  <2> SUFFICES ASSUME bad # {} PROVE FALSE
    OBVIOUS
  <2>2. PICK j \in bad : \A y \in bad : j =< y
    BY <2>1, LeastNumber
  <2>3. j \in 1 .. k
    BY <1>5, <2>1
  <2>4. j - 1 \notin bad
    BY <2>1, <2>2, <2>3
  <2>. QED BY <1>6, <2>3, <2>4
<1>8. KeptBut(after[k], starved0, left(k))
  <2>1. k \in 0 .. k
    OBVIOUS
  <2>2. k \notin bad
    <3> HIDE DEF bad
    <3>. QED BY <1>7
  <2>. QED BY <2>1, <2>2
<1>9. left(k) = {}
  OBVIOUS
<1>. QED BY <1>1, <1>8, <1>9 DEF Kept

-----------------------------------------------------------------------------
(* Calls that relink nothing *)

Members(e) == ToSet(Chain(e))

LEMMA KeptFacts ==
    ASSUME NEW e, NEW starved0, Kept(e, starved0)
    PROVE  /\ Shaped(e) /\ Members(e) \subseteq Lines /\ ~e.broken
           /\ e.cur \in Members(e) \cup {BOF} /\ e.prev[EOF] \in Members(e) \cup {BOF}
           /\ \A k \in MarkNos : e.marks[k] \in Members(e) \cup {NULL, BOF}
           /\ \A l : PlaceOf(e, l) \in Int
           /\ \A l : PlaceOf(e, l) # -1 => l \in Members(e) \cup {BOF, EOF}
           /\ \A l \in Members(e) : e.mine[l]
<1>1. PICK n, w, m, f : Sound(e, n, w, m, f, {}) /\ AllThere(starved0, n, w, m, f, {})
  BY DEF Kept, KeptBut
<1>2. Chained(e.next, e.prev, n, w) /\ Shaped(e) /\ Holds(e, n, w, m, f, {})
  BY <1>1 DEF Sound
<1>3. Members(e) = Listed(n, w)
  BY <1>2, ChainIs DEF Members
<1>4. Listed(n, w) \subseteq Lines
  BY <1>2 DEF Chained, Listed
<1>5. e.prev[EOF] \in Listed(n, w) \cup {BOF}
  <2>1. e.prev[EOF] = w[n] /\ n \in Nat /\ w[0] = BOF
    BY <1>2 DEF Chained
  <2>. QED BY <2>1 DEF Listed
<1>6. ASSUME NEW l
      PROVE  PlaceOf(e, l) \in Int /\ (PlaceOf(e, l) # -1 => l \in Listed(n, w) \cup {BOF, EOF})
  <2>1. CASE \A p \in 0 .. n + 1 : w[p] # l
    <3>1. PlaceOf(e, l) = -1
      BY <1>2, <2>1, PlaceIs
    <3>. QED BY <3>1
  <2>2. CASE ~\A p \in 0 .. n + 1 : w[p] # l
    <3>1. PICK p \in 0 .. n + 1 : w[p] = l
      BY <2>2
    <3>2. PlaceOf(e, w[p]) = p
      BY <1>2, PlaceIs
    <3>3. n \in Nat /\ w[0] = BOF /\ w[n + 1] = EOF
      BY <1>2 DEF Chained
    <3>4. p = 0 \/ p = n + 1 \/ p \in 1 .. n
      BY <3>3
    <3>5. l \in Listed(n, w) \cup {BOF, EOF}
      BY <3>1, <3>3, <3>4 DEF Listed
    <3>. QED BY <3>1, <3>2, <3>5
  <2>. QED BY <2>1, <2>2
<1>. QED BY <1>2, <1>3, <1>4, <1>5, <1>6 DEF Holds

\* Nothing is lost when only texts, numbers and flags change, or the current
\* line and the marks become others of the list.
LEMMA Quiet ==
    ASSUME NEW e, NEW starved0, Kept(e, starved0), NEW e2, Shaped(e2),
           e2.next = e.next, e2.prev = e.prev, e2.mine = e.mine, e2.firstFree = e.firstFree,
           e2.count = e.count, e2.broken = e.broken, e2.cur \in Members(e) \cup {BOF},
           \A k \in MarkNos : e2.marks[k] \in Members(e) \cup {NULL, BOF}
    PROVE  Kept(e2, starved0)
<1>1. PICK n, w, m, f : Sound(e, n, w, m, f, {}) /\ AllThere(starved0, n, w, m, f, {})
  BY DEF Kept, KeptBut
<1>2. Members(e) = Listed(n, w)
  <2>1. Chained(e.next, e.prev, n, w)
    BY <1>1 DEF Sound
  <2>. QED BY <2>1, ChainIs DEF Members
<1>3. Holds(e2, n, w, m, f, {})
  BY <1>1, <1>2 DEF Sound, Holds
<1>4. Sound(e2, n, w, m, f, {})
  BY <1>1, <1>3 DEF Sound
<1>. QED BY <1>1, <1>4 DEF Kept, KeptBut

LEMMA UpdateKeeps ==
    ASSUME NEW e, NEW starved0, Kept(e, starved0), NEW l \in Lines, NEW txt \in Texts
    PROVE  Kept(UpdateLine(e, l, txt), starved0)
<1> DEFINE e2 == UpdateLine(e, l, txt)
<1>1. Shaped(e)
  BY KeptFacts
<1>2. /\ e2.next = e.next /\ e2.prev = e.prev /\ e2.mine = e.mine
      /\ e2.text = [e.text EXCEPT ![l] = txt] /\ e2.firstFree = e.firstFree /\ e2.cur = e.cur
      /\ e2.curNo = e.curNo /\ e2.count = e.count /\ e2.marks = e.marks
      /\ e2.modified \in BOOLEAN /\ e2.oom = e.oom /\ e2.broken = e.broken
      /\ e2 = [x \in Fields |-> e2[x]]
  BY <1>1 DEF UpdateLine, Shaped, Fields
<1> HIDE DEF e2
<1>3. Shaped(e2)
  <2>1. e2.text \in [Lines -> Texts]
    BY <1>1, <1>2 DEF Shaped
  <2>. QED BY <1>1, <1>2, <2>1 DEF Shaped
<1>4. Kept(e2, starved0)
  <2>1. e2.cur \in Members(e) \cup {BOF} /\ \A k \in MarkNos : e2.marks[k] \in Members(e) \cup {NULL, BOF}
    BY <1>2, KeptFacts
  <2>. QED BY <1>2, <1>3, <2>1, Quiet
<1>. QED BY <1>4 DEF e2

\* The current line becomes another one of the list, or the guard line.
LEMMA MovingKeeps ==
    ASSUME NEW e, NEW starved0, Kept(e, starved0), NEW l \in Members(e) \cup {BOF}, NEW no \in Int
    PROVE  Kept([e EXCEPT !.cur = l, !.curNo = no], starved0)
<1> DEFINE e2 == [e EXCEPT !.cur = l, !.curNo = no]
<1>1. Shaped(e) /\ l \in Pointers
  BY KeptFacts, Guards
<1>2. /\ e2.next = e.next /\ e2.prev = e.prev /\ e2.mine = e.mine /\ e2.text = e.text
      /\ e2.firstFree = e.firstFree /\ e2.cur = l /\ e2.curNo = no /\ e2.count = e.count
      /\ e2.marks = e.marks /\ e2.modified = e.modified /\ e2.oom = e.oom /\ e2.broken = e.broken
      /\ e2 = [x \in Fields |-> e2[x]]
  BY <1>1 DEF Shaped, Fields
<1> HIDE DEF e2
<1>3. Shaped(e2)
  BY <1>1, <1>2 DEF Shaped
<1>4. Kept(e2, starved0)
  <2>1. \A k \in MarkNos : e2.marks[k] \in Members(e) \cup {NULL, BOF}
    BY <1>2, KeptFacts
  <2>. QED BY <1>2, <1>3, <2>1, Quiet
<1>. QED BY <1>4 DEF e2

\* A move in the form the model gives it: two fields, or the number only.
LEMMA RecomputeKeeps ==
    ASSUME NEW e, NEW starved0, Kept(e, starved0)
    PROVE  Kept(RecomputeNo(e), starved0)
<1> DEFINE no == IF e.cur \in {NULL, BOF} THEN 0 ELSE PlaceOf(e, e.cur) + 1
<1>1. no \in Int
  BY KeptFacts
<1> HIDE DEF no
<1>2. Shaped(e) /\ e.cur \in Members(e) \cup {BOF}
  BY KeptFacts
<1>3. RecomputeNo(e) = [e EXCEPT !.curNo = no]
  BY DEF RecomputeNo, no
<1>4. [e EXCEPT !.curNo = no] = [e EXCEPT !.cur = e.cur, !.curNo = no]
  BY <1>2 DEF Shaped, Fields
<1>5. Kept([e EXCEPT !.cur = e.cur, !.curNo = no], starved0)
  BY <1>1, <1>2, MovingKeeps
<1>. QED BY <1>3, <1>4, <1>5

\* Only the number changes.
LEMMA RecomputeIs ==
    ASSUME NEW e, Shaped(e), NEW d, d = RecomputeNo(e)
    PROVE  /\ d.next = e.next /\ d.prev = e.prev /\ d.text = e.text /\ d.mine = e.mine
           /\ d.cur = e.cur /\ d.marks = e.marks
<1> DEFINE no == IF e.cur \in {NULL, BOF} THEN 0 ELSE PlaceOf(e, e.cur) + 1
<1>1. d = [e EXCEPT !.curNo = no]
  BY DEF RecomputeNo
<1> HIDE DEF no
<1>. QED BY <1>1 DEF Shaped, Fields

\* Another line is the current one.
Moving(e, d) ==
    \E l \in Members(e) \cup {BOF} : \E no \in Int : d = [e EXCEPT !.cur = l, !.curNo = no]

LEMMA ToBOFMoves ==
    ASSUME NEW e
    PROVE  Moving(e, MoveToBOF(e))
<1>1. 0 \in Int /\ BOF \in Members(e) \cup {BOF}
  OBVIOUS
<1>. QED BY <1>1 DEF MoveToBOF, Moving

LEMMA ToLastMoves ==
    ASSUME NEW e, NEW starved0, Kept(e, starved0)
    PROVE  Moving(e, MoveToLastLine(e))
<1>1. e.count \in Int /\ e.prev[EOF] \in Members(e) \cup {BOF}
  BY KeptFacts DEF Shaped
<1>. QED BY <1>1 DEF MoveToLastLine, Moving

LEMMA ToLineMoves ==
    ASSUME NEW e, NEW starved0, Kept(e, starved0), NEW l
    PROVE  Moving(e, MoveToLine(e, l))
<1>1. CASE l \in {NULL, BOF}
  BY <1>1, ToBOFMoves DEF MoveToLine
<1>2. CASE l \notin {NULL, BOF} /\ (l = EOF \/ PlaceOf(e, l) = -1)
  BY <1>2, ToLastMoves DEF MoveToLine
<1>3. CASE l \notin {NULL, BOF} /\ ~(l = EOF \/ PlaceOf(e, l) = -1)
  <2>1. PlaceOf(e, l) \in Int /\ l \in Members(e) \cup {BOF, EOF}
    BY <1>3, KeptFacts
  <2>2. l \in Members(e) \cup {BOF}
    BY <1>3, <2>1
  <2>3. MoveToLine(e, l) = [e EXCEPT !.cur = l, !.curNo = PlaceOf(e, l)]
    BY <1>3 DEF MoveToLine
  <2>. QED BY <2>1, <2>2, <2>3 DEF Moving
<1>. QED BY <1>1, <1>2, <1>3

LEMMA ByMoves ==
    ASSUME NEW e, NEW starved0, Kept(e, starved0), NEW by \in Int
    PROVE  Moving(e, MoveBy(e, by))
<1>1. PICK n, w, m, f : Sound(e, n, w, m, f, {}) /\ AllThere(starved0, n, w, m, f, {})
  BY DEF Kept, KeptBut
<1>2. Chained(e.next, e.prev, n, w) /\ Shaped(e) /\ Holds(e, n, w, m, f, {})
  BY <1>1 DEF Sound
<1>3. n \in Nat /\ w[0] = BOF /\ 0 \in 0 .. n + 1
  BY <1>2 DEF Chained
<1>4. Chain(e) = [i \in 1 .. n |-> w[i]] /\ Members(e) = Listed(n, w)
  BY <1>2, ChainIs DEF Members
<1>5. Len(Chain(e)) = n
  BY <1>3, <1>4
<1>6. PICK p \in 0 .. n : e.cur = w[p]
  <2>1. e.cur \in Listed(n, w) \cup {BOF}
    BY <1>2 DEF Holds
  <2>2. CASE e.cur = BOF
    BY <1>3, <2>2
  <2>3. CASE e.cur \in Listed(n, w)
    <3>1. PICK i \in 1 .. n : e.cur = w[i]
      BY <2>3 DEF Listed
    <3>. QED BY <1>3, <3>1
  <2>. QED BY <2>1, <2>2, <2>3
<1>7. PlaceOf(e, e.cur) = p
  <2>1. p \in 0 .. n + 1
    BY <1>3
  <2>. QED BY <1>2, <1>6, <2>1, PlaceIs
<1> DEFINE Goal(x) == \/ x = p + by
                      \/ x = 0 /\ p + by < 0
                      \/ x = n /\ p + by > x
           to == CHOOSE x \in 0 .. n : Goal(x)
<1>8. to \in 0 .. n
  <2>1. \E x \in 0 .. n : Goal(x)
    <3>1. CASE p + by < 0
      BY <1>3, <3>1
    <3>2. CASE p + by > n
      BY <1>3, <3>2
    <3>3. CASE p + by \in 0 .. n
      BY <3>3
    <3>. QED BY <1>3, <3>1, <3>2, <3>3
  <2>. QED BY <2>1
<1>9. MoveBy(e, by) = [e EXCEPT !.cur = Follow(e, BOF)[to + 1], !.curNo = @ + to - p]
  BY <1>5, <1>7 DEF MoveBy
<1> HIDE DEF to
<1>10. Follow(e, BOF)[to + 1] = w[to]
  <2>1. Follow(e, w[0]) = Onward(n, w, 0)
    BY <1>2, <1>3, WalkFrom
  <2>2. to + 1 \in 1 .. n + 2 - 0 /\ 0 + (to + 1) - 1 = to
    BY <1>3, <1>8
  <2>. QED BY <1>3, <2>1, <2>2 DEF Onward
<1>11. w[to] \in Members(e) \cup {BOF}
  BY <1>3, <1>4, <1>8 DEF Listed
<1> DEFINE no == e.curNo + to - p
           at == w[to]
<1>12. no \in Int
  BY <1>2, <1>3, <1>8 DEF Shaped
<1>13. MoveBy(e, by) = [e EXCEPT !.cur = at, !.curNo = no]
  BY <1>9, <1>10
<1> HIDE DEF no
<1>14. at \in Members(e) \cup {BOF}
  BY <1>11
<1> HIDE DEF at
<1>. QED BY <1>12, <1>13, <1>14 DEF Moving

LEMMA MovingIsKept ==
    ASSUME NEW e, NEW starved0, Kept(e, starved0), NEW d, Moving(e, d)
    PROVE  Kept(d, starved0)
<1>1. PICK l \in Members(e) \cup {BOF}, no \in Int : d = [e EXCEPT !.cur = l, !.curNo = no]
  BY DEF Moving
<1>2. Kept([e EXCEPT !.cur = l, !.curNo = no], starved0)
  BY MovingKeeps
<1>. QED BY <1>1, <1>2

LEMMA MarkKeeps ==
    ASSUME NEW e, NEW starved0, Kept(e, starved0), NEW k \in MarkNos,
           NEW l, ~Own(e, l) \/ l \in Members(e) \cup {BOF}
    PROVE  Kept(SetLineMark(e, l, k), starved0)
<1>1. CASE l # NULL /\ ~Own(e, l)
  BY <1>1 DEF SetLineMark
<1>2. CASE ~(l # NULL /\ ~Own(e, l))
  <2> DEFINE e2 == [e EXCEPT !.marks[k] = l]
  <2>1. Shaped(e) /\ l \in Members(e) \cup {NULL, BOF}
    BY <1>2, KeptFacts
  <2>2. l \in Pointers
    BY <2>1, KeptFacts, Guards
  <2>3. /\ e2.next = e.next /\ e2.prev = e.prev /\ e2.mine = e.mine /\ e2.text = e.text
        /\ e2.firstFree = e.firstFree /\ e2.cur = e.cur /\ e2.curNo = e.curNo
        /\ e2.count = e.count /\ e2.marks = [e.marks EXCEPT ![k] = l]
        /\ e2.modified = e.modified /\ e2.oom = e.oom /\ e2.broken = e.broken
        /\ e2 = [x \in Fields |-> e2[x]]
    BY <2>1 DEF Shaped, Fields
  <2> HIDE DEF e2
  <2>4. Shaped(e2)
    <3>1. e2.marks \in [MarkNos -> Pointers]
      BY <2>1, <2>2, <2>3 DEF Shaped
    <3>. QED BY <2>1, <2>3, <3>1 DEF Shaped
  <2>5. Kept(e2, starved0)
    <3>1. e2.cur \in Members(e) \cup {BOF}
      BY <2>3, KeptFacts
    <3>2. \A j \in MarkNos : e.marks[j] \in Members(e) \cup {NULL, BOF}
      BY KeptFacts
    <3>3. \A j \in MarkNos : e2.marks[j] \in Members(e) \cup {NULL, BOF}
      BY <2>1, <2>3, <3>2 DEF Shaped
    <3>. QED BY <2>3, <2>4, <3>1, <3>3, Quiet
  <2>6. SetLineMark(e, l, k) = e2
    BY <1>2 DEF SetLineMark, e2
  <2>. QED BY <2>5, <2>6
<1>. QED BY <1>1, <1>2

-----------------------------------------------------------------------------
(* Deleting lines *)

\* Lines p to q are unlinked; they are neither in the list nor free then, and
\* a mark may still be at one of them.
Unlinked(e, w, p, q, e2) ==
    /\ Shaped(e2)
    /\ e2.next = [e.next EXCEPT ![w[p - 1]] = w[q + 1]]
    /\ e2.prev = [e.prev EXCEPT ![w[q + 1]] = w[p - 1]]
    /\ e2.mine = e.mine /\ e2.firstFree = e.firstFree /\ e2.count = e.count - (q - p + 1)
    /\ e2.broken = e.broken /\ e2.marks = e.marks
    /\ e2.cur = (IF e.cur \in {w[i] : i \in p .. q} THEN w[p - 1] ELSE e.cur)

LEMMA CutKeeps ==
    ASSUME NEW e, NEW starved0, NEW n, NEW w, NEW m, NEW f, Sound(e, n, w, m, f, {}),
           AllThere(starved0, n, w, m, f, {}),
           NEW p \in 1 .. n, NEW q \in 1 .. n, p =< q, NEW e2, Unlinked(e, w, p, q, e2)
    PROVE  KeptBut(e2, starved0, {w[i] : i \in p .. q})
<1> DEFINE g == n - (q - p + 1)
           v == Cut(n, w, p, q)
           G == {w[i] : i \in p .. q}
<1>1. /\ Chained(e.next, e.prev, n, w) /\ Stacked(e.next, e.firstFree, m, f) /\ Shaped(e)
      /\ Holds(e, n, w, m, f, {}) /\ Listed(n, w) \cap Unused(m, f) = {}
  BY DEF Sound
<1>2. /\ n \in Nat /\ p - 1 \in 0 .. n /\ q + 1 \in 1 .. n + 1
      /\ \A i \in 0 .. n + 1 : w[i] \in Slots
      /\ \A i, k \in 0 .. n + 1 : w[i] = w[k] => i = k
      /\ \A i \in 1 .. n : w[i] \in Lines
  BY <1>1 DEF Chained
<1>3. \A x \in Slots : /\ x # w[p - 1] => e2.next[x] = e.next[x]
                       /\ x # w[q + 1] => e2.prev[x] = e.prev[x]
  BY <1>1, <1>2 DEF Shaped, Unlinked
<1>4. e2.next[w[p - 1]] = w[q + 1] /\ e2.prev[w[q + 1]] = w[p - 1]
  <2>1. w[p - 1] \in Slots /\ w[q + 1] \in Slots
    BY <1>2
  <2>. QED BY <1>1, <2>1 DEF Shaped, Unlinked
<1>5. Chained(e2.next, e2.prev, g, v) /\ Listed(g, v) = Listed(n, w) \ G
  <2>1. \A i \in 0 .. n : (i < p - 1 \/ i > q) => e2.next[w[i]] = e.next[w[i]]
    <3> SUFFICES ASSUME NEW i \in 0 .. n, i < p - 1 \/ i > q PROVE e2.next[w[i]] = e.next[w[i]]
      OBVIOUS
    <3>1. i \in 0 .. n + 1 /\ p - 1 \in 0 .. n + 1 /\ i # p - 1
      BY <1>2
    <3>2. w[i] \in Slots /\ w[i] # w[p - 1]
      BY <1>2, <3>1
    <3>. QED BY <1>3, <3>2
  <2>2. \A i \in 1 .. n + 1 : (i < p \/ i > q + 1) => e2.prev[w[i]] = e.prev[w[i]]
    <3> SUFFICES ASSUME NEW i \in 1 .. n + 1, i < p \/ i > q + 1
                 PROVE  e2.prev[w[i]] = e.prev[w[i]]
      OBVIOUS
    <3>1. i \in 0 .. n + 1 /\ q + 1 \in 0 .. n + 1 /\ i # q + 1
      BY <1>2
    <3>2. w[i] \in Slots /\ w[i] # w[q + 1]
      BY <1>2, <3>1
    <3>. QED BY <1>3, <3>2
  <2>3. g = n - (q - p + 1) /\ v = Cut(n, w, p, q)
    OBVIOUS
  <2>4. LinkedOut(e.next, e.prev, n, w, p, q, e2.next, e2.prev)
    BY <1>4, <2>1, <2>2 DEF LinkedOut
  <2> HIDE DEF g, v
  <2>. QED BY <1>1, <2>3, <2>4, CutLinks
<1> HIDE DEF g, v
<1>6. G \subseteq Listed(n, w) /\ Listed(n, w) \subseteq Lines
  <2>1. \A i \in p .. q : i \in 1 .. n
    BY <1>2
  <2>. QED BY <1>2, <2>1 DEF Listed
<1>7. Stacked(e2.next, e2.firstFree, m, f)
  <2>1. \A x \in Unused(m, f) : e2.next[x] = e.next[x]
    <3> SUFFICES ASSUME NEW x \in Unused(m, f) PROVE e2.next[x] = e.next[x]
      OBVIOUS
    <3>1. x \in Lines
      BY <1>1 DEF Stacked, Unused
    <3>2. x # w[p - 1]
      <4>1. CASE p = 1
        BY <1>1, <3>1, <4>1, Guards DEF Chained
      <4>2. CASE p # 1
        <5>1. p - 1 \in 1 .. n
          BY <1>2, <4>2
        <5>. QED BY <1>1, <5>1 DEF Listed
      <4>. QED BY <4>1, <4>2
    <3>. QED BY <1>3, <3>1, <3>2, Guards
  <2>2. \A y : (\A x \in Unused(m, f) : y[x] = e.next[x]) => Stacked(y, e.firstFree, m, f)
    BY <1>1, StackStays
  <2>3. Stacked(e2.next, e.firstFree, m, f)
    BY <2>1, <2>2
  <2>. QED BY <2>3 DEF Unlinked
<1>8. w[p - 1] \in Listed(g, v) \cup {BOF}
  <2>1. CASE p = 1
    BY <1>1, <2>1 DEF Chained
  <2>2. CASE p # 1
    <3>1. p - 1 \in 1 .. n /\ ~(p - 1 \in p .. q)
      BY <1>2, <2>2
    <3>2. \A i \in p .. q : w[p - 1] # w[i]
      <4>1. \A i \in p .. q : i \in 0 .. n + 1 /\ i # p - 1
        BY <1>2
      <4>2. p - 1 \in 0 .. n + 1
        BY <1>2
      <4>. QED BY <1>2, <4>1, <4>2
    <3>3. w[p - 1] \in Listed(n, w)
      BY <3>1 DEF Listed
    <3>. QED BY <1>5, <3>2, <3>3
  <2>. QED BY <2>1, <2>2
<1> HIDE DEF G
<1>9. Holds(e2, g, v, m, f, G)
  <2>1. e2.cur \in Listed(g, v) \cup {BOF}
    BY <1>1, <1>5, <1>8 DEF Holds, G, Unlinked
  <2>2. \A k \in MarkNos : e2.marks[k] \in Listed(g, v) \cup {NULL, BOF} \cup G
    BY <1>1, <1>5 DEF Holds, Unlinked
  <2>3. e2.count = g /\ ~e2.broken
    BY <1>1 DEF Holds, g, Unlinked
  <2>4. /\ \A l \in Listed(g, v) : e2.mine[l]
        /\ \A l \in Unused(m, f) : ~e2.mine[l]
    BY <1>1, <1>5 DEF Holds, Unlinked
  <2>. QED BY <2>1, <2>2, <2>3, <2>4 DEF Holds
<1>10. Sound(e2, g, v, m, f, G)
  BY <1>1, <1>5, <1>6, <1>7, <1>9 DEF Sound, Unlinked
<1>11. AllThere(starved0, g, v, m, f, G)
  BY <1>5, <1>6 DEF AllThere
<1>12. KeptBut(e2, starved0, G)
  BY <1>10, <1>11 DEF KeptBut
<1>. QED BY <1>12 DEF G

\* The line is unlinked and freed.
LEMMA DeleteIs ==
    ASSUME NEW e, NEW n, NEW w, Chained(e.next, e.prev, n, w), Shaped(e),
           NEW p \in 1 .. n, NEW l, l = w[p]
    PROVE  \E e2 : Unlinked(e, w, p, p, e2) /\ e2.text = e.text /\ DeleteLine(e, l) = FreeLine(e2, l)
<1>2. Chained(e.next, e.prev, n, w) /\ Shaped(e)
  OBVIOUS
<1>3. l = w[p]
  OBVIOUS
<1>4. /\ n \in Nat /\ p - 1 \in 0 .. n /\ p + 1 \in 0 .. n + 1 /\ p \in 0 .. n
      /\ w[p - 1] \in Lines \cup {BOF} /\ w[p + 1] \in Lines \cup {EOF} /\ l \in Lines
      /\ e.next[l] = w[p + 1] /\ e.prev[l] = w[p - 1]
  <2>1. n \in Nat /\ p - 1 \in 0 .. n /\ p + 1 \in 0 .. n + 1 /\ p \in 0 .. n
    BY <1>2 DEF Chained
  <2>2. w[p - 1] \in Lines \cup {BOF}
    <3>1. p - 1 = 0 \/ p - 1 \in 1 .. n
      BY <2>1
    <3>. QED BY <1>2, <3>1 DEF Chained
  <2>3. w[p + 1] \in Lines \cup {EOF}
    <3>1. p + 1 = n + 1 \/ p + 1 \in 1 .. n
      BY <2>1
    <3>. QED BY <1>2, <3>1 DEF Chained
  <2>4. e.next[w[p]] = w[p + 1]
    BY <1>2, <2>1 DEF Chained
  <2>5. e.prev[w[p]] = w[p - 1]
    <3>1. e.prev[w[(p - 1) + 1]] = w[p - 1] /\ (p - 1) + 1 = p
      BY <1>2, <2>1 DEF Chained
    <3>. QED BY <3>1
  <2>. QED BY <1>2, <1>3, <2>1, <2>2, <2>3, <2>4, <2>5 DEF Chained
<1> DEFINE no == IF Contains(Follow(e, l), e.cur) THEN e.curNo - 1 ELSE e.curNo
           head == w[p - 1]
           tail == w[p + 1]
           e2 == [e EXCEPT !.count = @ - 1, !.modified = TRUE,
                           !.cur = IF @ = l THEN head ELSE @, !.curNo = no,
                           !.next[head] = tail, !.prev[tail] = head]
<1>5. no \in Int
  BY <1>2 DEF Shaped
<1>6. DeleteLine(e, l) = FreeLine(e2, l)
  <2>1. l \notin {NULL, BOF, EOF} /\ ~(NULL \in {e.next[l], e.prev[l]})
    BY <1>4, Guards
  <2>. QED BY <1>4, <2>1 DEF DeleteLine
<1> HIDE DEF no, head, tail
<1>7. /\ e2.next = [e.next EXCEPT ![head] = tail] /\ e2.prev = [e.prev EXCEPT ![tail] = head]
      /\ e2.mine = e.mine /\ e2.text = e.text /\ e2.firstFree = e.firstFree
      /\ e2.cur = (IF e.cur = l THEN head ELSE e.cur)
      /\ e2.curNo = no /\ e2.count = e.count - 1 /\ e2.marks = e.marks
      /\ e2.modified \in BOOLEAN /\ e2.oom = e.oom /\ e2.broken = e.broken
      /\ e2 = [x \in Fields |-> e2[x]]
  BY <1>2 DEF Shaped, Fields
<1> HIDE DEF e2
<1>8. Shaped(e2)
  <2>1. head \in Slots /\ tail \in Slots /\ head \in Pointers /\ tail \in Pointers
    BY <1>4, Guards DEF head, tail
  <2>2. e2.next \in [Slots -> Pointers] /\ e2.prev \in [Slots -> Pointers]
    BY <1>2, <1>7, <2>1 DEF Shaped
  <2>3. e2.cur \in Pointers /\ e2.count \in Int
    BY <1>2, <1>7, <2>1 DEF Shaped
  <2>. QED BY <1>2, <1>5, <1>7, <2>2, <2>3 DEF Shaped
<1>9. {w[i] : i \in p .. p} = {l}
  BY <1>3
<1>10. Unlinked(e, w, p, p, e2)
  <2>1. e2.cur = (IF e.cur \in {w[i] : i \in p .. p} THEN w[p - 1] ELSE e.cur)
    BY <1>7, <1>9 DEF head
  <2>2. e2.count = e.count - (p - p + 1)
    BY <1>2, <1>4, <1>7 DEF Shaped
  <2>3. /\ e2.next = [e.next EXCEPT ![w[p - 1]] = w[p + 1]]
        /\ e2.prev = [e.prev EXCEPT ![w[p + 1]] = w[p - 1]]
    BY <1>7 DEF head, tail
  <2>. QED BY <1>7, <1>8, <2>1, <2>2, <2>3 DEF Unlinked
<1>. QED BY <1>6, <1>7, <1>10

LEMMA DeleteKeeps ==
    ASSUME NEW e, NEW starved0, Kept(e, starved0), NEW l \in Members(e)
    PROVE  Kept(DeleteLine(e, l), starved0)
<1>1. PICK n, w, m, f : Sound(e, n, w, m, f, {}) /\ AllThere(starved0, n, w, m, f, {})
  BY DEF Kept, KeptBut
<1>2. Chained(e.next, e.prev, n, w) /\ Shaped(e) /\ Members(e) = Listed(n, w)
  <2>1. Chained(e.next, e.prev, n, w) /\ Shaped(e)
    BY <1>1 DEF Sound
  <2>. QED BY <2>1, ChainIs DEF Members
<1>3. PICK p \in 1 .. n : l = w[p]
  BY <1>2 DEF Listed
<1>4. PICK e2 : Unlinked(e, w, p, p, e2) /\ DeleteLine(e, l) = FreeLine(e2, l)
  BY <1>2, <1>3, DeleteIs
<1>5. KeptBut(e2, starved0, {w[i] : i \in p .. p})
  <2>1. p =< p
    BY <1>2 DEF Chained
  <2>. QED BY <1>1, <1>4, <2>1, CutKeeps
<1>6. {w[i] : i \in p .. p} = {l}
  <2>1. p .. p = {p}
    BY <1>2 DEF Chained
  <2>. QED BY <1>3, <2>1
<1>7. KeptBut(FreeLine(e2, l), starved0, {l} \ {l})
  <2>1. KeptBut(e2, starved0, {l}) /\ l \in {l}
    BY <1>5, <1>6
  <2>. QED BY <2>1, FreeOne
<1>8. {l} \ {l} = {}
  OBVIOUS
<1>. QED BY <1>4, <1>7, <1>8 DEF Kept

\* What a caller may hold on to, as LineEditor has it.
Holdable(e) == Members(e) \cup {l \in Lines : ~e.mine[l]}

LEMMA HoldableIs ==
    ASSUME NEW e, NEW starved0, Kept(e, starved0), NEW l \in Holdable(e) \cup {NULL}
    PROVE  l \in Members(e) \/ ~Own(e, l)
BY Guards DEF Holdable, Own

\* The lines of the range are unlinked, and freed one after the other.
RangeFreed(e, w, p, q, k, gone, d) ==
    /\ k \in Nat /\ gone \in [1 .. k -> Lines] /\ Distinct(k, gone)
    /\ {gone[i] : i \in 1 .. k} = {w[i] : i \in p .. q}
    /\ \E e2 : /\ Unlinked(e, w, p, q, e2) /\ e2.text = e.text
               /\ d = RecomputeNo(InTurn(FreeLine, e2, gone))

LEMMA DeleteRangeIs ==
    ASSUME NEW e, NEW n, NEW w, Chained(e.next, e.prev, n, w), Shaped(e), NEW from, NEW to,
           NEW p \in 1 .. n, NEW q \in 1 .. n, p =< q, OrderLines(e, from, to) = <<w[p], w[q]>>,
           NEW k, k = q - p + 1, NEW gone, gone = [i \in 1 .. k |-> w[p + i - 1]]
    PROVE  RangeFreed(e, w, p, q, k, gone, DeleteLineRange(e, from, to))
<1>c. Chained(e.next, e.prev, n, w) /\ Shaped(e)
  OBVIOUS
<1>1. p =< q /\ OrderLines(e, from, to) = <<w[p], w[q]>> /\ OrderLines(e, from, to) # <<>>
  OBVIOUS
<1> DEFINE head == w[p - 1]
           tail == w[q + 1]
           G == {w[i] : i \in p .. q}
           e2 == [e EXCEPT !.cur = IF Contains(gone, @) THEN head ELSE @,
                           !.next[head] = tail, !.prev[tail] = head,
                           !.modified = TRUE, !.count = @ - k]
<1>2. /\ n \in Nat /\ k \in Nat /\ \A i \in 1 .. k : p + i - 1 \in 1 .. n /\ p + i - 1 \in p .. q
      /\ p \in 0 .. n /\ q \in 0 .. n /\ p - 1 \in 0 .. n /\ p = (p - 1) + 1
      /\ \A i \in 1 .. n : w[i] \in Lines
  BY <1>c, <1>1 DEF Chained
<1>3. e.prev[w[p]] = head /\ e.next[w[q]] = tail /\ head \in Lines \cup {BOF} /\ tail \in Lines \cup {EOF}
  <2>1. e.prev[w[(p - 1) + 1]] = w[p - 1] /\ e.next[w[q]] = w[q + 1]
    BY <1>c, <1>2 DEF Chained
  <2>2. (p - 1 = 0 \/ p - 1 \in 1 .. n) /\ (q + 1 = n + 1 \/ q + 1 \in 1 .. n)
    BY <1>2
  <2>. QED BY <1>c, <1>2, <2>1, <2>2 DEF Chained
<1>4. gone \in [1 .. k -> Lines] /\ Distinct(k, gone) /\ {gone[i] : i \in 1 .. k} = G
  <2>1. gone \in [1 .. k -> Lines]
    BY <1>2
  <2>2. ASSUME NEW i \in 1 .. k, NEW j \in 1 .. k, gone[i] = gone[j] PROVE i = j
    <3>1. p + i - 1 \in 0 .. n + 1 /\ p + j - 1 \in 0 .. n + 1 /\ w[p + i - 1] = w[p + j - 1]
      BY <1>2, <2>2
    <3>2. p + i - 1 = p + j - 1
      BY <1>c, <3>1 DEF Chained
    <3>. QED BY <1>2, <3>2
  <2>3. ASSUME NEW i \in p .. q PROVE \E j \in 1 .. k : gone[j] = w[i]
    <3>1. i - p + 1 \in 1 .. k /\ p + (i - p + 1) - 1 = i
      BY <1>2
    <3>2. gone[i - p + 1] = w[i]
      BY <3>1
    <3>. QED BY <3>1, <3>2
  <2>4. \A i \in 1 .. k : gone[i] \in G
    BY <1>2
  <2>5. {gone[i] : i \in 1 .. k} \subseteq G
    BY <2>4
  <2>6. G \subseteq {gone[i] : i \in 1 .. k}
    <3> SUFFICES ASSUME NEW i \in p .. q PROVE w[i] \in {gone[j] : j \in 1 .. k}
      OBVIOUS
    <3>. QED BY <2>3
  <2>. QED BY <2>1, <2>2, <2>5, <2>6 DEF Distinct
<1>5. Between(e, w[p], w[q]) = gone
  <2> HIDE DEF e2, G, head, tail
  <2>1. RunBetween(e, n, w, p, q)
    BY <1>c, <1>1, BetweenIs
  <2>2. Run(w, p, q - p + 1) = gone
    BY DEF Run
  <2>. QED BY <2>1, <2>2 DEF RunBetween
<1>6. Len(gone) = k
  BY <1>2
<1> HIDE DEF head, tail
<1>7. DeleteLineRange(e, from, to) = RecomputeNo(InTurn(FreeLine, e2, gone))
  <2>1. head # NULL
    BY <1>3, Guards
  <2> DEFINE range == OrderLines(e, from, to)
  <2>2. range # <<>> /\ range[1] = w[p] /\ range[2] = w[q]
    BY <1>1
  <2> HIDE DEF range
  <2>3. e.prev[range[1]] = head /\ e.next[range[2]] = tail
        /\ Between(e, range[1], range[2]) = gone
    BY <1>3, <1>5, <2>2
  <2>. QED BY <1>6, <2>1, <2>2, <2>3 DEF DeleteLineRange, range
<1>8. /\ e2.next = [e.next EXCEPT ![head] = tail] /\ e2.prev = [e.prev EXCEPT ![tail] = head]
      /\ e2.mine = e.mine /\ e2.text = e.text /\ e2.firstFree = e.firstFree
      /\ e2.cur = (IF Contains(gone, e.cur) THEN head ELSE e.cur)
      /\ e2.curNo = e.curNo /\ e2.count = e.count - k /\ e2.marks = e.marks
      /\ e2.modified \in BOOLEAN /\ e2.oom = e.oom /\ e2.broken = e.broken
      /\ e2 = [x \in Fields |-> e2[x]]
  BY <1>c DEF Shaped, Fields
<1> HIDE DEF e2
<1>9. Shaped(e2)
  <2>1. head \in Slots /\ tail \in Slots /\ head \in Pointers /\ tail \in Pointers
    BY <1>3, Guards
  <2>2. e2.next \in [Slots -> Pointers] /\ e2.prev \in [Slots -> Pointers]
    BY <1>c, <1>8, <2>1 DEF Shaped
  <2>3. e2.cur \in Pointers
    BY <1>c, <1>8, <2>1 DEF Shaped
  <2>4. e2.count \in Int
    BY <1>c, <1>2, <1>8 DEF Shaped
  <2>. QED BY <1>c, <1>8, <2>2, <2>3, <2>4 DEF Shaped
<1>10. Unlinked(e, w, p, q, e2)
  <2>1. Contains(gone, e.cur) <=> e.cur \in G
    BY <1>4, <1>6 DEF Contains
  <2>2. e2.cur = (IF e.cur \in {w[i] : i \in p .. q} THEN w[p - 1] ELSE e.cur)
    BY <1>8, <2>1 DEF head
  <2>3. e2.count = e.count - (q - p + 1)
    BY <1>8
  <2>4. /\ e2.next = [e.next EXCEPT ![w[p - 1]] = w[q + 1]]
        /\ e2.prev = [e.prev EXCEPT ![w[q + 1]] = w[p - 1]]
    BY <1>8 DEF head, tail
  <2>. QED BY <1>8, <1>9, <2>2, <2>3, <2>4 DEF Unlinked
<1>. QED BY <1>2, <1>4, <1>7, <1>8, <1>10 DEF RangeFreed

LEMMA DeleteRangeKeeps ==
    ASSUME NEW e, NEW starved0, Kept(e, starved0), NEW from \in Holdable(e), NEW to \in Holdable(e)
    PROVE  Kept(DeleteLineRange(e, from, to), starved0)
<1>1. PICK n, w, m, f : Sound(e, n, w, m, f, {}) /\ AllThere(starved0, n, w, m, f, {})
  BY DEF Kept, KeptBut
<1>2. Chained(e.next, e.prev, n, w) /\ Shaped(e) /\ Members(e) = Listed(n, w)
  <2>1. Chained(e.next, e.prev, n, w) /\ Shaped(e)
    BY <1>1 DEF Sound
  <2>. QED BY <2>1, ChainIs DEF Members
<1>3. CASE OrderLines(e, from, to) = <<>>
  BY <1>3 DEF DeleteLineRange
<1>4. CASE OrderLines(e, from, to) # <<>>
  <2>1. PICK p \in 1 .. n, q \in 1 .. n : p =< q /\ OrderLines(e, from, to) = <<w[p], w[q]>>
    <3>1. from \in Listed(n, w) \/ ~Own(e, from)
      BY <1>2, HoldableIs
    <3>2. to \in Listed(n, w) \/ ~Own(e, to)
      BY <1>2, HoldableIs
    <3>3. InOrder(n, w, OrderLines(e, from, to))
      BY <1>2, <3>1, <3>2, OrderIs
    <3>. QED BY <1>4, <3>3 DEF InOrder
  <2> DEFINE k == q - p + 1
             gone == [i \in 1 .. k |-> w[p + i - 1]]
             G == {w[i] : i \in p .. q}
  <2>a. k = q - p + 1 /\ gone = [i \in 1 .. k |-> w[p + i - 1]]
    OBVIOUS
  <2> HIDE DEF k, gone
  <2>2. /\ k \in Nat /\ gone \in [1 .. k -> Lines] /\ Distinct(k, gone)
        /\ {gone[i] : i \in 1 .. k} = G
        /\ \E e2 : /\ Unlinked(e, w, p, q, e2) /\ e2.text = e.text
                   /\ DeleteLineRange(e, from, to) = RecomputeNo(InTurn(FreeLine, e2, gone))
    <3>1. RangeFreed(e, w, p, q, k, gone, DeleteLineRange(e, from, to))
      BY <1>2, <2>1, <2>a, DeleteRangeIs
    <3>. QED BY <3>1 DEF RangeFreed
  <2>3. PICK e2 : /\ Unlinked(e, w, p, q, e2) /\ e2.text = e.text
                  /\ DeleteLineRange(e, from, to) = RecomputeNo(InTurn(FreeLine, e2, gone))
    BY <2>2
  <2>4. KeptBut(e2, starved0, G)
    BY <1>1, <2>1, <2>3, CutKeeps
  <2>5. Kept(InTurn(FreeLine, e2, gone), starved0)
    <3>1. KeptBut(e2, starved0, {gone[i] : i \in 1 .. k})
      BY <2>2, <2>4
    <3>. QED BY <2>2, <3>1, FreeAll
  <2>. QED BY <2>3, <2>5, RecomputeKeeps
<1>. QED BY <1>3, <1>4

-----------------------------------------------------------------------------
(* Inserting lines *)

\* The first k free lines are linked in behind the line t.
Grown(e, n, w, m, f, t, k, e2) ==
    /\ Shaped(e2)
    /\ LinkedIn(e.next, e.prev, n, w, t, k, [i \in 1 .. k |-> f[i]], e2.next, e2.prev)
    /\ Untouched(e.next, e2.next, m, f, k)
    /\ e2.firstFree = f[k + 1] /\ e2.count = e.count + k
    /\ \A l \in Slots : e2.mine[l] <=> (e.mine[l] \/ l \in {f[i] : i \in 1 .. k})
    /\ e2.broken = e.broken /\ e2.marks = e.marks /\ e2.cur = e.cur

LEMMA SpliceKeeps ==
    ASSUME NEW e, NEW starved0, NEW n, NEW w, NEW m, NEW f, Sound(e, n, w, m, f, {}),
           AllThere(starved0, n, w, m, f, {}),
           NEW t \in 0 .. n, NEW k \in 1 .. m, NEW e2, Grown(e, n, w, m, f, t, k, e2)
    PROVE  /\ Kept(e2, starved0) /\ \A i \in 1 .. k : f[i] \in Members(e2)
           /\ Chained(e2.next, e2.prev, n + k, Spliced(n, w, t, k, FirstOnes(k, f)))
           /\ Outside(n, w, k, FirstOnes(k, f))
<1> DEFINE c == [i \in 1 .. k |-> f[i]]
           new == {f[i] : i \in 1 .. k}
           g == n + k
           v == Spliced(n, w, t, k, c)
           h == m - k
           d == Popped(m, f, k)
<1>1. /\ Chained(e.next, e.prev, n, w) /\ Stacked(e.next, e.firstFree, m, f) /\ Shaped(e)
      /\ Holds(e, n, w, m, f, {}) /\ Listed(n, w) \cap Unused(m, f) = {}
  BY DEF Sound
<1>2. n \in Nat /\ m \in Nat /\ \A i \in 1 .. k : i \in 1 .. m
  BY <1>1 DEF Chained, Stacked
<1>3. c \in [1 .. k -> Lines] /\ Distinct(k, c) /\ Outside(n, w, k, c)
  <2>1. c \in [1 .. k -> Lines] /\ Distinct(k, c)
    BY <1>1, <1>2 DEF Stacked, Distinct
  <2>2. \A i \in 1 .. k : c[i] \in Unused(m, f)
    BY <1>2 DEF Unused
  <2>. QED BY <1>1, <2>1, <2>2 DEF Outside
<1>4. Shaped(e2) /\ LinkedIn(e.next, e.prev, n, w, t, k, c, e2.next, e2.prev)
  BY DEF Grown
<1>5. {c[i] : i \in 1 .. k} = new
  OBVIOUS
<1> HIDE DEF c, new
<1>6. Chained(e2.next, e2.prev, g, v) /\ Listed(g, v) = Listed(n, w) \cup new
  <2>1. g = n + k /\ v = Spliced(n, w, t, k, c) /\ k \in Nat \ {0}
    BY <1>2
  <2> HIDE DEF g, v
  <2>2. Chained(e2.next, e2.prev, g, v) /\ Listed(g, v) = Listed(n, w) \cup {c[i] : i \in 1 .. k}
    BY <1>1, <1>3, <1>4, <2>1, SpliceLinks
  <2>. QED BY <1>5, <2>2
<1>7. Stacked(e2.next, e2.firstFree, h, d) /\ Unused(h, d) = Unused(m, f) \ new
  <2>1. k \in 0 .. m /\ Untouched(e.next, e2.next, m, f, k)
    BY <1>2 DEF Grown
  <2>2. /\ Stacked(e2.next, f[k + 1], m - k, Popped(m, f, k))
        /\ Unused(m - k, Popped(m, f, k)) = Unused(m, f) \ Unused(k, f)
    BY <1>1, <2>1, StackPop
  <2>3. Unused(k, f) = new
    BY DEF Unused, new
  <2>. QED BY <2>2, <2>3 DEF Grown
<1> HIDE DEF g, v, h, d
<1>8. new \subseteq Unused(m, f) /\ Unused(m, f) \subseteq Lines /\ Listed(n, w) \subseteq Lines
  BY <1>1, <1>2 DEF Unused, Listed, Stacked, Chained, new
<1>9. Holds(e2, g, v, h, d, {})
  <2>1. \A l \in Slots : e2.mine[l] <=> (e.mine[l] \/ l \in new)
    BY DEF Grown, new
  <2>2. \A l \in Listed(g, v) : e2.mine[l]
    BY <1>1, <1>6, <1>8, <2>1, Guards DEF Holds
  <2>3. \A l \in Unused(h, d) : ~e2.mine[l]
    BY <1>1, <1>7, <1>8, <2>1, Guards DEF Holds
  <2>4. e2.count = g /\ ~e2.broken
    BY <1>1, <1>2 DEF Grown, Holds, g
  <2>5. e2.cur \in Listed(g, v) \cup {BOF} /\ \A j \in MarkNos : e2.marks[j] \in Listed(g, v) \cup {NULL, BOF}
    BY <1>1, <1>6 DEF Grown, Holds
  <2>. QED BY <2>2, <2>3, <2>4, <2>5 DEF Holds
<1>10. Sound(e2, g, v, h, d, {})
  BY <1>1, <1>4, <1>6, <1>7, <1>8, <1>9 DEF Sound
<1>11. AllThere(starved0, g, v, h, d, {})
  BY <1>6, <1>7, <1>8 DEF AllThere
<1>12. \A i \in 1 .. k : f[i] \in Members(e2)
  <2>1. Members(e2) = Listed(g, v)
    BY <1>6, ChainIs DEF Members
  <2>. QED BY <1>6, <2>1 DEF new
<1>13. Chained(e2.next, e2.prev, n + k, Spliced(n, w, t, k, FirstOnes(k, f)))
       /\ Outside(n, w, k, FirstOnes(k, f))
  BY <1>3, <1>6 DEF g, v, c, FirstOnes
<1>. QED BY <1>10, <1>11, <1>12, <1>13 DEF Kept, KeptBut

\* The lines c[1] .. c[k] with these texts are in the list behind line t now.
Pasted(e, n, w, t, k, c, txts, e2) ==
    /\ c \in [1 .. k -> Lines] /\ Outside(n, w, k, c)
    /\ Chained(e2.next, e2.prev, n + k, Spliced(n, w, t, k, c))
    /\ \A i \in 1 .. k : e2.text[c[i]] = txts[i]
    /\ \A l \in Listed(n, w) : e2.text[l] = e.text[l]
    /\ e2.marks = e.marks /\ e2.cur = e.cur

\* The list is as it was.
Alike(e, n, w, e2) ==
    /\ Chained(e2.next, e2.prev, n, w)
    /\ \A l \in Listed(n, w) : e2.text[l] = e.text[l]
    /\ e2.marks = e.marks /\ e2.cur = e.cur

\* A line a new one is inserted behind; NULL stands for the guard line.
LEMMA InsertAfterIs ==
    ASSUME NEW e, NEW starved0, NEW n, NEW w, NEW m, NEW f, Sound(e, n, w, m, f, {}),
           AllThere(starved0, n, w, m, f, {}), NEW l, NEW t \in 0 .. n,
           (IF l = NULL THEN BOF ELSE l) = w[t],
           NEW txt \in Texts, NEW e2, e2 = InsertLineAfter(e, l, txt)
    PROVE  /\ Kept(e2, starved0)
           /\ \/ e2.oom /\ Alike(e, n, w, e2)
              \/ /\ ~e2.oom /\ e.firstFree \in Members(e2)
                 /\ Pasted(e, n, w, t, 1, [i \in 1 .. 1 |-> e.firstFree], [i \in 1 .. 1 |-> txt], e2)
<1>1. Sound(e, n, w, m, f, {}) /\ AllThere(starved0, n, w, m, f, {}) /\ Kept(e, starved0)
  BY DEF Kept, KeptBut
<1>2. Chained(e.next, e.prev, n, w) /\ Shaped(e) /\ Members(e) = Listed(n, w)
      /\ Stacked(e.next, e.firstFree, m, f) /\ Listed(n, w) \cap Unused(m, f) = {}
  <2>1. Chained(e.next, e.prev, n, w)
    BY <1>1 DEF Sound
  <2>. QED BY <1>1, <2>1, ChainIs DEF Members, Sound
<1> DEFINE new == e.firstFree
           at == IF l = NULL THEN BOF ELSE l
           after == e.next[at]
           no == IF Contains(Follow(e, after), e.cur) THEN e.curNo + 1 ELSE e.curNo
<1>3. at = w[t]
  OBVIOUS
<1>4. /\ n \in Nat /\ after = w[t + 1] /\ at \in Lines \cup {BOF} /\ after \in Lines \cup {EOF}
      /\ t + 1 \in 1 .. n + 1
  <2>1. n \in Nat /\ (t = 0 \/ t \in 1 .. n) /\ (t + 1 = n + 1 \/ t + 1 \in 1 .. n)
    BY <1>2 DEF Chained
  <2>. QED BY <1>2, <1>3, <2>1 DEF Chained
<1>5. CASE e.oom \/ new = NULL
  <2>1. e2 = [e EXCEPT !.oom = TRUE]
    BY <1>5 DEF InsertLineAfter
  <2>2. /\ e2.next = e.next /\ e2.prev = e.prev /\ e2.mine = e.mine /\ e2.text = e.text
        /\ e2.firstFree = e.firstFree /\ e2.cur = e.cur /\ e2.curNo = e.curNo
        /\ e2.count = e.count /\ e2.marks = e.marks /\ e2.modified = e.modified
        /\ e2.oom \in BOOLEAN /\ e2.oom /\ e2.broken = e.broken
        /\ e2 = [x \in Fields |-> e2[x]]
    BY <1>2, <2>1 DEF Shaped, Fields
  <2>3. Shaped(e2)
    BY <1>2, <2>2 DEF Shaped
  <2>4. e2.cur \in Members(e) \cup {BOF} /\ \A k \in MarkNos : e2.marks[k] \in Members(e) \cup {NULL, BOF}
    BY <1>1, <2>2, KeptFacts
  <2>5. Alike(e, n, w, e2)
    BY <1>2, <2>2 DEF Alike
  <2>. QED BY <1>1, <2>2, <2>3, <2>4, <2>5, Quiet
<1>6. CASE ~(e.oom \/ new = NULL)
  <2>1. m # 0 /\ m \in Nat /\ new = f[1] /\ new \in Lines /\ e.next[new] = f[2] /\ 1 \in 1 .. m
    <3>1. m # 0
      BY <1>2, <1>6 DEF Stacked
    <3>2. m \in Nat /\ 1 \in 1 .. m
      BY <1>2, <3>1 DEF Stacked
    <3>. QED BY <1>2, <3>1, <3>2 DEF Stacked
  <2>2. no \in Int
    BY <1>2 DEF Shaped
  <2>3. new # at /\ new # after /\ \A i \in 0 .. n + 1 : w[i] # new
    <3>1. \A i \in 0 .. n + 1 : w[i] # new
      <4> SUFFICES ASSUME NEW i \in 0 .. n + 1, w[i] = new PROVE FALSE
        OBVIOUS
      <4>1. i # 0 /\ i # n + 1
        BY <1>2, <2>1, Guards DEF Chained
      <4>2. i \in 1 .. n
        BY <1>4, <4>1
      <4>3. w[i] \in Listed(n, w) /\ f[1] \in Unused(m, f)
        BY <2>1, <4>2 DEF Listed, Unused
      <4>. QED BY <1>2, <2>1, <4>3
    <3>. QED BY <1>3, <1>4, <3>1
  <2> HIDE DEF new, at, after, no
  <2>4. e2 = [e EXCEPT !.firstFree = e.next[new], !.mine[new] = TRUE,
                       !.text[new] = txt, !.modified = TRUE,
                       !.next = [@ EXCEPT ![new] = after, ![at] = new],
                       !.prev = [@ EXCEPT ![after] = new, ![new] = at],
                       !.count = @ + 1, !.curNo = no]
    <3>1. after # NULL
      BY <1>4, Guards
    <3>. QED BY <1>6, <3>1 DEF InsertLineAfter, new, at, after, no
  <2>5. /\ e2.next = [e.next EXCEPT ![new] = after, ![at] = new]
        /\ e2.prev = [e.prev EXCEPT ![after] = new, ![new] = at]
        /\ e2.mine = [e.mine EXCEPT ![new] = TRUE] /\ e2.text = [e.text EXCEPT ![new] = txt]
        /\ e2.firstFree = e.next[new] /\ e2.cur = e.cur /\ e2.curNo = no
        /\ e2.count = e.count + 1 /\ e2.marks = e.marks /\ e2.modified \in BOOLEAN
        /\ e2.oom = e.oom /\ e2.broken = e.broken
    BY <1>2, <2>4 DEF Shaped, Fields
  <2>6. e2 = [x \in Fields |-> e2[x]]
    BY <1>2, <2>4 DEF Shaped, Fields
  <2>7. at \in Slots /\ after \in Slots /\ new \in Slots
    BY <1>4, <2>1, Guards
  <2>8. Shaped(e2)
    <3>0. /\ e.next \in [Slots -> Pointers] /\ e.prev \in [Slots -> Pointers]
          /\ e.mine \in [Slots -> BOOLEAN] /\ e.text \in [Lines -> Texts]
          /\ at \in Pointers /\ after \in Pointers /\ new \in Pointers
      BY <1>2, <2>7, Guards DEF Shaped
    <3>1. e2.next \in [Slots -> Pointers] /\ e2.prev \in [Slots -> Pointers]
      <4>1. [e.next EXCEPT ![new] = after, ![at] = new] \in [Slots -> Pointers]
        BY <3>0
      <4>2. [e.prev EXCEPT ![after] = new, ![new] = at] \in [Slots -> Pointers]
        BY <3>0
      <4>. QED BY <2>5, <4>1, <4>2
    <3>2. e2.mine \in [Slots -> BOOLEAN]
      <4>1. [e.mine EXCEPT ![new] = TRUE] \in [Slots -> BOOLEAN]
        BY <3>0
      <4>. QED BY <2>5, <4>1
    <3>3. e2.text \in [Lines -> Texts]
      <4>1. [e.text EXCEPT ![new] = txt] \in [Lines -> Texts]
        BY <3>0
      <4>. QED BY <2>5, <4>1
    <3>4. e2.firstFree \in Lines \cup {NULL}
      <4>1. 2 \in 1 .. m + 1
        BY <2>1
      <4>2. f[2] \in Lines \cup {NULL}
        BY <1>2, <4>1 DEF Stacked
      <4>. QED BY <2>1, <2>5, <4>2
    <3>5. e2.count \in Int
      BY <1>2, <2>5 DEF Shaped
    <3>. QED BY <1>2, <2>2, <2>5, <2>6, <3>1, <3>2, <3>3, <3>4, <3>5 DEF Shaped
  <2>9. /\ e2.next[new] = after /\ e2.next[at] = new
        /\ \A x \in Slots : x # new /\ x # at => e2.next[x] = e.next[x]
        /\ e2.prev[after] = new /\ e2.prev[new] = at
        /\ \A x \in Slots : x # new /\ x # after => e2.prev[x] = e.prev[x]
        /\ \A x \in Slots : e2.mine[x] <=> (e.mine[x] \/ x = new)
    BY <1>2, <2>3, <2>5, <2>7 DEF Shaped
  <2> DEFINE c == [i \in 1 .. 1 |-> f[i]]
  <2>10. c[1] = new
    BY <2>1
  <2>11. LinkedIn(e.next, e.prev, n, w, t, 1, c, e2.next, e2.prev)
    <3> HIDE DEF c
    <3>1. \A i, j \in 0 .. n + 1 : w[i] = w[j] => i = j
      BY <1>2 DEF Chained
    <3>2. \A i \in 0 .. n + 1 : w[i] \in Slots
      BY <1>2 DEF Chained
    <3>3. ASSUME NEW i \in 0 .. n, i # t PROVE e2.next[w[i]] = e.next[w[i]]
      <4>1. i \in 0 .. n + 1 /\ t \in 0 .. n + 1
        BY <1>4
      <4>2. w[i] # at /\ w[i] # new /\ w[i] \in Slots
        BY <1>3, <2>3, <3>1, <3>2, <3>3, <4>1
      <4>. QED BY <2>9, <4>2
    <3>4. ASSUME NEW i \in 1 .. n + 1, i # t + 1 PROVE e2.prev[w[i]] = e.prev[w[i]]
      <4>1. i \in 0 .. n + 1 /\ t + 1 \in 0 .. n + 1
        BY <1>4
      <4>2. w[i] # after /\ w[i] # new /\ w[i] \in Slots
        BY <1>4, <2>3, <3>1, <3>2, <3>4, <4>1
      <4>. QED BY <2>9, <4>2
    <3>5. \A i \in 1 .. 1 - 1 : FALSE
      OBVIOUS
    <3>. QED BY <1>3, <1>4, <2>9, <2>10, <3>3, <3>4, <3>5 DEF LinkedIn
  <2>12. {f[i] : i \in 1 .. 1} = {new}
    BY <2>1
  <2>13. Untouched(e.next, e2.next, m, f, 1)
    <3> SUFFICES ASSUME NEW i \in 2 .. m PROVE e2.next[f[i]] = e.next[f[i]]
      BY DEF Untouched
    <3>1. i \in 1 .. m /\ i # 1
      OBVIOUS
    <3>2. f[i] \in Lines /\ f[i] # f[1]
      BY <1>2, <2>1, <3>1 DEF Stacked
    <3>3. f[i] # at
      <4>1. f[i] \in Unused(m, f) /\ f[i] # BOF
        BY <3>1, <3>2, Guards DEF Unused
      <4>2. at \in Listed(n, w) \cup {BOF}
        <5>1. t = 0 \/ t \in 1 .. n
          BY <1>4
        <5>. QED BY <1>2, <1>3, <5>1 DEF Listed, Chained
      <4>. QED BY <1>2, <4>1, <4>2
    <3>. QED BY <2>1, <2>9, <3>2, <3>3, Guards
  <2>14. Grown(e, n, w, m, f, t, 1, e2)
    <3>1. e2.firstFree = f[1 + 1]
      BY <2>1, <2>5
    <3>. QED BY <2>5, <2>8, <2>9, <2>11, <2>12, <2>13, <3>1 DEF Grown
  <2>15. /\ Kept(e2, starved0) /\ \A i \in 1 .. 1 : f[i] \in Members(e2)
         /\ Chained(e2.next, e2.prev, n + 1, Spliced(n, w, t, 1, c)) /\ Outside(n, w, 1, c)
    <3>1. /\ Kept(e2, starved0) /\ \A i \in 1 .. 1 : f[i] \in Members(e2)
          /\ Chained(e2.next, e2.prev, n + 1, Spliced(n, w, t, 1, FirstOnes(1, f)))
          /\ Outside(n, w, 1, FirstOnes(1, f))
      BY <1>1, <2>1, <2>14, SpliceKeeps
    <3>. QED BY <3>1 DEF FirstOnes
  <2> DEFINE txts == [i \in 1 .. 1 |-> txt]
  <2>16. c = [i \in 1 .. 1 |-> e.firstFree] /\ c \in [1 .. 1 -> Lines] /\ \A i \in 1 .. 1 : c[i] = new
    BY <2>1 DEF new
  <2>17. Listed(n, w) \subseteq Lines /\ new \notin Listed(n, w) /\ e.text \in [Lines -> Texts]
    BY <1>2, <2>1, <2>15, <2>16 DEF Chained, Listed, Outside, Shaped
  <2>18. Pasted(e, n, w, t, 1, c, txts, e2)
    <3>1. \A i \in 1 .. 1 : e2.text[c[i]] = txts[i]
      BY <2>1, <2>5, <2>16, <2>17
    <3>2. \A x \in Listed(n, w) : e2.text[x] = e.text[x]
      BY <2>5, <2>17
    <3> HIDE DEF c, txts
    <3>. QED BY <2>5, <2>15, <2>16, <3>1, <3>2 DEF Pasted
  <2>19. ~e2.oom /\ e.firstFree \in Members(e2)
    BY <1>6, <2>1, <2>5, <2>15 DEF new
  <2> HIDE DEF c
  <2>. QED BY <2>15, <2>16, <2>18, <2>19
<1>. QED BY <1>5, <1>6

\* The line behind which insertLineAfter() inserts.
LEMMA PlaceFound ==
    ASSUME NEW n, NEW w, NEW next, NEW prev, Chained(next, prev, n, w),
           NEW at \in Listed(n, w) \cup {BOF}
    PROVE  \E t \in 0 .. n : at = w[t]
<1>1. n \in Nat /\ w[0] = BOF
  BY DEF Chained
<1>2. CASE at = BOF
  BY <1>1, <1>2
<1>3. CASE at # BOF
  <2>1. PICK i \in 1 .. n : at = w[i]
    BY <1>3 DEF Listed
  <2>. QED BY <1>1, <2>1
<1>. QED BY <1>2, <1>3

LEMMA InsertAfterKeeps ==
    ASSUME NEW e, NEW starved0, Kept(e, starved0), NEW l \in Members(e) \cup {NULL, BOF},
           NEW txt \in Texts, NEW e2, e2 = InsertLineAfter(e, l, txt)
    PROVE  Kept(e2, starved0) /\ (e2.oom \/ e.firstFree \in Members(e2))
<1>1. PICK n, w, m, f : Sound(e, n, w, m, f, {}) /\ AllThere(starved0, n, w, m, f, {})
  BY DEF Kept, KeptBut
<1> DEFINE at == IF l = NULL THEN BOF ELSE l
<1>2. Chained(e.next, e.prev, n, w)
  BY <1>1 DEF Sound
<1>3. at \in Listed(n, w) \cup {BOF}
  BY <1>2, ChainIs DEF Members
<1> HIDE DEF at
<1>4. PICK t \in 0 .. n : at = w[t]
  BY <1>2, <1>3, PlaceFound
<1>5. (IF l = NULL THEN BOF ELSE l) = w[t]
  BY <1>4 DEF at
<1>. QED BY <1>1, <1>5, InsertAfterIs

LEMMA Neighbours ==
    ASSUME NEW e, NEW starved0, Kept(e, starved0), NEW l \in Members(e)
    PROVE  e.prev[l] \in Members(e) \cup {BOF} /\ e.next[l] \in Members(e) \cup {EOF}
<1>1. PICK n, w, m, f : Sound(e, n, w, m, f, {}) /\ AllThere(starved0, n, w, m, f, {})
  BY DEF Kept, KeptBut
<1>2. Chained(e.next, e.prev, n, w) /\ Members(e) = Listed(n, w)
  <2>1. Chained(e.next, e.prev, n, w)
    BY <1>1 DEF Sound
  <2>. QED BY <2>1, ChainIs DEF Members
<1>3. PICK p \in 1 .. n : l = w[p]
  BY <1>2 DEF Listed
<1>4. /\ n \in Nat /\ p - 1 \in 0 .. n /\ (p - 1) + 1 = p /\ p \in 0 .. n
      /\ (p - 1 = 0 \/ p - 1 \in 1 .. n) /\ (p + 1 = n + 1 \/ p + 1 \in 1 .. n)
  BY <1>2 DEF Chained
<1>5. e.prev[w[(p - 1) + 1]] = w[p - 1] /\ e.next[w[p]] = w[p + 1]
  BY <1>2, <1>4 DEF Chained
<1>6. w[p - 1] \in Listed(n, w) \cup {BOF} /\ w[p + 1] \in Listed(n, w) \cup {EOF}
  BY <1>2, <1>4 DEF Chained, Listed
<1>. QED BY <1>2, <1>3, <1>4, <1>5, <1>6

LEMMA InsertBeforeKeeps ==
    ASSUME NEW e, NEW starved0, Kept(e, starved0), NEW l \in Members(e) \cup {NULL}, NEW txt \in Texts
    PROVE  Kept(InsertLineBefore(e, l, txt), starved0)
<1> DEFINE at == IF l \in {NULL, BOF} THEN BOF ELSE e.prev[l]
<1>1. at \in Members(e) \cup {NULL, BOF}
  BY Neighbours
<1> HIDE DEF at
<1>2. Kept(InsertLineAfter(e, at, txt), starved0)
  BY <1>1, InsertAfterKeeps
<1>. QED BY <1>2 DEF InsertLineBefore, at

LEMMA InsertKeeps ==
    ASSUME NEW e, NEW starved0, Kept(e, starved0), NEW txt \in Texts
    PROVE  Kept(InsertLine(e, txt), starved0)
<1> DEFINE new == InsertLineAfter(e, e.cur, txt)
<1>1. e.cur \in Members(e) \cup {NULL, BOF}
  BY KeptFacts
<1>2. Kept(new, starved0) /\ (new.oom \/ e.firstFree \in Members(new))
  BY <1>1, InsertAfterKeeps
<1> HIDE DEF new
<1>3. CASE new.oom \/ new.broken
  BY <1>2, <1>3 DEF InsertLine, new
<1>4. CASE ~(new.oom \/ new.broken)
  <2>1. InsertLine(e, txt) = [new EXCEPT !.cur = e.firstFree]
    BY <1>4 DEF InsertLine, new
  <2>2. Shaped(new)
    BY <1>2, KeptFacts
  <2> DEFINE no == new.curNo
  <2>3. no \in Int
    BY <2>2 DEF Shaped
  <2>4. [new EXCEPT !.cur = e.firstFree] = [new EXCEPT !.cur = e.firstFree, !.curNo = no]
    BY <2>2 DEF Shaped, Fields
  <2> HIDE DEF no
  <2>5. e.firstFree \in Members(new) \cup {BOF}
    BY <1>2, <1>4
  <2>6. Kept([new EXCEPT !.cur = e.firstFree, !.curNo = no], starved0)
    BY <1>2, <2>3, <2>5, MovingKeeps
  <2>. QED BY <2>1, <2>4, <2>6
<1>. QED BY <1>3, <1>4

LEMMA IsText ==
    ASSUME NEW s \in Seq(Tokens), Len(s) =< WorkLrecl
    PROVE  s \in Texts
<1>1. Len(s) \in 0 .. WorkLrecl
  BY LenProperties, EditorAssumption
<1>2. s \in [1 .. Len(s) -> Tokens]
  BY LenProperties
<1>. QED BY <1>1, <1>2, TextIs

LEMMA PartIsText ==
    ASSUME NEW s \in Texts, NEW a \in 1 .. Len(s) + 1, NEW b \in 0 .. Len(s)
    PROVE  SubSeq(s, a, b) \in Texts /\ SubSeq(s, a, b) \in Seq(Tokens)
           /\ Len(SubSeq(s, a, b)) = IF a =< b THEN b - a + 1 ELSE 0
<1>1. s \in Seq(Tokens) /\ Len(s) \in 0 .. WorkLrecl /\ WorkLrecl \in Nat
  BY TextIs, EditorAssumption
<1>2. \A i \in a .. b : s[i] \in Tokens
  <2> SUFFICES ASSUME NEW i \in a .. b PROVE s[i] \in Tokens
    OBVIOUS
  <2>1. i \in 1 .. Len(s)
    BY <1>1
  <2>. QED BY <1>1, <2>1, ElementOfSeq
<1>3. a \in Int /\ b \in Int
  BY <1>1
<1>4. SubSeq(s, a, b) \in Seq(Tokens) /\ Len(SubSeq(s, a, b)) = IF a =< b THEN b - a + 1 ELSE 0
  BY <1>2, <1>3, SubSeqProperties
<1>5. Len(SubSeq(s, a, b)) =< WorkLrecl
  BY <1>1, <1>4
<1>. QED BY <1>4, <1>5, IsText

LEMMA JoinKeeps ==
    ASSUME NEW e, NEW starved0, Kept(e, starved0), NEW l \in Members(e),
           NEW pos \in 0 .. WorkLrecl, pos >= Len(e.text[l]), NEW force
    PROVE  Kept(Join(e, l, pos, force), starved0)
<1> DEFINE follower == e.next[l]
           more == e.text[follower]
           room == WorkLrecl - IF pos < WorkLrecl THEN pos ELSE Len(e.text[l])
           some == IF room < Len(more) THEN room ELSE Len(more)
           kept == SubSeq(more, 1, some)
           txt == e.text[l] \o kept
           e2 == [e EXCEPT !.text[l] = txt]
<1>1. Shaped(e) /\ l \in Lines /\ Members(e) \subseteq Lines /\ follower \in Members(e) \cup {EOF}
  BY KeptFacts, Neighbours
<1>2. CASE follower = EOF \/ (room < Len(more) /\ ~force)
  BY <1>2 DEF Join
<1>3. CASE ~(follower = EOF \/ (room < Len(more) /\ ~force))
  <2>0. follower \in Members(e)
    BY <1>1, <1>3
  <2>1. Join(e, l, pos, force) = DeleteLine(e2, follower)
    BY <1>3 DEF Join
  <2>2. e.text[l] \in Texts /\ more \in Texts
    BY <1>1, <2>0 DEF Shaped
  <2>3. /\ e.text[l] \in Seq(Tokens) /\ Len(e.text[l]) \in 0 .. WorkLrecl
        /\ Len(more) \in 0 .. WorkLrecl /\ WorkLrecl \in Nat
    BY <2>2, TextIs, EditorAssumption
  <2>4. room \in Int /\ room >= 0 /\ Len(e.text[l]) + room =< WorkLrecl
    BY <2>3
  <2>5. some \in 0 .. Len(more) /\ some =< room /\ 1 \in 1 .. Len(more) + 1
    <3> HIDE DEF room, more
    <3>. QED BY <2>3, <2>4
  <2>6. kept \in Seq(Tokens) /\ Len(kept) = some
    <3>1. \A b \in 0 .. Len(more) :
              /\ SubSeq(more, 1, b) \in Seq(Tokens)
              /\ Len(SubSeq(more, 1, b)) = IF 1 =< b THEN b - 1 + 1 ELSE 0
      BY <2>2, <2>5, PartIsText
    <3> HIDE DEF some
    <3>2. kept \in Seq(Tokens) /\ Len(kept) = IF 1 =< some THEN some - 1 + 1 ELSE 0
      BY <2>5, <3>1
    <3>. QED BY <2>3, <2>5, <3>2
  <2> HIDE DEF kept, room, some, more
  <2>7. txt \in Texts
    <3>1. txt \in Seq(Tokens) /\ Len(txt) = Len(e.text[l]) + Len(kept)
      BY <2>3, <2>6, ConcatProperties
    <3>2. Len(txt) =< WorkLrecl
      BY <2>3, <2>4, <2>5, <2>6, <3>1
    <3>. QED BY <3>1, <3>2, IsText
  <2> HIDE DEF txt
  <2>8. /\ e2.next = e.next /\ e2.prev = e.prev /\ e2.mine = e.mine
        /\ e2.text = [e.text EXCEPT ![l] = txt] /\ e2.firstFree = e.firstFree
        /\ e2.cur = e.cur /\ e2.curNo = e.curNo /\ e2.count = e.count /\ e2.marks = e.marks
        /\ e2.modified = e.modified /\ e2.oom = e.oom /\ e2.broken = e.broken
        /\ e2 = [x \in Fields |-> e2[x]]
    BY <1>1 DEF Shaped, Fields
  <2> HIDE DEF e2
  <2>9. Shaped(e2)
    <3>1. e2.text \in [Lines -> Texts]
      BY <1>1, <2>7, <2>8 DEF Shaped
    <3>. QED BY <1>1, <2>8, <3>1 DEF Shaped
  <2>10. Kept(e2, starved0)
    <3>1. e2.cur \in Members(e) \cup {BOF} /\ \A k \in MarkNos : e2.marks[k] \in Members(e) \cup {NULL, BOF}
      BY <2>8, KeptFacts
    <3>. QED BY <2>8, <2>9, <3>1, Quiet
  <2>11. Members(e2) = Members(e)
    BY <2>8 DEF Members, Chain, Follow
  <2>12. follower \in Members(e2)
    BY <2>0, <2>11
  <2> HIDE DEF follower
  <2>13. Kept(DeleteLine(e2, follower), starved0)
    BY <2>10, <2>12, DeleteKeeps
  <2>. QED BY <2>1, <2>13
<1>. QED BY <1>2, <1>3

LEMMA SplitKeeps ==
    ASSUME NEW e, NEW starved0, Kept(e, starved0), NEW l \in Members(e),
           NEW pos \in 0 .. WorkLrecl, pos < Len(e.text[l])
    PROVE  Kept(Split(e, l, pos), starved0)
<1> DEFINE txt == e.text[l]
           tail == SubSeq(txt, pos + 1, Len(txt))
           head == SubSeq(txt, 1, pos)
           new == InsertLineAfter(e, l, tail)
<1>1. Shaped(e) /\ l \in Lines
  BY KeptFacts
<1>2. txt \in Texts
  BY <1>1 DEF Shaped
<1>3. Len(txt) \in Nat /\ pos \in Nat /\ pos < Len(txt)
  <2>1. Len(txt) \in 0 .. WorkLrecl
    BY <1>2, TextIs
  <2>. QED BY <2>1, EditorAssumption
<1>4. tail \in Texts /\ head \in Texts
  <2>1. pos + 1 \in 1 .. Len(txt) + 1 /\ Len(txt) \in 0 .. Len(txt)
        /\ 1 \in 1 .. Len(txt) + 1 /\ pos \in 0 .. Len(txt)
    BY <1>3
  <2> HIDE DEF txt
  <2>2. \A a \in 1 .. Len(txt) + 1 : \A b \in 0 .. Len(txt) : SubSeq(txt, a, b) \in Texts
    BY <1>2, PartIsText
  <2>. QED BY <2>1, <2>2
<1> HIDE DEF txt, tail, head
<1>5. Kept(new, starved0)
  BY <1>4, InsertAfterKeeps
<1>6. CASE pos = 0
  <2>1. Split(e, l, pos) = InsertLineBefore(e, l, <<>>)
    BY <1>6 DEF Split
  <2>. QED BY <2>1, TextIs, InsertBeforeKeeps
<1>7. CASE pos # 0 /\ new.oom
  <2>1. Split(e, l, pos) = new
    BY <1>7 DEF Split, tail, txt
  <2>. QED BY <1>5, <2>1
<1>8. CASE pos # 0 /\ ~new.oom
  <2>1. Split(e, l, pos) = UpdateLine(new, l, head)
    BY <1>8 DEF Split, tail, txt, head
  <2> HIDE DEF new
  <2>2. Kept(UpdateLine(new, l, head), starved0)
    BY <1>1, <1>4, <1>5, UpdateKeeps
  <2>. QED BY <2>1, <2>2
<1>. QED BY <1>6, <1>7, <1>8

-----------------------------------------------------------------------------
(* Copying lines *)

\* Without enough free lines the editor is left as it was, but for the free
\* lines, which belong to no list then.
LEMMA PasteIs ==
    ASSUME NEW e, NEW starved0, NEW n, NEW w, NEW m, NEW f, Sound(e, n, w, m, f, {}),
           AllThere(starved0, n, w, m, f, {}), NEW k \in Nat \ {0},
           NEW txts \in [1 .. k -> Texts], NEW trg, NEW t \in 0 .. n, trg = w[t],
           NEW e2, e2 = Paste(e, txts, trg)
    PROVE  /\ Kept(e2, starved0 \/ e2.oom)
           /\ \/ Alike(e, n, w, e2)
              \/ \E c : Pasted(e, n, w, t, k, c, txts, e2)
<1>1. Sound(e, n, w, m, f, {}) /\ AllThere(starved0, n, w, m, f, {})
  OBVIOUS
<1>2. /\ Chained(e.next, e.prev, n, w) /\ Stacked(e.next, e.firstFree, m, f) /\ Shaped(e)
      /\ Holds(e, n, w, m, f, {}) /\ Listed(n, w) \cap Unused(m, f) = {}
  BY <1>1 DEF Sound
<1>3. Members(e) = Listed(n, w) /\ n \in Nat /\ m \in Nat
  <2>1. Chained(e.next, e.prev, n, w)
    BY <1>2
  <2>2. Members(e) = Listed(n, w)
    BY <2>1, ChainIs DEF Members
  <2>. QED BY <1>2, <2>2 DEF Chained, Stacked
<1>t. trg \in Members(e) \cup {BOF}
  <2>1. t = 0 \/ t \in 1 .. n
    BY <1>3
  <2>. QED BY <1>2, <1>3, <2>1 DEF Chained, Listed
<1> DEFINE free == FreeLines(e)
           some == Len(free) < Len(txts)
           c == IF some THEN free ELSE SubSeq(free, 1, Len(txts))
           first == IF Len(free) =< Len(txts) THEN NULL ELSE free[Len(txts) + 1]
           after == e.next[trg]
           mine == [l \in Slots |-> e.mine[l] \/ Contains(c, l)]
           text == [l \in Lines |-> IF Contains(c, l) THEN txts[Index(c, l)] ELSE e.text[l]]
           prev == [l \in Slots |-> IF l \in ToSet(c)
                                    THEN IF Index(c, l) = 1 THEN trg ELSE c[Index(c, l) - 1]
                                    ELSE e.prev[l]]
           taken == [e EXCEPT !.firstFree = first, !.modified = @ \/ c # <<>>,
                              !.mine = mine, !.text = text, !.prev = prev]
           linked == [taken EXCEPT !.count = @ + Len(txts), !.prev[after] = c[Len(txts)],
                                   !.next = [@ EXCEPT ![c[Len(txts)]] = after, ![trg] = c[1]]]
           j == IF m < k THEN m ELSE k
<1>4. e2 = IF some THEN [taken EXCEPT !.oom = TRUE] ELSE RecomputeNo(linked)
  <2> HIDE DEF some, c, first
  <2>. QED BY DEF Paste, Index, some, c, first
<1>5. Len(txts) = k
  OBVIOUS
<1>6. j \in 0 .. m /\ j \in 0 .. k /\ j \in Nat /\ j + 1 \in 1 .. m + 1 /\ m + 1 \in 1 .. m + 1
      /\ \A i \in 1 .. j : i \in 1 .. m
  BY <1>3
<1>7. /\ some <=> m < k
      /\ c = [i \in 1 .. j |-> f[i]] /\ first = f[j + 1]
  <2> DEFINE d == [i \in 1 .. m |-> f[i]]
  <2>1. free = d
    BY <1>2, FreeIs
  <2>2. d \in [1 .. m -> Lines]
    BY <1>2 DEF Stacked
  <2>3. Len(d) = m /\ (\A h \in 0 .. m : SubSeq(d, 1, h) = [i \in 1 .. h |-> d[i]])
        /\ (\A h \in 1 .. m : d[h] = f[h]) /\ f[m + 1] = NULL
    BY <1>2, <1>3, <2>2, Prefix DEF Stacked
  <2> HIDE DEF free, j
  <2>4. CASE m < k
    <3>1. j = m /\ c = d /\ first = NULL
      BY <1>3, <1>5, <2>1, <2>3, <2>4 DEF j
    <3>. QED BY <1>3, <1>5, <2>1, <2>3, <2>4, <3>1
  <2>5. CASE ~(m < k)
    <3>1. k \in 0 .. m /\ j = k /\ \A i \in 1 .. k : i \in 1 .. m
      BY <1>3, <2>5 DEF j
    <3> HIDE DEF d
    <3>2. c = [i \in 1 .. k |-> d[i]]
      BY <1>3, <1>5, <2>1, <2>3, <2>5, <3>1
    <3>3. [i \in 1 .. k |-> d[i]] = [i \in 1 .. k |-> f[i]]
      BY <2>3, <3>1
    <3>4. first = f[k + 1]
      <4>1. CASE k = m
        BY <1>5, <2>1, <2>3, <4>1
      <4>2. CASE k # m
        <5>1. k + 1 \in 1 .. m /\ ~(m =< k)
          BY <1>3, <3>1, <4>2
        <5>. QED BY <1>5, <2>1, <2>3, <5>1
      <4>. QED BY <4>1, <4>2
    <3>. QED BY <1>5, <2>1, <2>3, <2>5, <3>1, <3>2, <3>3, <3>4
  <2>. QED BY <2>4, <2>5
<1> HIDE DEF free, some, c, first
<1>8. c \in [1 .. j -> Lines] /\ Distinct(j, c) /\ \A i \in 1 .. j : c[i] = f[i]
  BY <1>2, <1>6, <1>7 DEF Stacked, Distinct
<1> DEFINE new == {f[i] : i \in 1 .. j}
<1>9. /\ ToSet(c) = new /\ \A l : Contains(c, l) <=> l \in new
  <2>1. ToSet(c) = {c[i] : i \in 1 .. j} /\ \A l : Contains(c, l) <=> l \in ToSet(c)
    <3> HIDE DEF j
    <3>1. Len(c) = j
      BY <1>6, <1>8
    <3>. QED BY <3>1 DEF ToSet, Contains
  <2>2. {c[i] : i \in 1 .. j} = new
    BY <1>8
  <2>. QED BY <2>1, <2>2
<1>10. first \in Lines \cup {NULL} /\ (some => first = NULL)
  BY <1>2, <1>3, <1>6, <1>7 DEF Stacked
<1> HIDE DEF new, j, mine, text, prev, after
<1>11. new \subseteq Unused(m, f) /\ Unused(m, f) \subseteq Lines /\ Listed(n, w) \subseteq Lines
  BY <1>2, <1>3, <1>6 DEF Unused, Listed, Stacked, Chained, new
<1>12. \A i \in 1 .. j : c[i] \in new /\ Index(c, c[i]) = i
  <2>1. \A h \in Nat : \A d \in [1 .. h -> Lines] :
            Distinct(h, d) => \A i \in 1 .. h : Index(d, d[i]) = i
    BY IndexIs
  <2>2. \A i \in 1 .. j : Index(c, c[i]) = i
    BY <1>6, <1>8, <2>1
  <2>. QED BY <1>8, <2>2 DEF new
<1>13. \A l \in new : Index(c, l) \in 1 .. j /\ l = c[Index(c, l)]
  <2> SUFFICES ASSUME NEW l \in new PROVE Index(c, l) \in 1 .. j /\ l = c[Index(c, l)]
    OBVIOUS
  <2>1. PICK i \in 1 .. j : l = f[i]
    BY DEF new
  <2>. QED BY <1>8, <1>12, <2>1
<1>14. /\ taken.next = e.next /\ taken.prev = prev /\ taken.mine = mine /\ taken.text = text
       /\ taken.firstFree = first /\ taken.cur = e.cur /\ taken.curNo = e.curNo
       /\ taken.count = e.count /\ taken.marks = e.marks /\ taken.modified \in BOOLEAN
       /\ taken.oom = e.oom /\ taken.broken = e.broken
       /\ taken = [x \in Fields |-> taken[x]]
  BY <1>2 DEF Shaped, Fields
<1>15. /\ mine \in [Slots -> BOOLEAN] /\ text \in [Lines -> Texts] /\ prev \in [Slots -> Pointers]
       /\ \A l \in Slots : mine[l] <=> (e.mine[l] \/ l \in new)
       /\ \A l \in Slots : l \notin new => prev[l] = e.prev[l]
       /\ \A i \in 1 .. j : prev[c[i]] = IF i = 1 THEN trg ELSE c[i - 1]
  <2>1. mine \in [Slots -> BOOLEAN] /\ \A l \in Slots : mine[l] <=> (e.mine[l] \/ l \in new)
    <3>1. \A l \in Slots : (e.mine[l] \/ Contains(c, l)) \in BOOLEAN
      BY <1>2, <1>9 DEF Shaped
    <3>. QED BY <1>9, <3>1 DEF mine
  <2>2. text \in [Lines -> Texts]
    <3> SUFFICES ASSUME NEW l \in Lines
                 PROVE  (IF Contains(c, l) THEN txts[Index(c, l)] ELSE e.text[l]) \in Texts
      BY DEF text
    <3>1. CASE l \in new
      <4>1. Index(c, l) \in 1 .. k
        BY <1>6, <1>13, <3>1
      <4>. QED BY <1>9, <3>1, <4>1
    <3>2. CASE l \notin new
      BY <1>2, <1>9, <3>2 DEF Shaped
    <3>. QED BY <3>1, <3>2
  <2>3. \A l \in Slots : l \notin new => prev[l] = e.prev[l]
    BY <1>9 DEF prev
  <2>4. ASSUME NEW i \in 1 .. j PROVE prev[c[i]] = IF i = 1 THEN trg ELSE c[i - 1]
    <3>1. c[i] \in Slots /\ c[i] \in ToSet(c) /\ Index(c, c[i]) = i
      BY <1>8, <1>9, <1>12, Guards
    <3>. QED BY <3>1 DEF prev
  <2>5. prev \in [Slots -> Pointers]
    <3>1. ASSUME NEW l \in Slots PROVE prev[l] \in Pointers
      <4>1. CASE l \in new
        <5>1. PICK i \in 1 .. j : l = c[i]
          BY <1>13, <4>1
        <5>2. trg \in Pointers
          BY <1>3, <1>t, <1>11, Guards
        <5>3. i = 1 \/ i - 1 \in 1 .. j
          BY <1>6
        <5>4. i = 1 \/ c[i - 1] \in Pointers
          BY <1>8, <5>3, Guards
        <5>. QED BY <2>4, <5>1, <5>2, <5>4
      <4>2. CASE l \notin new
        BY <1>2, <2>3, <4>2 DEF Shaped
      <4>. QED BY <4>1, <4>2
    <3>2. prev = [l \in Slots |-> prev[l]]
      BY DEF prev
    <3>. QED BY <3>1, <3>2
  <2>. QED BY <2>1, <2>2, <2>3, <2>4, <2>5
<1>18. /\ \A l \in Lines : l \notin new => text[l] = e.text[l]
       /\ \A i \in 1 .. j : text[c[i]] = txts[i]
  <2>1. \A l \in Lines : text[l] = IF Contains(c, l) THEN txts[Index(c, l)] ELSE e.text[l]
    BY DEF text
  <2>. QED BY <1>8, <1>9, <1>12, <2>1
<1> HIDE DEF taken
<1>16. CASE some
  <2>1. e2 = [taken EXCEPT !.oom = TRUE]
    BY <1>4, <1>16
  <2>2. /\ e2.next = e.next /\ e2.prev = prev /\ e2.mine = mine /\ e2.text = text
        /\ e2.firstFree = first /\ e2.cur = e.cur /\ e2.curNo = e.curNo
        /\ e2.count = e.count /\ e2.marks = e.marks /\ e2.modified \in BOOLEAN
        /\ e2.oom \in BOOLEAN /\ e2.oom /\ e2.broken = e.broken
        /\ e2 = [x \in Fields |-> e2[x]]
    BY <1>14, <2>1 DEF Fields
  <2>3. Shaped(e2)
    BY <1>2, <1>10, <1>15, <2>2 DEF Shaped
  <2> DEFINE d == [i \in 1 .. 1 |-> NULL]
  <2>4. Stacked(e2.next, e2.firstFree, 0, d) /\ Unused(0, d) = {}
    <3>1. e2.firstFree = NULL
      BY <1>10, <1>16, <2>2
    <3>. QED BY <3>1 DEF Stacked, Unused
  <2>5. Chained(e2.next, e2.prev, n, w)
    <3>1. \A i \in 0 .. n : e2.prev[w[i + 1]] = w[i]
      <4> SUFFICES ASSUME NEW i \in 0 .. n PROVE e2.prev[w[i + 1]] = w[i]
        OBVIOUS
      <4>1. w[i + 1] \in Listed(n, w) \cup {EOF}
        <5>1. i + 1 = n + 1 \/ i + 1 \in 1 .. n
          BY <1>3
        <5>. QED BY <1>2, <5>1 DEF Chained, Listed
      <4>2. w[i + 1] \notin new /\ w[i + 1] \in Slots
        BY <1>2, <1>11, <4>1, Guards
      <4>. QED BY <1>2, <1>15, <2>2, <4>2 DEF Chained
    <3>. QED BY <1>2, <2>2, <3>1 DEF Chained
  <2>6. Holds(e2, n, w, 0, d, {})
    <3>1. \A l \in Listed(n, w) : e2.mine[l]
      BY <1>2, <1>11, <1>15, <2>2, Guards DEF Holds
    <3>. QED BY <1>2, <2>2, <2>4, <3>1 DEF Holds
  <2> HIDE DEF d
  <2>7. Sound(e2, n, w, 0, d, {})
    BY <2>3, <2>4, <2>5, <2>6 DEF Sound
  <2>8. AllThere(starved0 \/ e2.oom, n, w, 0, d, {})
    BY <2>2 DEF AllThere
  <2>9. Alike(e, n, w, e2)
    <3>1. \A l \in Listed(n, w) : l \in Lines /\ l \notin new
      BY <1>2, <1>11
    <3>. QED BY <1>18, <2>2, <2>5, <3>1 DEF Alike
  <2>. QED BY <2>7, <2>8, <2>9 DEF Kept, KeptBut
<1>17. CASE ~some
  <2>1. j = k /\ k \in 1 .. m /\ 1 \in 1 .. k /\ k \in 1 .. k
    BY <1>3, <1>7, <1>17 DEF j
  <2>2. trg = w[t]
    OBVIOUS
  <2>3. /\ after = w[t + 1] /\ after \in Listed(n, w) \cup {EOF} /\ trg \in Listed(n, w) \cup {BOF}
        /\ t + 1 \in 1 .. n + 1
    <3>1. t + 1 \in 1 .. n + 1 /\ (t + 1 = n + 1 \/ t + 1 \in 1 .. n)
      BY <1>3
    <3>. QED BY <1>2, <1>3, <1>t, <2>2, <3>1 DEF Chained, Listed, after
  <2> DEFINE last == c[Len(txts)]
  <2>4. last = c[k] /\ last \in new /\ c[1] \in new
    BY <1>5, <1>12, <2>1
  <2>5. after \notin new /\ trg \notin new /\ {after, trg, last, c[1]} \subseteq Slots
        /\ Slots \subseteq Pointers
    BY <1>2, <1>11, <2>3, <2>4, Guards
  <2>6. e2 = RecomputeNo(linked)
    BY <1>4, <1>17
  <2> HIDE DEF last
  <2>7. /\ linked.next = [e.next EXCEPT ![last] = after, ![trg] = c[1]]
        /\ linked.prev = [prev EXCEPT ![after] = last] /\ linked.mine = mine
        /\ linked.text = text /\ linked.firstFree = first /\ linked.cur = e.cur
        /\ linked.curNo = e.curNo /\ linked.count = e.count + k /\ linked.marks = e.marks
        /\ linked.modified \in BOOLEAN /\ linked.oom = e.oom /\ linked.broken = e.broken
        /\ linked = [x \in Fields |-> linked[x]]
    BY <1>5, <1>14 DEF Fields, last
  <2> HIDE DEF linked
  <2>8. Shaped(linked)
    <3>1. linked.next \in [Slots -> Pointers]
      <4>1. e.next \in [Slots -> Pointers] /\ after \in Pointers /\ c[1] \in Pointers
        BY <1>2, <2>5 DEF Shaped
      <4>. QED BY <2>7, <4>1
    <3>2. linked.prev \in [Slots -> Pointers]
      <4>1. last \in Pointers
        BY <2>5
      <4>. QED BY <1>15, <2>7, <4>1
    <3>3. linked.count \in Int
      BY <1>2, <2>7 DEF Shaped
    <3>. QED BY <1>2, <1>10, <1>15, <2>7, <3>1, <3>2, <3>3 DEF Shaped
  <2>9. /\ linked.next[trg] = c[1] /\ linked.next[last] = after
        /\ \A l \in Slots : l # last /\ l # trg => linked.next[l] = e.next[l]
        /\ linked.prev[after] = last
        /\ \A l \in Slots : l # after => linked.prev[l] = prev[l]
    <3>1. last # trg /\ last \in Slots /\ trg \in Slots /\ after \in Slots
      BY <2>4, <2>5
    <3>2. e.next \in [Slots -> Pointers]
      BY <1>2 DEF Shaped
    <3> DEFINE first1 == c[1]
    <3> HIDE DEF first1
    <3>3. linked.next = [e.next EXCEPT ![last] = after, ![trg] = first1]
      BY <2>7 DEF first1
    <3>4. /\ linked.next[trg] = first1 /\ linked.next[last] = after
          /\ \A l \in Slots : l # last /\ l # trg => linked.next[l] = e.next[l]
      BY <3>1, <3>2, <3>3
    <3>5. linked.prev[after] = last /\ \A l \in Slots : l # after => linked.prev[l] = prev[l]
      BY <1>15, <2>7, <3>1
    <3>. QED BY <3>4, <3>5 DEF first1
  <2>10. \A i \in 0 .. n + 1 : w[i] \in Slots /\ w[i] \notin new
    <3> SUFFICES ASSUME NEW i \in 0 .. n + 1 PROVE w[i] \in Slots /\ w[i] \notin new
      OBVIOUS
    <3>1. i = 0 \/ i = n + 1 \/ i \in 1 .. n
      BY <1>3
    <3>2. w[i] \in {BOF, EOF} \cup Listed(n, w)
      BY <1>2, <3>1 DEF Chained, Listed
    <3>. QED BY <1>2, <1>11, <3>2, Guards
  <2>11. \A i, h \in 0 .. n + 1 : w[i] = w[h] => i = h
    BY <1>2 DEF Chained
  <2>12. c = [i \in 1 .. k |-> f[i]] /\ new = {f[i] : i \in 1 .. k}
    BY <1>7, <2>1 DEF new
  <2>13. LinkedIn(e.next, e.prev, n, w, t, k, c, linked.next, linked.prev)
    <3>1. ASSUME NEW i \in 0 .. n, i # t PROVE linked.next[w[i]] = e.next[w[i]]
      <4>1. i \in 0 .. n + 1 /\ t \in 0 .. n + 1
        BY <1>3
      <4>2. w[i] # trg /\ w[i] # last /\ w[i] \in Slots
        BY <2>2, <2>4, <2>10, <2>11, <3>1, <4>1
      <4>. QED BY <2>9, <4>2
    <3>2. ASSUME NEW i \in 1 .. n + 1, i # t + 1 PROVE linked.prev[w[i]] = e.prev[w[i]]
      <4>1. i \in 0 .. n + 1 /\ t + 1 \in 0 .. n + 1
        BY <1>3
      <4>2. w[i] # after /\ w[i] \notin new /\ w[i] \in Slots
        BY <2>3, <2>10, <2>11, <3>2, <4>1
      <4>. QED BY <1>15, <2>9, <4>2
    <3>3. ASSUME NEW i \in 1 .. k - 1 PROVE linked.next[c[i]] = c[i + 1]
      <4>1. i \in 1 .. k /\ i + 1 \in 1 .. k /\ i # k /\ i \in 1 .. m
        BY <1>3, <2>1
      <4>2. c[i] # last /\ c[i] # trg /\ c[i] \in Slots
        BY <1>8, <1>12, <2>1, <2>4, <2>5, <4>1, Guards DEF Distinct
      <4>3. e.next[f[i]] = f[i + 1]
        BY <1>2, <4>1 DEF Stacked
      <4>. QED BY <1>8, <2>1, <2>9, <4>1, <4>2, <4>3
    <3>4. ASSUME NEW i \in 1 .. k PROVE linked.prev[c[i]] = IF i = 1 THEN trg ELSE c[i - 1]
      <4>1. c[i] \in new /\ c[i] # after /\ c[i] \in Slots
        BY <1>8, <1>12, <2>1, <2>5, Guards
      <4>. QED BY <1>15, <2>1, <2>9, <4>1
    <3>5. \A i \in 1 .. k - 1 : linked.prev[c[i + 1]] = c[i]
      <4> SUFFICES ASSUME NEW i \in 1 .. k - 1 PROVE linked.prev[c[i + 1]] = c[i]
        OBVIOUS
      <4>1. i + 1 \in 1 .. k /\ i + 1 # 1 /\ (i + 1) - 1 = i
        OBVIOUS
      <4>. QED BY <3>4, <4>1
    <3>6. linked.prev[c[1]] = w[t]
      BY <2>1, <2>2, <3>4
    <3>7. linked.next[w[t]] = c[1] /\ linked.next[c[k]] = w[t + 1] /\ linked.prev[w[t + 1]] = c[k]
      BY <2>2, <2>3, <2>4, <2>9
    <3>. QED BY <3>1, <3>2, <3>3, <3>5, <3>6, <3>7 DEF LinkedIn
  <2>14. Untouched(e.next, linked.next, m, f, k)
    <3> SUFFICES ASSUME NEW i \in k + 1 .. m PROVE linked.next[f[i]] = e.next[f[i]]
      BY DEF Untouched
    <3>1. i \in 1 .. m /\ i # k /\ k \in 1 .. m
      BY <2>1
    <3>2. f[i] \in Lines /\ f[i] # f[k] /\ f[i] \in Unused(m, f)
      BY <1>2, <3>1 DEF Stacked, Unused
    <3>3. f[i] # last /\ f[i] # trg
      BY <1>2, <1>8, <2>1, <2>3, <2>4, <3>2, Guards
    <3>. QED BY <2>9, <3>2, <3>3, Guards
  <2>15. Grown(e, n, w, m, f, t, k, linked)
    <3>1. linked.firstFree = f[k + 1]
      BY <1>7, <2>1, <2>7
    <3>2. \A l \in Slots : linked.mine[l] <=> (e.mine[l] \/ l \in {f[i] : i \in 1 .. k})
      BY <1>15, <2>7, <2>12
    <3>3. LinkedIn(e.next, e.prev, n, w, t, k, [i \in 1 .. k |-> f[i]], linked.next, linked.prev)
      BY <2>12, <2>13
    <3>. QED BY <2>7, <2>8, <2>14, <3>1, <3>2, <3>3 DEF Grown
  <2>16. /\ Kept(linked, starved0)
         /\ Chained(linked.next, linked.prev, n + k, Spliced(n, w, t, k, FirstOnes(k, f)))
         /\ Outside(n, w, k, FirstOnes(k, f))
    BY <1>1, <2>1, <2>15, SpliceKeeps
  <2>17. Kept(e2, starved0)
    BY <2>6, <2>16, RecomputeKeeps
  <2>18. /\ e2.next = linked.next /\ e2.prev = linked.prev /\ e2.text = text
         /\ e2.cur = e.cur /\ e2.marks = e.marks
    <3>1. /\ e2.next = linked.next /\ e2.prev = linked.prev /\ e2.text = linked.text
          /\ e2.cur = linked.cur /\ e2.marks = linked.marks
      BY <2>6, <2>8, RecomputeIs
    <3>. QED BY <2>7, <3>1
  <2>19. Pasted(e, n, w, t, k, c, txts, e2)
    <3>1. \A l \in Listed(n, w) : l \in Lines /\ l \notin new
      BY <1>2, <1>11
    <3>2. Chained(e2.next, e2.prev, n + k, Spliced(n, w, t, k, c)) /\ Outside(n, w, k, c)
      BY <2>12, <2>16, <2>18 DEF FirstOnes
    <3>3. c \in [1 .. k -> Lines] /\ \A i \in 1 .. k : text[c[i]] = txts[i]
      BY <1>8, <1>18, <2>1
    <3>. QED BY <1>18, <2>18, <3>1, <3>2, <3>3 DEF Pasted
  <2>20. Kept(e2, starved0 \/ e2.oom)
    BY <2>17 DEF Kept, KeptBut, AllThere
  <2>. QED BY <2>19, <2>20
<1>. QED BY <1>16, <1>17

LEMMA PasteKeeps ==
    ASSUME NEW e, NEW starved0, Kept(e, starved0), NEW k \in Nat \ {0},
           NEW txts \in [1 .. k -> Texts], NEW trg \in Members(e) \cup {BOF},
           NEW e2, e2 = Paste(e, txts, trg)
    PROVE  Kept(e2, starved0 \/ e2.oom)
<1>1. PICK n, w, m, f : Sound(e, n, w, m, f, {}) /\ AllThere(starved0, n, w, m, f, {})
  BY DEF Kept, KeptBut
<1>2. Chained(e.next, e.prev, n, w)
  BY <1>1 DEF Sound
<1>3. trg \in Listed(n, w) \cup {BOF}
  BY <1>2, ChainIs DEF Members
<1>4. PICK t \in 0 .. n : trg = w[t]
  BY <1>2, <1>3, PlaceFound
<1>. QED BY <1>1, <1>4, PasteIs

\* A range and its lines, if it is one.
Stretch(w, p, q, range, lines) ==
    /\ p =< q /\ range[1] = w[p] /\ range[2] = w[q]
    /\ lines = [i \in 1 .. q - p + 1 |-> w[p + i - 1]]

LEMMA RangeIs ==
    ASSUME NEW e, NEW starved0, NEW n, NEW w, NEW m, NEW f, Sound(e, n, w, m, f, {}),
           AllThere(starved0, n, w, m, f, {}), NEW from \in Holdable(e), NEW to \in Holdable(e),
           OrderLines(e, from, to) # <<>>
    PROVE  \E p, q \in 1 .. n :
               Stretch(w, p, q, OrderLines(e, from, to),
                       Between(e, OrderLines(e, from, to)[1], OrderLines(e, from, to)[2]))
<1>1. Chained(e.next, e.prev, n, w) /\ Kept(e, starved0)
  BY DEF Sound, Kept, KeptBut
<1>2. Members(e) = Listed(n, w)
  BY <1>1, ChainIs DEF Members
<1>3. from \in Listed(n, w) \/ ~Own(e, from)
  BY <1>1, <1>2, HoldableIs
<1>4. to \in Listed(n, w) \/ ~Own(e, to)
  BY <1>1, <1>2, HoldableIs
<1>5. PICK p \in 1 .. n, q \in 1 .. n : p =< q /\ OrderLines(e, from, to) = <<w[p], w[q]>>
  <2>1. InOrder(n, w, OrderLines(e, from, to))
    BY <1>1, <1>3, <1>4, OrderIs
  <2>. QED BY <2>1 DEF InOrder
<1>6. Between(e, w[p], w[q]) = Run(w, p, q - p + 1)
  <2>1. RunBetween(e, n, w, p, q)
    BY <1>1, <1>5, BetweenIs
  <2>. QED BY <2>1 DEF RunBetween
<1>7. OrderLines(e, from, to)[1] = w[p] /\ OrderLines(e, from, to)[2] = w[q]
  BY <1>5
<1>8. Stretch(w, p, q, OrderLines(e, from, to),
              Between(e, OrderLines(e, from, to)[1], OrderLines(e, from, to)[2]))
  BY <1>5, <1>6, <1>7 DEF Stretch, Run
<1>. QED BY <1>8

LEMMA CopyKeeps ==
    ASSUME NEW e, NEW starved0, Kept(e, starved0), NEW from \in Holdable(e), NEW to \in Holdable(e),
           NEW trg \in Holdable(e) \cup {NULL}, NEW before,
           NEW e2, e2 = CopyLineRange(e, from, to, e, trg, before)
    PROVE  Kept(e2, starved0 \/ e2.oom)
<1>1. CASE ~Placeable(e, from, to, e, trg)
  <2>1. e2 = e
    BY <1>1 DEF CopyLineRange
  <2>. QED BY <2>1 DEF Kept, KeptBut, AllThere
<1>2. CASE Placeable(e, from, to, e, trg)
  <2> DEFINE range == OrderLines(e, from, to)
             lines == Between(e, range[1], range[2])
             txts == [i \in DOMAIN lines |-> e.text[lines[i]]]
             at == IF trg = NULL THEN BOF ELSE IF before THEN e.prev[trg] ELSE trg
  <2>1. PICK n, w, m, f : Sound(e, n, w, m, f, {}) /\ AllThere(starved0, n, w, m, f, {})
    BY DEF Kept, KeptBut
  <2>2. range # <<>> /\ (trg = NULL \/ Own(e, trg))
    BY <1>2 DEF Placeable
  <2>3. PICK p \in 1 .. n, q \in 1 .. n : Stretch(w, p, q, range, lines)
    BY <2>1, <2>2, RangeIs
  <2>4. e2 = Paste(e, txts, at)
    BY <1>2 DEF CopyLineRange
  <2>5. at \in Members(e) \cup {BOF}
    <3>1. trg = NULL \/ trg \in Members(e)
      BY <2>2, HoldableIs
    <3>. QED BY <3>1, Neighbours
  <2> DEFINE k == q - p + 1
  <2>6. k \in Nat \ {0}
    BY <2>1, <2>3 DEF Sound, Chained, Stretch
  <2>7. txts \in [1 .. k -> Texts]
    <3>1. \A i \in 1 .. k : p + i - 1 \in 1 .. n
      BY <2>1, <2>3 DEF Sound, Chained, Stretch
    <3>2. lines = [i \in 1 .. k |-> w[p + i - 1]]
      BY <2>3 DEF Stretch
    <3> HIDE DEF lines, k
    <3>3. (\A i \in 1 .. k : lines[i] \in Lines) /\ DOMAIN lines = 1 .. k
      BY <2>1, <3>1, <3>2 DEF Sound, Chained
    <3>4. e.text \in [Lines -> Texts]
      BY <2>1 DEF Sound, Shaped
    <3>. QED BY <3>3, <3>4
  <2> HIDE DEF k, txts, at
  <2>. QED BY <2>4, <2>5, <2>6, <2>7, PasteKeeps
<1>. QED BY <1>1, <1>2

-----------------------------------------------------------------------------
(* Moving lines *)

\* A range that is cut out is linked in again behind a line that is left.
Moved(e, n, w, p, q, t, e2) ==
    /\ Chained(e2.next, e2.prev, n,
               Spliced(n - (q - p + 1), Cut(n, w, p, q), t, q - p + 1,
                       [i \in 1 .. q - p + 1 |-> w[p + i - 1]]))
    /\ e2.text = e.text /\ e2.marks = e.marks /\ e2.cur = e.cur

LEMMA MoveIs ==
    ASSUME NEW e, NEW starved0, NEW n, NEW w, NEW m, NEW f, Sound(e, n, w, m, f, {}),
           AllThere(starved0, n, w, m, f, {}), NEW from \in Holdable(e), NEW to \in Holdable(e),
           NEW trg \in Holdable(e) \cup {NULL}, NEW before, ~IsInLineRange(e, trg, from, to)
    PROVE  /\ Kept(MoveWithin(e, from, to, trg, before), starved0)
           /\ \/ MoveWithin(e, from, to, trg, before) = e
              \/ \E p, q \in 1 .. n : /\ p =< q
                    /\ \E t \in 0 .. n - (q - p + 1) :
                          Moved(e, n, w, p, q, t, MoveWithin(e, from, to, trg, before))
<1>0. Kept(e, starved0)
  BY DEF Kept, KeptBut
<1>1. CASE ~Placeable(e, from, to, e, trg)
  BY <1>0, <1>1 DEF MoveWithin
<1>2. CASE Placeable(e, from, to, e, trg)
  <2> DEFINE range == OrderLines(e, from, to)
             lines == Between(e, range[1], range[2])
             head == e.prev[range[1]]
             tail == e.next[range[2]]
             cut == [e EXCEPT !.next = [@ EXCEPT ![head] = tail, ![range[2]] = NULL],
                              !.prev = [@ EXCEPT ![tail] = head, ![range[1]] = NULL],
                              !.modified = TRUE]
             at == IF trg = NULL THEN BOF ELSE IF before THEN cut.prev[trg] ELSE trg
             after == cut.next[at]
             linked == [cut EXCEPT !.prev = [@ EXCEPT ![after] = range[2], ![range[1]] = at],
                                   !.next = [@ EXCEPT ![range[2]] = after, ![at] = range[1]]]
  <2>1. Sound(e, n, w, m, f, {}) /\ AllThere(starved0, n, w, m, f, {})
    OBVIOUS
  <2>2. /\ Chained(e.next, e.prev, n, w) /\ Stacked(e.next, e.firstFree, m, f) /\ Shaped(e)
        /\ Holds(e, n, w, m, f, {}) /\ Listed(n, w) \cap Unused(m, f) = {}
    BY <2>1 DEF Sound
  <2>3. Members(e) = Listed(n, w) /\ n \in Nat /\ m \in Nat
    <3>1. Chained(e.next, e.prev, n, w)
      BY <2>2
    <3>2. Members(e) = Listed(n, w)
      BY <3>1, ChainIs DEF Members
    <3>. QED BY <2>2, <3>2 DEF Chained, Stacked
  <2>4. range # <<>> /\ (trg = NULL \/ Own(e, trg))
    BY <1>2 DEF Placeable
  <2>5. PICK p \in 1 .. n, q \in 1 .. n : Stretch(w, p, q, range, lines)
    BY <2>1, <2>4, RangeIs
  <2> DEFINE k == q - p + 1
             g == n - k
             v == Cut(n, w, p, q)
             c == [i \in 1 .. k |-> w[p + i - 1]]
             gone == {w[i] : i \in p .. q}
  <2> HIDE DEF range, lines
  <2>6. /\ p =< q /\ k \in Nat \ {0} /\ g \in Nat /\ n = g + k /\ 1 \in 1 .. k /\ k \in 1 .. k
        /\ \A i \in 1 .. k : p + i - 1 \in 1 .. n /\ p + i - 1 \in p .. q
        /\ p - 1 \in 0 .. n /\ q \in 0 .. n /\ p + k - 1 = q /\ p + 1 - 1 = p
        /\ range[1] = w[p] /\ range[2] = w[q] /\ lines = c
    BY <2>3, <2>5 DEF Stretch
  <2>7. MoveWithin(e, from, to, trg, before)
        = IF head = NULL \/ at = NULL \/ after = NULL THEN [e EXCEPT !.broken = TRUE]
          ELSE RecomputeNo(linked)
    BY <1>2 DEF MoveWithin, range
  <2>8. head = w[p - 1] /\ tail = w[q + 1]
    <3>1. e.prev[w[(p - 1) + 1]] = w[p - 1] /\ e.next[w[q]] = w[q + 1] /\ (p - 1) + 1 = p
      BY <2>2, <2>6 DEF Chained
    <3>. QED BY <2>6, <3>1
  <2> HIDE DEF head, tail, k, g, v, c, gone
  <2>9. /\ c \in [1 .. k -> Lines] /\ Distinct(k, c) /\ c[1] = w[p] /\ c[k] = w[q]
        /\ {c[i] : i \in 1 .. k} = gone /\ \A i \in 1 .. k : c[i] = w[p + i - 1]
    <3>1. c \in [1 .. k -> Lines] /\ \A i \in 1 .. k : c[i] = w[p + i - 1]
      BY <2>2, <2>6 DEF c, Chained
    <3>2. ASSUME NEW i \in 1 .. k, NEW h \in 1 .. k, c[i] = c[h] PROVE i = h
      <4>1. p + i - 1 \in 0 .. n + 1 /\ p + h - 1 \in 0 .. n + 1 /\ w[p + i - 1] = w[p + h - 1]
        BY <2>3, <2>6, <3>1, <3>2
      <4>2. p + i - 1 = p + h - 1
        BY <2>2, <4>1 DEF Chained
      <4>. QED BY <2>6, <4>2
    <3>3. {c[i] : i \in 1 .. k} \subseteq gone
      BY <2>6, <3>1 DEF gone
    <3>4. gone \subseteq {c[i] : i \in 1 .. k}
      <4> SUFFICES ASSUME NEW i \in p .. q PROVE w[i] \in {c[h] : h \in 1 .. k}
        BY DEF gone
      <4>1. i - p + 1 \in 1 .. k /\ p + (i - p + 1) - 1 = i
        BY <2>6 DEF k
      <4>2. c[i - p + 1] = w[i]
        BY <3>1, <4>1
      <4>. QED BY <4>1, <4>2
    <3>5. c[1] = w[p] /\ c[k] = w[q]
      BY <2>6, <3>1
    <3>. QED BY <3>1, <3>2, <3>3, <3>4, <3>5 DEF Distinct
  <2>10. gone \subseteq Listed(n, w) /\ Listed(n, w) \subseteq Lines /\ Unused(m, f) \subseteq Lines
         /\ w[p] \in gone /\ w[q] \in gone
    <3>1. \A i \in p .. q : i \in 1 .. n
      BY <2>3, <2>6
    <3>2. gone \subseteq Listed(n, w)
      BY <3>1 DEF Listed, gone
    <3>3. Listed(n, w) \subseteq Lines /\ Unused(m, f) \subseteq Lines
      BY <2>2 DEF Listed, Unused, Chained, Stacked
    <3>4. p \in p .. q /\ q \in p .. q
      BY <2>6
    <3>. QED BY <3>2, <3>3, <3>4 DEF gone
  <2>11. \A i, h \in 0 .. n + 1 : w[i] = w[h] => i = h
    BY <2>2 DEF Chained
  <2>12. \A i \in 0 .. n + 1 : w[i] \in gone <=> i \in p .. q
    <3>1. ASSUME NEW i \in 0 .. n + 1, w[i] \in gone PROVE i \in p .. q
      <4>1. PICK h \in p .. q : w[i] = w[h]
        BY <3>1 DEF gone
      <4>2. h \in 0 .. n + 1
        BY <2>3, <2>6
      <4>. QED BY <2>11, <4>1, <4>2
    <3>. QED BY <3>1 DEF gone
  <2>13. head \in Listed(n, w) \cup {BOF} /\ tail \in Listed(n, w) \cup {EOF}
         /\ head \notin gone /\ tail \notin gone
    <3>1. /\ p - 1 = 0 \/ p - 1 \in 1 .. n
          /\ q + 1 = n + 1 \/ q + 1 \in 1 .. n
          /\ p - 1 \in 0 .. n + 1 /\ q + 1 \in 0 .. n + 1 /\ p - 1 \notin p .. q /\ q + 1 \notin p .. q
      BY <2>3, <2>6
    <3>2. head \in Listed(n, w) \cup {BOF} /\ tail \in Listed(n, w) \cup {EOF}
      BY <2>2, <2>8, <3>1 DEF Listed, Chained
    <3>. QED BY <2>8, <2>12, <3>1, <3>2
  <2>14. /\ cut.next = [e.next EXCEPT ![head] = tail, ![w[q]] = NULL]
         /\ cut.prev = [e.prev EXCEPT ![tail] = head, ![w[p]] = NULL]
         /\ cut.mine = e.mine /\ cut.text = e.text /\ cut.firstFree = e.firstFree
         /\ cut.cur = e.cur /\ cut.curNo = e.curNo /\ cut.count = e.count
         /\ cut.marks = e.marks /\ cut.modified \in BOOLEAN /\ cut.oom = e.oom
         /\ cut.broken = e.broken /\ cut = [x \in Fields |-> cut[x]]
    BY <2>2, <2>6 DEF Shaped, Fields
  <2> HIDE DEF cut
  <2>15. {head, tail, w[p], w[q]} \subseteq Slots /\ {head, tail, w[p], w[q], NULL} \subseteq Pointers
    BY <2>10, <2>13, Guards
  <2>16. /\ cut.next[head] = tail /\ \A l \in Slots : l # head /\ l # w[q] => cut.next[l] = e.next[l]
         /\ cut.prev[tail] = head /\ \A l \in Slots : l # tail /\ l # w[p] => cut.prev[l] = e.prev[l]
    <3>1. e.next \in [Slots -> Pointers] /\ e.prev \in [Slots -> Pointers] /\ head # w[q] /\ tail # w[p]
      BY <2>2, <2>10, <2>13 DEF Shaped
    <3>2. cut.next[head] = tail /\ \A l \in Slots : l # head /\ l # w[q] => cut.next[l] = e.next[l]
      BY <2>14, <2>15, <3>1
    <3>3. cut.prev[tail] = head /\ \A l \in Slots : l # tail /\ l # w[p] => cut.prev[l] = e.prev[l]
      BY <2>14, <2>15, <3>1
    <3>. QED BY <3>2, <3>3
  <2>17. \A i \in 0 .. n + 1 : w[i] \in Slots
    BY <2>2 DEF Chained
  <2>18. Chained(cut.next, cut.prev, g, v) /\ Listed(g, v) = Listed(n, w) \ gone
    <3>1. ASSUME NEW i \in 0 .. n, i < p - 1 \/ i > q PROVE cut.next[w[i]] = e.next[w[i]]
      <4>1. i \in 0 .. n + 1 /\ p - 1 \in 0 .. n + 1 /\ q \in 0 .. n + 1 /\ i # p - 1 /\ i # q
        BY <2>3, <2>6, <3>1
      <4>. QED BY <2>8, <2>11, <2>16, <2>17, <4>1
    <3>2. ASSUME NEW i \in 1 .. n + 1, i < p \/ i > q + 1 PROVE cut.prev[w[i]] = e.prev[w[i]]
      <4>1. i \in 0 .. n + 1 /\ p \in 0 .. n + 1 /\ q + 1 \in 0 .. n + 1 /\ i # p /\ i # q + 1
        BY <2>3, <2>6, <3>2
      <4>. QED BY <2>8, <2>11, <2>16, <2>17, <4>1
    <3>3. LinkedOut(e.next, e.prev, n, w, p, q, cut.next, cut.prev)
      BY <2>8, <2>16, <3>1, <3>2 DEF LinkedOut
    <3>4. g = n - (q - p + 1) /\ v = Cut(n, w, p, q)
      BY DEF g, v, k
    <3>5. Chained(e.next, e.prev, n, w)
      BY <2>2
    <3>6. p =< q
      BY <2>6
    <3>7. /\ Chained(cut.next, cut.prev, g, v)
          /\ Listed(g, v) = Listed(n, w) \ {w[i] : i \in p .. q}
      BY <3>3, <3>4, <3>5, <3>6, CutLinks
    <3>. QED BY <3>7 DEF gone
  <2>19. PICK t \in 0 .. g : at = v[t]
    <3>1. v[0] = BOF /\ 0 \in 0 .. g
      BY <2>6, <2>18 DEF Chained
    <3>2. CASE trg = NULL
      BY <3>1, <3>2 DEF at
    <3>3. CASE trg # NULL
      <4>1. trg \in Listed(n, w)
        BY <1>0, <2>3, <2>4, <3>3, HoldableIs
      <4>2. trg \notin gone
        <5>1. ~Contains(lines, trg)
          BY <2>4, <3>3 DEF IsInLineRange, range, lines
        <5>2. Len(c) = k
          BY <2>6, <2>9
        <5>3. ~(\E i \in 1 .. Len(c) : c[i] = trg)
          BY <2>6, <5>1 DEF Contains
        <5>. QED BY <2>9, <5>2, <5>3
      <4>3. PICK s \in 1 .. g : trg = v[s]
        BY <2>18, <4>1, <4>2 DEF Listed
      <4>4. s \in 0 .. g /\ s - 1 \in 0 .. g /\ (s - 1) + 1 = s
        BY <2>6
      <4>5. cut.prev[v[(s - 1) + 1]] = v[s - 1]
        BY <2>18, <4>4 DEF Chained
      <4>. QED BY <3>3, <4>3, <4>4, <4>5 DEF at
    <3>. QED BY <3>2, <3>3
  <2>20. /\ after = v[t + 1] /\ t + 1 \in 1 .. g + 1
         /\ at \in (Listed(n, w) \ gone) \cup {BOF} /\ after \in (Listed(n, w) \ gone) \cup {EOF}
         /\ at \notin gone /\ after \notin gone
    <3>1. t + 1 \in 1 .. g + 1 /\ (t = 0 \/ t \in 1 .. g) /\ (t + 1 = g + 1 \/ t + 1 \in 1 .. g)
      BY <2>6
    <3>2. cut.next[v[t]] = v[t + 1]
      BY <2>18 DEF Chained
    <3>3. v[t] \in Listed(g, v) \cup {BOF} /\ v[t + 1] \in Listed(g, v) \cup {EOF}
      BY <2>18, <3>1 DEF Chained, Listed
    <3>4. at \in (Listed(n, w) \ gone) \cup {BOF} /\ v[t + 1] \in (Listed(n, w) \ gone) \cup {EOF}
      BY <2>18, <2>19, <3>3
    <3>5. BOF \notin gone /\ EOF \notin gone
      BY <2>10, Guards
    <3>. QED BY <2>19, <3>1, <3>2, <3>4, <3>5
  <2> HIDE DEF at, after
  <2>21. MoveWithin(e, from, to, trg, before) = RecomputeNo(linked)
    <3>1. head # NULL /\ at # NULL /\ after # NULL
      BY <2>10, <2>13, <2>20, Guards
    <3>. QED BY <2>7, <3>1
  <2>22. /\ linked.next = [cut.next EXCEPT ![w[q]] = after, ![at] = w[p]]
         /\ linked.prev = [cut.prev EXCEPT ![after] = w[q], ![w[p]] = at]
         /\ linked.mine = e.mine /\ linked.text = e.text /\ linked.firstFree = e.firstFree
         /\ linked.cur = e.cur /\ linked.curNo = e.curNo /\ linked.count = e.count
         /\ linked.marks = e.marks /\ linked.modified \in BOOLEAN /\ linked.oom = e.oom
         /\ linked.broken = e.broken /\ linked = [x \in Fields |-> linked[x]]
    BY <2>6, <2>14 DEF Fields
  <2> HIDE DEF linked
  <2>23. {at, after} \subseteq Slots /\ {at, after} \subseteq Pointers
    BY <2>10, <2>20, Guards
  <2>24. cut.next \in [Slots -> Pointers] /\ cut.prev \in [Slots -> Pointers]
    <3>1. e.next \in [Slots -> Pointers] /\ e.prev \in [Slots -> Pointers]
      BY <2>2 DEF Shaped
    <3>2. [e.next EXCEPT ![head] = tail, ![w[q]] = NULL] \in [Slots -> Pointers]
      BY <2>15, <3>1
    <3>3. [e.prev EXCEPT ![tail] = head, ![w[p]] = NULL] \in [Slots -> Pointers]
      BY <2>15, <3>1
    <3>. QED BY <2>14, <3>2, <3>3
  <2>25. Shaped(linked)
    <3>1. [cut.next EXCEPT ![w[q]] = after, ![at] = w[p]] \in [Slots -> Pointers]
      BY <2>15, <2>23, <2>24
    <3>2. [cut.prev EXCEPT ![after] = w[q], ![w[p]] = at] \in [Slots -> Pointers]
      BY <2>15, <2>23, <2>24
    <3>. QED BY <2>2, <2>22, <3>1, <3>2 DEF Shaped
  <2>26. /\ linked.next[w[q]] = after /\ linked.next[at] = w[p]
         /\ \A l \in Slots : l # w[q] /\ l # at => linked.next[l] = cut.next[l]
    BY <2>10, <2>15, <2>20, <2>22, <2>23, <2>24
  <2>27. /\ linked.prev[after] = w[q] /\ linked.prev[w[p]] = at
         /\ \A l \in Slots : l # w[p] /\ l # after => linked.prev[l] = cut.prev[l]
    BY <2>10, <2>15, <2>20, <2>22, <2>23, <2>24
  <2>28. \A i \in 0 .. g : v[i] \in Slots /\ v[i] \notin gone /\ (i # t => v[i] # at)
    <3> SUFFICES ASSUME NEW i \in 0 .. g
                 PROVE  v[i] \in Slots /\ v[i] \notin gone /\ (i # t => v[i] # at)
      OBVIOUS
    <3>1. i \in 0 .. g + 1 /\ t \in 0 .. g + 1 /\ (i = 0 \/ i \in 1 .. g)
      BY <2>6
    <3>2. v[i] \in Listed(g, v) \cup {BOF} /\ v[i] \in Slots /\ (v[i] = v[t] => i = t)
      BY <2>18, <3>1 DEF Chained, Listed
    <3>. QED BY <2>10, <2>18, <2>19, <3>2, Guards
  <2>29. \A i \in 1 .. g + 1 : v[i] \in Slots /\ v[i] \notin gone /\ (i # t + 1 => v[i] # after)
    <3> SUFFICES ASSUME NEW i \in 1 .. g + 1
                 PROVE  v[i] \in Slots /\ v[i] \notin gone /\ (i # t + 1 => v[i] # after)
      OBVIOUS
    <3>1. i \in 0 .. g + 1 /\ t + 1 \in 0 .. g + 1 /\ (i = g + 1 \/ i \in 1 .. g)
      BY <2>6
    <3>2. v[i] \in Listed(g, v) \cup {EOF} /\ v[i] \in Slots /\ (v[i] = v[t + 1] => i = t + 1)
      BY <2>18, <3>1 DEF Chained, Listed
    <3>. QED BY <2>10, <2>18, <2>20, <3>2, Guards
  <2>30. LinkedIn(cut.next, cut.prev, g, v, t, k, c, linked.next, linked.prev)
    <3>1. \A i \in 0 .. g : i # t => linked.next[v[i]] = cut.next[v[i]]
      BY <2>10, <2>26, <2>28
    <3>2. \A i \in 1 .. g + 1 : i # t + 1 => linked.prev[v[i]] = cut.prev[v[i]]
      BY <2>10, <2>27, <2>29
    <3>3. ASSUME NEW i \in 1 .. k - 1
          PROVE  linked.next[c[i]] = c[i + 1] /\ linked.prev[c[i + 1]] = c[i]
      <4>1. /\ i \in 1 .. k /\ i + 1 \in 1 .. k /\ i # k /\ i + 1 # 1
            /\ p + (i + 1) - 1 = (p + i - 1) + 1 /\ p + i - 1 \in 0 .. n
        BY <2>3, <2>6
      <4>2. c[i] \in gone /\ c[i + 1] \in gone /\ c[i] # w[q] /\ c[i + 1] # w[p]
        BY <2>6, <2>9, <4>1 DEF Distinct
      <4>3. c[i] = w[p + i - 1] /\ c[i + 1] = w[(p + i - 1) + 1]
        BY <2>9, <4>1
      <4>4. e.next[c[i]] = c[i + 1] /\ e.prev[c[i + 1]] = c[i]
        BY <2>2, <4>1, <4>3 DEF Chained
      <4>5. c[i] \in Slots /\ c[i + 1] \in Slots
        BY <2>10, <4>2, Guards
      <4>6. cut.next[c[i]] = c[i + 1] /\ cut.prev[c[i + 1]] = c[i]
        BY <2>13, <2>16, <4>2, <4>4, <4>5
      <4>. QED BY <2>20, <2>26, <2>27, <4>2, <4>5, <4>6
    <3>4. /\ linked.next[v[t]] = c[1] /\ linked.next[c[k]] = v[t + 1]
          /\ linked.prev[v[t + 1]] = c[k] /\ linked.prev[c[1]] = v[t]
      BY <2>9, <2>19, <2>20, <2>26, <2>27
    <3>. QED BY <3>1, <3>2, <3>3, <3>4 DEF LinkedIn
  <2> DEFINE u == Spliced(g, v, t, k, c)
  <2>31. Chained(linked.next, linked.prev, n, u) /\ Listed(n, u) = Listed(n, w)
    <3>1. u = Spliced(g, v, t, k, c) /\ n = g + k
      BY <2>6
    <3> HIDE DEF u
    <3>2. Outside(g, v, k, c)
      BY <2>9, <2>18 DEF Outside
    <3>3. /\ Chained(linked.next, linked.prev, n, u)
          /\ Listed(n, u) = Listed(g, v) \cup {c[i] : i \in 1 .. k}
      <4>1. Chained(cut.next, cut.prev, g, v) /\ c \in [1 .. k -> Lines] /\ Distinct(k, c)
            /\ k \in Nat \ {0}
        BY <2>6, <2>9, <2>18
      <4>. QED BY <2>30, <3>1, <3>2, <4>1, SpliceLinks
    <3>. QED BY <2>9, <2>10, <2>18, <3>3
  <2> HIDE DEF u
  <2>32. Stacked(linked.next, linked.firstFree, m, f)
    <3>1. \A l \in Unused(m, f) : linked.next[l] = e.next[l]
      <4> SUFFICES ASSUME NEW l \in Unused(m, f) PROVE linked.next[l] = e.next[l]
        OBVIOUS
      <4>1. l \in Slots /\ l # w[q] /\ l # at /\ l # head
        BY <2>2, <2>10, <2>13, <2>20, Guards
      <4>. QED BY <2>16, <2>26, <4>1
    <3>2. Stacked(e.next, e.firstFree, m, f)
      BY <2>2
    <3>3. Stacked(linked.next, e.firstFree, m, f)
      BY <3>1, <3>2, StackStays
    <3>. QED BY <2>22, <3>3
  <2>33. Sound(linked, n, u, m, f, {}) /\ AllThere(starved0, n, u, m, f, {})
    <3>1. Holds(linked, n, u, m, f, {})
      BY <2>2, <2>22, <2>31 DEF Holds
    <3>. QED BY <2>1, <2>2, <2>25, <2>31, <2>32, <3>1 DEF Sound, AllThere
  <2>34. Kept(linked, starved0)
    BY <2>33 DEF Kept, KeptBut
  <2> DEFINE d == RecomputeNo(linked)
  <2>35. Moved(e, n, w, p, q, t, d)
    <3>1. /\ d.next = linked.next /\ d.prev = linked.prev /\ d.text = linked.text
          /\ d.cur = linked.cur /\ d.marks = linked.marks
      BY <2>25, RecomputeIs
    <3>2. u = Spliced(n - (q - p + 1), Cut(n, w, p, q), t, q - p + 1, [i \in 1 .. q - p + 1 |-> w[p + i - 1]])
      BY DEF u, g, v, k, c
    <3> HIDE DEF d
    <3>. QED BY <2>22, <2>31, <3>1, <3>2 DEF Moved
  <2>36. p =< q /\ t \in 0 .. n - (q - p + 1)
    BY <2>6 DEF g, k
  <2>37. Kept(d, starved0)
    BY <2>34, RecomputeKeeps
  <2> HIDE DEF d
  <2>38. \E p2, q2 \in 1 .. n : p2 =< q2 /\ \E t2 \in 0 .. n - (q2 - p2 + 1) : Moved(e, n, w, p2, q2, t2, d)
    BY <2>35, <2>36
  <2>. QED BY <2>21, <2>37, <2>38 DEF d
<1>. QED BY <1>1, <1>2

LEMMA MoveKeeps ==
    ASSUME NEW e, NEW starved0, Kept(e, starved0), NEW from \in Holdable(e), NEW to \in Holdable(e),
           NEW trg \in Holdable(e) \cup {NULL}, NEW before, ~IsInLineRange(e, trg, from, to)
    PROVE  Kept(MoveWithin(e, from, to, trg, before), starved0)
<1>1. PICK n, w, m, f : Sound(e, n, w, m, f, {}) /\ AllThere(starved0, n, w, m, f, {})
  BY DEF Kept, KeptBut
<1>. QED BY <1>1, MoveIs

-----------------------------------------------------------------------------
(* Opening the editor *)

\* The text is the file's so far, and no mark is set.
AsRead(e) ==
    /\ \A l \in Members(e) : e.text[l] \in ToSet(File)
    /\ \A k \in MarkNos : e.marks[k] = NULL

LEMMA InsertAsRead ==
    ASSUME NEW e, NEW starved0, Kept(e, starved0), AsRead(e), NEW txt \in ToSet(File)
    PROVE  Kept(InsertLine(e, txt), starved0) /\ AsRead(InsertLine(e, txt))
<1> DEFINE new == InsertLineAfter(e, e.cur, txt)
           c == [i \in 1 .. 1 |-> e.firstFree]
           txts == [i \in 1 .. 1 |-> txt]
           d == InsertLine(e, txt)
<1>0. txt \in Texts
  <2>1. File \in [1 .. Len(File) -> Texts]
    BY EditorAssumption, LenProperties
  <2>. QED BY <2>1 DEF ToSet
<1>1. PICK n, w, m, f : Sound(e, n, w, m, f, {}) /\ AllThere(starved0, n, w, m, f, {})
  BY DEF Kept, KeptBut
<1>2. Chained(e.next, e.prev, n, w) /\ Members(e) = Listed(n, w)
      /\ e.cur \in Listed(n, w) \cup {BOF} /\ n \in Nat
  <2>1. Chained(e.next, e.prev, n, w) /\ e.cur \in Listed(n, w) \cup {BOF}
    BY <1>1 DEF Sound, Holds
  <2>2. Members(e) = Listed(n, w) /\ n \in Nat
    BY <2>1, ChainIs DEF Members, Chained
  <2>. QED BY <2>1, <2>2
<1>3. PICK t \in 0 .. n : e.cur = w[t]
  BY <1>2, PlaceFound
<1>4. (IF e.cur = NULL THEN BOF ELSE e.cur) = w[t]
  <2>1. e.cur # NULL
    BY <1>2, Guards DEF Listed, Chained
  <2>. QED BY <1>3, <2>1
<1>5. /\ Kept(new, starved0)
      /\ \/ new.oom /\ Alike(e, n, w, new)
         \/ ~new.oom /\ Pasted(e, n, w, t, 1, c, txts, new)
  BY <1>0, <1>1, <1>4, InsertAfterIs
<1>6. d = IF new.oom \/ new.broken THEN new ELSE [new EXCEPT !.cur = e.firstFree]
  BY DEF InsertLine
<1>7. Kept(d, starved0)
  BY <1>0, InsertKeeps
<1> HIDE DEF new, d
<1>8. d.next = new.next /\ d.text = new.text /\ d.marks = new.marks
  <2>1. Shaped(new)
    BY <1>5, KeptFacts
  <2>. QED BY <1>6, <2>1 DEF Shaped, Fields
<1>9. Members(d) = Members(new)
  BY <1>8 DEF Members, Chain, Follow
<1>10. AsRead(new)
  <2>1. CASE Alike(e, n, w, new)
    <3>1. Members(new) = Listed(n, w)
      BY <2>1, ChainIs DEF Members, Alike
    <3>. QED BY <1>2, <2>1, <3>1 DEF Alike, AsRead
  <2>2. CASE Pasted(e, n, w, t, 1, c, txts, new)
    <3> DEFINE v == Spliced(n, w, t, 1, c)
               g == n + 1
    <3>1. Chained(new.next, new.prev, g, v)
      BY <2>2 DEF Pasted
    <3> HIDE DEF g, v
    <3>2. Members(new) = Listed(g, v)
      BY <3>1, ChainIs DEF Members
    <3>3. ASSUME NEW l \in Listed(g, v) PROVE l \in Listed(n, w) \/ l = c[1]
      <4>1. PICK i \in 1 .. n + 1 : l = v[i]
        BY <3>3 DEF Listed, g
      <4>2. v[i] = IF i =< t THEN w[i] ELSE IF i =< t + 1 THEN c[i - t] ELSE w[i - 1]
        BY <1>2, <4>1 DEF v, Spliced
      <4>3. CASE i =< t
        <5>1. i \in 1 .. n
          BY <1>2, <4>3
        <5>. QED BY <4>1, <4>2, <4>3, <5>1 DEF Listed
      <4>4. CASE i = t + 1
        <5>1. i - t = 1 /\ ~(i =< t) /\ i =< t + 1
          BY <1>2, <4>4
        <5>. QED BY <4>1, <4>2, <5>1
      <4>5. CASE ~(i =< t + 1)
        <5>1. i - 1 \in 1 .. n /\ ~(i =< t)
          BY <1>2, <4>5
        <5>. QED BY <4>1, <4>2, <4>5, <5>1 DEF Listed
      <4>. QED BY <1>2, <4>3, <4>4, <4>5
    <3>4. /\ new.text[c[1]] = txt /\ new.marks = e.marks
          /\ \A l \in Listed(n, w) : new.text[l] = e.text[l]
      <4>1. 1 \in 1 .. 1 /\ txts[1] = txt
        OBVIOUS
      <4> HIDE DEF c, txts
      <4>. QED BY <2>2, <4>1 DEF Pasted
    <3>. QED BY <1>2, <3>2, <3>3, <3>4 DEF AsRead
  <2>. QED BY <1>5, <2>1, <2>2
<1>11. AsRead(d)
  BY <1>8, <1>9, <1>10 DEF AsRead
<1>. QED BY <1>7, <1>11 DEF d

LEMMA InsertAll ==
    ASSUME NEW e, NEW starved0, Kept(e, starved0), AsRead(e),
           NEW k \in Nat, NEW c \in [1 .. k -> ToSet(File)]
    PROVE  Kept(InTurn(InsertLine, e, c), starved0) /\ AsRead(InTurn(InsertLine, e, c))
<1> DEFINE after == CHOOSE u : TurnOf(FALSE, e, c, k, u)
           bad == {j \in 0 .. k : ~(Kept(after[j], starved0) /\ AsRead(after[j]))}
<1>1. InTurn(InsertLine, e, c) = after[k]
  <2>1. Len(c) = k
    OBVIOUS
  <2>. QED BY <2>1 DEF InTurn, TurnOf, Turn
<1>2. TurnOf(FALSE, e, c, k, after)
  BY TurnExists
<1> HIDE DEF after
<1>3. after[0] = e
  BY <1>2 DEF TurnOf
<1>4. \A j \in 1 .. k : after[j] = InsertLine(after[j - 1], c[j])
  BY <1>2 DEF TurnOf, Turn
<1>5. ASSUME NEW j \in 1 .. k, j - 1 \notin bad PROVE j \notin bad
  <2>1. j - 1 \in 0 .. k /\ c[j] \in ToSet(File)
    OBVIOUS
  <2>2. Kept(after[j - 1], starved0) /\ AsRead(after[j - 1])
    BY <1>5, <2>1
  <2>3. Kept(InsertLine(after[j - 1], c[j]), starved0) /\ AsRead(InsertLine(after[j - 1], c[j]))
    BY <2>1, <2>2, InsertAsRead
  <2>. QED BY <1>4, <2>3
<1>6. 0 \notin bad
  BY <1>3
<1>7. bad = {}
  <2>1. bad \subseteq Nat /\ \A j \in bad : j \in 0 .. k
    OBVIOUS
  <2> HIDE DEF bad
  <2> SUFFICES ASSUME bad # {} PROVE FALSE
    OBVIOUS
  <2>2. PICK j \in bad : \A y \in bad : j =< y
    BY <2>1, LeastNumber
  <2>3. j \in 1 .. k
    BY <1>6, <2>1
  <2>4. j - 1 \notin bad
    BY <2>1, <2>2, <2>3
  <2>. QED BY <1>5, <2>3, <2>4
<1>8. k \in 0 .. k /\ k \notin bad
  <2> HIDE DEF bad
  <2>. QED BY <1>7
<1>. QED BY <1>1, <1>8

LEMMA OpenedIsKept ==
    /\ Kept(Opened(Page, File), FALSE) /\ AsRead(Opened(Page, File))
    /\ Opened(Page, File).cur = BOF
<1> DEFINE empty ==
               [next |-> [s \in Slots |->
                   IF s = BOF THEN EOF ELSE IF ~Contains(Page, s) \/ s = Last(Page) THEN NULL
                   ELSE Page[Index(Page, s) + 1]],
                prev |-> [s \in Slots |-> IF s = EOF THEN BOF ELSE NULL],
                mine |-> [s \in Slots |-> s \in {BOF, EOF}],
                text |-> [l \in Lines |-> <<>>],
                firstFree |-> Page[1], cur |-> BOF, curNo |-> 0, count |-> 0,
                marks |-> [k \in MarkNos |-> NULL], modified |-> FALSE,
                oom |-> FALSE, broken |-> FALSE]
           filled == InTurn(InsertLine, empty, File)
           moved == MoveToBOF(filled)
           m == Len(Page)
           f == [i \in 1 .. m + 1 |-> IF i =< m THEN Page[i] ELSE NULL]
           w == [i \in 0 .. 1 |-> IF i = 0 THEN BOF ELSE EOF]
<1>1. Opened(Page, File) = [moved EXCEPT !.modified = FALSE]
  BY DEF Opened, Index
<1>2. /\ m \in Nat \ {0} /\ Page \in [1 .. m -> Lines] /\ Distinct(m, Page)
      /\ Lines = {Page[i] : i \in 1 .. m}
  <2>1. Page \in Seq(Lines) /\ Page # <<>> /\ ToSet(Page) = Lines /\ IsInjective(Page)
    BY EditorAssumption
  <2>2. m \in Nat \ {0} /\ Page \in [1 .. m -> Lines] /\ DOMAIN Page = 1 .. m
    BY <2>1, LenProperties, EmptySeq
  <2>. QED BY <2>1, <2>2 DEF IsInjective, Distinct, ToSet
<1> DEFINE next == empty.next
<1>3. /\ next \in [Slots -> Pointers] /\ next[BOF] = EOF
      /\ \A i \in 1 .. m : next[Page[i]] = f[i + 1]
  <2> HIDE DEF m
  <2>1. Last(Page) = Page[m] /\ \A l : Contains(Page, l) <=> \E i \in 1 .. m : Page[i] = l
    BY DEF Last, Contains, m
  <2>2. \A i \in 1 .. m : Index(Page, Page[i]) = i
    BY <1>2, IndexIs
  <2>3. BOF \in Slots /\ EOF \in Slots /\ Lines \subseteq Slots /\ Slots \subseteq Pointers
        /\ NULL \in Pointers /\ BOF \notin Lines
    BY Guards
  <2>4. next[BOF] = EOF
    BY <2>3
  <2>5. ASSUME NEW i \in 1 .. m PROVE next[Page[i]] = f[i + 1]
    <3>1. Page[i] \in Slots /\ Page[i] # BOF /\ Contains(Page, Page[i])
      BY <1>2, <2>1, <2>3
    <3>2. Page[i] = Last(Page) <=> i = m
      BY <1>2, <2>1 DEF Distinct
    <3>3. next[Page[i]] = IF i = m THEN NULL ELSE Page[i + 1]
      BY <2>2, <3>1, <3>2
    <3>4. i + 1 \in 1 .. m + 1 /\ (i + 1 =< m <=> i # m)
      BY <1>2
    <3>. QED BY <3>3, <3>4
  <2>6. ASSUME NEW l \in Slots PROVE next[l] \in Pointers
    <3>1. CASE l = BOF
      BY <2>3, <2>4, <3>1
    <3>2. CASE l # BOF /\ ~Contains(Page, l)
      BY <2>3, <3>2
    <3>3. CASE Contains(Page, l)
      <4>1. PICK i \in 1 .. m : Page[i] = l
        BY <2>1, <3>3
      <4>2. i + 1 \in 1 .. m + 1 /\ (i + 1 =< m => i + 1 \in 1 .. m)
        BY <1>2
      <4>3. f[i + 1] \in Pointers
        BY <1>2, <2>3, <4>2
      <4>. QED BY <2>5, <4>1, <4>3
    <3>. QED BY <3>1, <3>2, <3>3
  <2>7. next = [l \in Slots |-> next[l]]
    OBVIOUS
  <2> HIDE DEF next
  <2>. QED BY <2>4, <2>5, <2>6, <2>7
<1>4. /\ empty.next = next /\ empty.prev = [l \in Slots |-> IF l = EOF THEN BOF ELSE NULL]
      /\ empty.mine = [l \in Slots |-> l \in {BOF, EOF}] /\ empty.text = [l \in Lines |-> <<>>]
      /\ empty.firstFree = Page[1] /\ empty.cur = BOF /\ empty.curNo = 0 /\ empty.count = 0
      /\ empty.marks = [k \in MarkNos |-> NULL] /\ empty.modified \in BOOLEAN
      /\ empty.oom \in BOOLEAN /\ empty.broken \in BOOLEAN /\ ~empty.broken
      /\ empty = [x \in Fields |-> empty[x]]
  BY DEF Fields
<1> HIDE DEF empty, m
<1>5. Shaped(empty)
  <2>1. empty.prev \in [Slots -> Pointers] /\ empty.cur \in Pointers
        /\ empty.marks \in [MarkNos -> Pointers]
    BY <1>4, Guards
  <2>2. empty.mine \in [Slots -> BOOLEAN] /\ empty.text \in [Lines -> Texts]
    BY <1>4, TextIs
  <2>3. empty.firstFree \in Lines
    <3>1. 1 \in 1 .. m
      BY <1>2
    <3>. QED BY <1>2, <1>4, <3>1
  <2>4. /\ empty.next \in [Slots -> Pointers] /\ empty.curNo \in Int /\ empty.count \in Int
        /\ empty.modified \in BOOLEAN /\ empty.oom \in BOOLEAN /\ empty.broken \in BOOLEAN
        /\ empty = [x \in Fields |-> empty[x]]
    BY <1>3, <1>4
  <2>. QED BY <2>1, <2>2, <2>3, <2>4 DEF Shaped
<1>6. Chained(empty.next, empty.prev, 0, w) /\ Listed(0, w) = {}
  <2>1. empty.prev[EOF] = BOF
    BY <1>4, Guards
  <2>2. w[0] = BOF /\ w[1] = EOF /\ w \in [0 .. 0 + 1 -> Slots]
    BY Guards
  <2>3. \A i, k \in 0 .. 0 + 1 : w[i] = w[k] => i = k
    BY Guards
  <2> HIDE DEF w
  <2>. QED BY <1>3, <1>4, <2>1, <2>2, <2>3 DEF Chained, Listed
<1>7. Stacked(empty.next, empty.firstFree, m, f) /\ Unused(m, f) = Lines
  <2>1. /\ f \in [1 .. m + 1 -> Lines \cup {NULL}] /\ f[m + 1] = NULL
        /\ \A i \in 1 .. m : f[i] = Page[i]
    BY <1>2
  <2>2. 1 \in 1 .. m
    BY <1>2
  <2> HIDE DEF f
  <2>3. \A i \in 1 .. m : f[i] \in Lines /\ empty.next[f[i]] = f[i + 1]
    BY <1>2, <1>3, <2>1
  <2>4. \A i, k \in 1 .. m : f[i] = f[k] => i = k
    BY <1>2, <2>1 DEF Distinct
  <2>5. empty.firstFree = f[1]
    BY <1>4, <2>1, <2>2
  <2>6. Unused(m, f) = {Page[i] : i \in 1 .. m}
    BY <2>1 DEF Unused
  <2>. QED BY <1>2, <2>1, <2>3, <2>4, <2>5, <2>6 DEF Stacked
<1> HIDE DEF w, f, next
<1>8. Kept(empty, FALSE)
  <2>1. \A l \in Lines : ~empty.mine[l]
    BY <1>4, Guards
  <2>2. Holds(empty, 0, w, m, f, {})
    BY <1>4, <1>6, <1>7, <2>1 DEF Holds
  <2>. QED BY <1>5, <1>6, <1>7, <2>2 DEF Kept, KeptBut, Sound, AllThere
<1>9. Kept(filled, FALSE) /\ AsRead(filled)
  <2>1. File \in [1 .. Len(File) -> ToSet(File)] /\ Len(File) \in Nat
    BY EditorAssumption, LenProperties DEF ToSet
  <2>2. Members(empty) = {}
    <3>1. Members(empty) = Listed(0, w)
      BY <1>6, ChainIs DEF Members
    <3>. QED BY <1>6, <3>1
  <2>3. AsRead(empty)
    BY <1>4, <2>2 DEF AsRead
  <2>. QED BY <1>8, <2>1, <2>3, InsertAll
<1> HIDE DEF filled
<1>10. Kept(moved, FALSE) /\ AsRead(moved) /\ moved.cur = BOF
  <2>1. Moving(filled, moved)
    BY ToBOFMoves
  <2>2. Shaped(filled)
    BY <1>9, KeptFacts
  <2>3. /\ moved.next = filled.next /\ moved.text = filled.text /\ moved.marks = filled.marks
        /\ moved.cur = BOF
    BY <2>2 DEF MoveToBOF, Shaped, Fields
  <2> HIDE DEF moved
  <2>4. Kept(moved, FALSE)
    BY <1>9, <2>1, MovingIsKept
  <2>5. Members(moved) = Members(filled)
    BY <2>3 DEF Members, Chain, Follow
  <2>. QED BY <1>9, <2>3, <2>4, <2>5 DEF AsRead
<1> HIDE DEF moved
<1>11. Shaped(moved)
  BY <1>10, KeptFacts
<1> DEFINE opened == [moved EXCEPT !.modified = FALSE]
<1>12. /\ opened.next = moved.next /\ opened.prev = moved.prev /\ opened.mine = moved.mine
       /\ opened.text = moved.text /\ opened.firstFree = moved.firstFree
       /\ opened.cur = moved.cur /\ opened.curNo = moved.curNo /\ opened.count = moved.count
       /\ opened.marks = moved.marks /\ opened.modified = FALSE /\ opened.oom = moved.oom
       /\ opened.broken = moved.broken /\ opened = [x \in Fields |-> opened[x]]
  BY <1>11 DEF Shaped, Fields
<1> HIDE DEF opened
<1>13. Shaped(opened)
  BY <1>11, <1>12 DEF Shaped
<1>14. opened.cur \in Members(moved) \cup {BOF}
       /\ \A k \in MarkNos : opened.marks[k] \in Members(moved) \cup {NULL, BOF}
  BY <1>10, <1>12, KeptFacts
<1>15. Kept(opened, FALSE)
  BY <1>10, <1>12, <1>13, <1>14, Quiet
<1>16. Members(opened) = Members(moved)
  BY <1>12 DEF Members, Chain, Follow
<1>17. AsRead(opened) /\ opened.cur = BOF
  BY <1>10, <1>12, <1>16 DEF AsRead
<1>. QED BY <1>1, <1>15, <1>17 DEF opened

-----------------------------------------------------------------------------
(* The invariant *)

LEMMA InitIsKept == Init => IInv
BY OpenedIsKept DEF Init, IInv

\* A call ends with the exception handled and all else as it left the editor.
LEMMA Handled ==
    ASSUME NEW new, NEW s, Kept(new, s)
    PROVE  Kept([new EXCEPT !.oom = FALSE], s) /\ \A t : Kept([new EXCEPT !.oom = FALSE], s \/ t)
<1> DEFINE e == [new EXCEPT !.oom = FALSE]
<1>1. Shaped(new)
  BY KeptFacts
<1>2. /\ e.next = new.next /\ e.prev = new.prev /\ e.mine = new.mine /\ e.text = new.text
      /\ e.firstFree = new.firstFree /\ e.cur = new.cur /\ e.curNo = new.curNo
      /\ e.count = new.count /\ e.marks = new.marks /\ e.modified = new.modified
      /\ e.oom = FALSE /\ e.broken = new.broken /\ e = [x \in Fields |-> e[x]]
  BY <1>1 DEF Shaped, Fields
<1> HIDE DEF e
<1>3. Shaped(e)
  BY <1>1, <1>2 DEF Shaped
<1>4. e.cur \in Members(new) \cup {BOF}
      /\ \A k \in MarkNos : e.marks[k] \in Members(new) \cup {NULL, BOF}
  BY <1>2, KeptFacts
<1>5. Kept(e, s)
  BY <1>2, <1>3, <1>4, Quiet
<1>6. ASSUME NEW t PROVE Kept(e, s \/ t)
  BY <1>5 DEF Kept, KeptBut, AllThere
<1>. QED BY <1>5, <1>6 DEF e

LEMMA NextKeeps ==
    ASSUME IInv, Next
    PROVE  IInv'
<1>1. Kept(r, starved)
  BY DEF IInv
<1>2. Mine = Members(r) /\ Known = Holdable(r)
  BY DEF Mine, Known, Members, Holdable
<1>3. Shaped(r) /\ Members(r) \subseteq Lines
      /\ \A k \in MarkNos : r.marks[k] \in Members(r) \cup {NULL, BOF}
      /\ r.cur \in Members(r) \cup {BOF}
  BY <1>1, KeptFacts
<1>4. Typed \subseteq Texts
  BY EditorAssumption
<1>5. CASE InsertAfterCall
  <2>1. PICK l \in Members(r) \cup {NULL}, txt \in Typed : Call(InsertLineAfter(r, l, txt))
    BY <1>2, <1>5 DEF InsertAfterCall
  <2>2. Kept(InsertLineAfter(r, l, txt), starved)
    BY <1>1, <1>4, InsertAfterKeeps
  <2>. QED BY <2>1, <2>2, Handled DEF Call, IInv
<1>6. CASE InsertBeforeCall
  <2>1. PICK l \in Members(r) \cup {NULL}, txt \in Typed : Call(InsertLineBefore(r, l, txt))
    BY <1>2, <1>6 DEF InsertBeforeCall
  <2>2. Kept(InsertLineBefore(r, l, txt), starved)
    BY <1>1, <1>4, InsertBeforeKeeps
  <2>. QED BY <2>1, <2>2, Handled DEF Call, IInv
<1>7. CASE InsertCall
  <2>1. PICK txt \in Typed : Call(InsertLine(r, txt))
    BY <1>7 DEF InsertCall
  <2>2. Kept(InsertLine(r, txt), starved)
    BY <1>1, <1>4, InsertKeeps
  <2>. QED BY <2>1, <2>2, Handled DEF Call, IInv
<1>8. CASE DeleteCall
  <2>1. PICK l \in Members(r) : Call(DeleteLine(r, l))
    BY <1>2, <1>8 DEF DeleteCall
  <2>2. Kept(DeleteLine(r, l), starved)
    BY <1>1, DeleteKeeps
  <2>. QED BY <2>1, <2>2, Handled DEF Call, IInv
<1>9. CASE UpdateCall
  <2>1. PICK l \in Members(r), txt \in Typed : Call(UpdateLine(r, l, txt))
    BY <1>2, <1>9 DEF UpdateCall
  <2>2. Kept(UpdateLine(r, l, txt), starved)
    BY <1>1, <1>3, <1>4, UpdateKeeps
  <2>. QED BY <2>1, <2>2, Handled DEF Call, IInv
<1>10. CASE DeleteRangeCall
  <2>1. PICK a \in Holdable(r), b \in Holdable(r) : Call(DeleteLineRange(r, a, b))
    BY <1>2, <1>10 DEF DeleteRangeCall
  <2>2. Kept(DeleteLineRange(r, a, b), starved)
    BY <1>1, DeleteRangeKeeps
  <2>. QED BY <2>1, <2>2, Handled DEF Call, IInv
<1>11. CASE CopyRangeCall
  <2>1. PICK a \in Holdable(r), b \in Holdable(r), trg \in Holdable(r) \cup {NULL},
             before \in BOOLEAN : Call(CopyLineRange(r, a, b, r, trg, before))
    BY <1>2, <1>11 DEF CopyRangeCall
  <2> DEFINE new == CopyLineRange(r, a, b, r, trg, before)
  <2>2. new = CopyLineRange(r, a, b, r, trg, before)
    OBVIOUS
  <2> HIDE DEF new
  <2>3. Kept(new, starved \/ new.oom)
    BY <1>1, <2>2, CopyKeeps
  <2>. QED BY <2>1, <2>2, <2>3, Handled DEF Call, IInv
<1>12. CASE MoveRangeCall
  <2>1. PICK a \in Holdable(r), b \in Holdable(r), trg \in Holdable(r) \cup {NULL},
             before \in BOOLEAN :
                 ~IsInLineRange(r, trg, a, b) /\ Call(MoveWithin(r, a, b, trg, before))
    BY <1>2, <1>12 DEF MoveRangeCall
  <2> DEFINE new == MoveWithin(r, a, b, trg, before)
  <2>2. Kept(new, starved)
    BY <1>1, <2>1, MoveKeeps
  <2>3. Call(new)
    BY <2>1
  <2> HIDE DEF new
  <2>. QED BY <2>2, <2>3, Handled DEF Call, IInv
<1>13. CASE JoinCall
  <2>1. PICK l \in Members(r), pos \in 0 .. WorkLrecl, force \in BOOLEAN :
                 pos >= Len(r.text[l]) /\ Call(Join(r, l, pos, force))
    BY <1>2, <1>13 DEF JoinCall
  <2> DEFINE new == Join(r, l, pos, force)
  <2>2. Kept(new, starved)
    BY <1>1, <2>1, JoinKeeps
  <2>3. Call(new)
    BY <2>1
  <2> HIDE DEF new
  <2>. QED BY <2>2, <2>3, Handled DEF Call, IInv
<1>14. CASE SplitCall
  <2>1. PICK l \in Members(r), pos \in 0 .. WorkLrecl :
                 pos < Len(r.text[l]) /\ Call(Split(r, l, pos))
    BY <1>2, <1>14 DEF SplitCall
  <2>2. Kept(Split(r, l, pos), starved)
    BY <1>1, <2>1, SplitKeeps
  <2>. QED BY <2>1, <2>2, Handled DEF Call, IInv
<1>15. CASE MarkCall
  <2>1. PICK l \in Holdable(r) \cup {NULL, CurrentLine(r)}, k \in MarkNos : Call(SetLineMark(r, l, k))
    BY <1>2, <1>15 DEF MarkCall
  <2>2. ~Own(r, l) \/ l \in Members(r) \cup {BOF}
    <3>1. CASE l \in Holdable(r) \cup {NULL}
      BY <1>1, <3>1, HoldableIs
    <3>2. CASE l = CurrentLine(r)
      BY <1>3, <3>2 DEF CurrentLine, Own
    <3>. QED BY <3>1, <3>2
  <2>3. Kept(SetLineMark(r, l, k), starved)
    BY <1>1, <2>2, MarkKeeps
  <2>. QED BY <2>1, <2>3, Handled DEF Call, IInv
<1>16. CASE MoveCall
  <2>0. /\ Kept(MoveToBOF(r), starved) /\ Kept(MoveToLastLine(r), starved)
        /\ \A l : Kept(MoveToLine(r, l), starved)
        /\ \A by \in Int : Kept(MoveBy(r, by), starved)
    <3>1. \A d : Moving(r, d) => Kept(d, starved)
      BY <1>1, MovingIsKept
    <3>2. Moving(r, MoveToBOF(r)) /\ Moving(r, MoveToLastLine(r))
      BY <1>1, ToBOFMoves, ToLastMoves
    <3>3. \A l : Moving(r, MoveToLine(r, l))
      BY <1>1, ToLineMoves
    <3>4. \A by \in Int : Moving(r, MoveBy(r, by))
      BY <1>1, ByMoves
    <3>. QED BY <3>1, <3>2, <3>3, <3>4
  <2>1. CASE Call(MoveToBOF(r))
    BY <2>0, <2>1, Handled DEF Call, IInv
  <2>2. CASE Call(MoveToLastLine(r))
    BY <2>0, <2>2, Handled DEF Call, IInv
  <2>3. ASSUME NEW l, Call(MoveToLine(r, l)) PROVE IInv'
    BY <2>0, <2>3, Handled DEF Call, IInv
  <2>4. ASSUME NEW by \in {-2, -1, 1, 2}, Call(MoveBy(r, by)) PROVE IInv'
    <3>1. by \in Int
      OBVIOUS
    <3>2. Kept(MoveBy(r, by), starved)
      BY <2>0, <3>1
    <3>. QED BY <2>4, <3>2, Handled DEF Call, IInv
  <2>. QED BY <1>16, <2>1, <2>2, <2>3, <2>4 DEF MoveCall
<1>17. CASE Done
  BY <1>1, <1>17 DEF Done, vars, IInv
<1>. QED BY <1>5, <1>6, <1>7, <1>8, <1>9, <1>10, <1>11, <1>12, <1>13, <1>14, <1>15, <1>16,
            <1>17 DEF Next

LEMMA AlwaysKept == Spec => []IInv
<1>1. IInv /\ UNCHANGED vars => IInv'
  BY DEF IInv, vars
<1>2. IInv /\ [Next]_vars => IInv'
  BY <1>1, NextKeeps
<1>. QED BY <1>2, InitIsKept, PTL DEF Spec

-----------------------------------------------------------------------------
(* What follows from it *)

LEMMA KeptIsTyped ==
    ASSUME NEW e, Shaped(e)
    PROVE  e \in EdType(Texts)
<1>1. e = [next |-> e.next, prev |-> e.prev, mine |-> e.mine, text |-> e.text,
           firstFree |-> e.firstFree, cur |-> e.cur, curNo |-> e.curNo, count |-> e.count,
           marks |-> e.marks, modified |-> e.modified, oom |-> e.oom, broken |-> e.broken]
  BY DEF Shaped, Fields
<1>. QED BY <1>1 DEF EdType, Shaped

LEMMA IsWalkable == IInv => Walkable
<1> SUFFICES ASSUME IInv PROVE Walkable
  OBVIOUS
<1>1. PICK n, w, m, f : Sound(r, n, w, m, f, {}) /\ AllThere(starved, n, w, m, f, {})
  BY DEF IInv, Kept, KeptBut
<1>2. Chained(r.next, r.prev, n, w) /\ Shaped(r) /\ Holds(r, n, w, m, f, {})
  BY <1>1 DEF Sound
<1>3. n \in Nat /\ w[0] = BOF /\ w[n + 1] = EOF /\ 0 \in 0 .. n + 1
      /\ \A i \in 0 .. n + 1 : w[i] \in Slots
  BY <1>2 DEF Chained
<1> DEFINE c == [i \in 1 .. n |-> w[i]]
           walk == [i \in 1 .. n + 2 |-> w[i - 1]]
<1>4. Chain(r) = c
  BY <1>2, ChainIs
<1>5. c \in Seq(Slots) /\ Len(c) = n /\ \A i \in 1 .. n : c[i] = w[i]
  BY <1>3
<1>6. <<BOF>> \o Chain(r) \o <<EOF>> = walk
  <2> HIDE DEF c
  <2>1. <<BOF>> \o c \in Seq(Slots) /\ Len(<<BOF>> \o c) = n + 1
        /\ \A i \in 1 .. n + 1 : (<<BOF>> \o c)[i] = IF i = 1 THEN BOF ELSE c[i - 1]
    BY <1>3, <1>5, Guards
  <2> DEFINE d == <<BOF>> \o c
  <2> HIDE DEF d
  <2>2. d \in Seq(Slots) /\ Len(d) = n + 1
        /\ \A i \in 1 .. n + 1 : d[i] = IF i = 1 THEN BOF ELSE c[i - 1]
    BY <2>1 DEF d
  <2> DEFINE u == d \o <<EOF>>
  <2>3. u \in Seq(Slots) /\ Len(u) = n + 2
        /\ \A i \in 1 .. n + 2 : u[i] = IF i =< n + 1 THEN d[i] ELSE EOF
    BY <1>3, <2>2, Guards
  <2> HIDE DEF u
  <2>4. \A i \in 1 .. n + 2 : u[i] = w[i - 1]
    <3> SUFFICES ASSUME NEW i \in 1 .. n + 2 PROVE u[i] = w[i - 1]
      OBVIOUS
    <3>1. CASE i = 1
      BY <1>3, <2>2, <2>3, <3>1
    <3>2. CASE i = n + 2
      BY <1>3, <2>3, <3>2
    <3>3. CASE i # 1 /\ i # n + 2
      <4>1. i - 1 \in 1 .. n /\ i \in 1 .. n + 1
        BY <1>3, <3>3
      <4>. QED BY <1>5, <2>2, <2>3, <3>3, <4>1
    <3>. QED BY <3>1, <3>2, <3>3
  <2>5. u = walk
    <3>1. u \in [1 .. n + 2 -> Slots]
      BY <2>3, LenProperties
    <3>. QED BY <2>4, <3>1
  <2>. QED BY <1>4, <2>5 DEF u, d
<1>7. Len(walk) = n + 2 /\ DOMAIN walk = 1 .. n + 2
  BY <1>3
<1>8. IsInjective(walk)
  <2> SUFFICES ASSUME NEW a \in 1 .. n + 2, NEW b \in 1 .. n + 2, walk[a] = walk[b] PROVE a = b
    BY <1>7 DEF IsInjective
  <2>1. a - 1 \in 0 .. n + 1 /\ b - 1 \in 0 .. n + 1 /\ w[a - 1] = w[b - 1]
    BY <1>3
  <2>2. a - 1 = b - 1
    BY <1>2, <2>1 DEF Chained
  <2>. QED BY <2>2
<1>9. \A i \in 1 .. n + 1 : r.prev[walk[i + 1]] = walk[i]
  <2> SUFFICES ASSUME NEW i \in 1 .. n + 1 PROVE r.prev[walk[i + 1]] = walk[i]
    OBVIOUS
  <2>1. i - 1 \in 0 .. n /\ (i - 1) + 1 = i /\ walk[i + 1] = w[i] /\ walk[i] = w[i - 1]
    BY <1>3
  <2>2. r.prev[w[(i - 1) + 1]] = w[i - 1]
    BY <1>2, <2>1 DEF Chained
  <2>. QED BY <2>1, <2>2
<1>10. Last(Follow(r, BOF)) = EOF
  <2>1. Follow(r, w[0]) = Onward(n, w, 0)
    BY <1>2, <1>3, WalkFrom
  <2>2. Onward(n, w, 0) = [i \in 1 .. n + 2 |-> w[i - 1]]
    BY <1>3 DEF Onward
  <2>3. Len(walk) = n + 2 /\ walk[n + 2] = EOF
    BY <1>3
  <2>. QED BY <1>3, <2>1, <2>2, <2>3 DEF Last
<1>11. r.count = Len(Chain(r)) /\ ~r.broken
  BY <1>2, <1>4, <1>5 DEF Holds
<1>12. r \in EdType(Texts)
  BY <1>2, KeptIsTyped
<1>13. Len(walk) - 1 = n + 1
  BY <1>3, <1>7
<1> HIDE DEF walk
<1>. QED BY <1>6, <1>8, <1>9, <1>10, <1>11, <1>12, <1>13 DEF Walkable

LEMMA NoneIsLost == IInv => NoneLeaks
<1> SUFFICES ASSUME IInv PROVE NoneLeaks
  OBVIOUS
<1>1. PICK n, w, m, f : Sound(r, n, w, m, f, {}) /\ AllThere(starved, n, w, m, f, {})
  BY DEF IInv, Kept, KeptBut
<1>2. /\ Chained(r.next, r.prev, n, w) /\ Stacked(r.next, r.firstFree, m, f) /\ Shaped(r)
      /\ Holds(r, n, w, m, f, {}) /\ Listed(n, w) \cap Unused(m, f) = {}
  BY <1>1 DEF Sound
<1>3. Mine = Listed(n, w) /\ ToSet(FreeLines(r)) = Unused(m, f)
      /\ FreeLines(r) = [i \in 1 .. m |-> f[i]]
  BY <1>2, ChainIs, FreeIs DEF Mine
<1>4. IsInjective(FreeLines(r))
  BY <1>2, <1>3 DEF IsInjective, Stacked
<1>5. ASSUME ~starved
      PROVE  /\ Unused(m, f) \cup Listed(n, w) = Lines
             /\ \A l \in Lines : r.mine[l] = (l \in Listed(n, w))
  <2>1. Unused(m, f) \cup Listed(n, w) = Lines
    BY <1>1, <1>5 DEF AllThere
  <2>2. ASSUME NEW l \in Lines PROVE r.mine[l] = (l \in Listed(n, w))
    <3>1. r.mine[l] \in BOOLEAN
      BY <1>2, Guards DEF Shaped
    <3>2. r.mine[l] <=> l \in Listed(n, w)
      BY <1>2, <2>1 DEF Holds
    <3>. QED BY <3>1, <3>2
  <2>. QED BY <2>1, <2>2
<1>. QED BY <1>2, <1>3, <1>4, <1>5 DEF NoneLeaks

-----------------------------------------------------------------------------
(* Cutting and splicing sequences *)

Joined(n, c, p, k, b) ==
    [i \in 1 .. n + k |-> IF i =< p THEN c[i] ELSE IF i =< p + k THEN b[i - p] ELSE c[i - k]]
Trimmed(n, c, p, q) == [i \in 1 .. n - (q - p + 1) |-> IF i < p THEN c[i] ELSE c[i + (q - p + 1)]]

LEMMA PartIs ==
    ASSUME NEW S, NEW n \in Nat, NEW c \in [1 .. n -> S], NEW a \in 1 .. n + 1, NEW b \in 0 .. n
    PROVE  /\ SubSeq(c, a, b) \in Seq(S)
           /\ Len(SubSeq(c, a, b)) = IF a =< b THEN b - a + 1 ELSE 0
           /\ \A i \in 1 .. b - a + 1 : SubSeq(c, a, b)[i] = c[a + i - 1]
<1>1. \A i \in a .. b : c[i] \in S
  OBVIOUS
<1>. QED BY <1>1, SubSeqProperties

SplicesAt(S, n, c, k, b, p) == Doc!Splice(c, p, b) = Joined(n, c, p, k, b)

LEMMA SpliceIs ==
    ASSUME NEW S, NEW n \in Nat, NEW c \in [1 .. n -> S], NEW k \in Nat, NEW b \in [1 .. k -> S],
           NEW p \in 0 .. n
    PROVE  SplicesAt(S, n, c, k, b, p)
<1> DEFINE x == SubSeq(c, 1, p)
           y == SubSeq(c, p + 1, n)
           h == n - p
<1>1. c \in Seq(S) /\ Len(c) = n /\ b \in Seq(S) /\ Len(b) = k
  OBVIOUS
<1>2. x \in Seq(S) /\ Len(x) = p /\ \A i \in 1 .. p : x[i] = c[i]
  <2>1. 1 \in 1 .. n + 1
    OBVIOUS
  <2>2. /\ x \in Seq(S) /\ Len(x) = IF 1 =< p THEN p - 1 + 1 ELSE 0
        /\ \A i \in 1 .. p - 1 + 1 : x[i] = c[1 + i - 1]
    BY <2>1, PartIs
  <2> HIDE DEF x
  <2>. QED BY <2>2
<1>3. y \in Seq(S) /\ Len(y) = h /\ \A i \in 1 .. h : y[i] = c[p + i]
  <2>1. p + 1 \in 1 .. n + 1 /\ n \in 0 .. n
    OBVIOUS
  <2>2. /\ y \in Seq(S) /\ Len(y) = IF p + 1 =< n THEN n - (p + 1) + 1 ELSE 0
        /\ \A i \in 1 .. n - (p + 1) + 1 : y[i] = c[p + 1 + i - 1]
    BY <2>1, PartIs
  <2> HIDE DEF y
  <2>. QED BY <2>2
<1>4. Doc!Splice(c, p, b) = (x \o b) \o y
  BY <1>1 DEF Doc!Splice
<1> HIDE DEF x, y
<1> DEFINE z == x \o b
<1>5. z \in Seq(S) /\ Len(z) = p + k
      /\ \A i \in 1 .. p + k : z[i] = IF i =< p THEN x[i] ELSE b[i - p]
  BY <1>1, <1>2, ConcatProperties
<1> HIDE DEF z
<1> DEFINE a == z \o y
<1>6. a \in Seq(S) /\ Len(a) = n + k
      /\ \A i \in 1 .. n + k : a[i] = IF i =< p + k THEN z[i] ELSE y[i - (p + k)]
  <2>1. Len(z) + Len(y) = n + k
    BY <1>3, <1>5
  <2>2. /\ a \in Seq(S) /\ Len(a) = Len(z) + Len(y)
        /\ \A i \in 1 .. Len(z) + Len(y) : a[i] = IF i =< Len(z) THEN z[i] ELSE y[i - Len(z)]
    <3> HIDE DEF h
    <3>. QED BY <1>3, <1>5, ConcatProperties
  <2> HIDE DEF a
  <2>. QED BY <1>5, <2>1, <2>2
<1> HIDE DEF a
<1>7. a \in [1 .. n + k -> S]
  BY <1>6, LenProperties
<1>8. ASSUME NEW i \in 1 .. n + k PROVE a[i] = Joined(n, c, p, k, b)[i] /\ a[i] \in S
  <2>1. Joined(n, c, p, k, b)[i] = IF i =< p THEN c[i] ELSE IF i =< p + k THEN b[i - p] ELSE c[i - k]
    BY DEF Joined
  <2>2. a[i] \in S
    BY <1>7
  <2>3. CASE i =< p
    <3>1. i \in 1 .. p /\ i \in 1 .. p + k
      BY <2>3
    <3>. QED BY <1>2, <1>5, <1>6, <2>1, <2>2, <3>1
  <2>4. CASE ~(i =< p) /\ i =< p + k
    <3>1. i \in 1 .. p + k
      BY <2>4
    <3>. QED BY <1>5, <1>6, <2>1, <2>2, <2>4, <3>1
  <2>5. CASE ~(i =< p + k)
    <3>1. i - (p + k) \in 1 .. h /\ p + (i - (p + k)) = i - k /\ ~(i =< p)
      BY <2>5
    <3>2. y[i - (p + k)] = c[i - k]
      BY <1>3, <3>1
    <3>. QED BY <1>6, <2>1, <2>2, <2>5, <3>1, <3>2
  <2>. QED BY <2>3, <2>4, <2>5
<1>9. Joined(n, c, p, k, b) \in [1 .. n + k -> S]
  <2>1. DOMAIN Joined(n, c, p, k, b) = 1 .. n + k
    BY DEF Joined
  <2>2. Joined(n, c, p, k, b) = [i \in 1 .. n + k |-> Joined(n, c, p, k, b)[i]]
    BY <2>1 DEF Joined
  <2>. QED BY <1>8, <2>2
<1>10. n + k \in Nat
  OBVIOUS
<1>11. a = Joined(n, c, p, k, b)
  BY <1>7, <1>8, <1>9, <1>10, SameSeq
<1>. QED BY <1>4, <1>11 DEF a, z, SplicesAt

LEMMA WithoutIs ==
    ASSUME NEW S, NEW n \in Nat, NEW c \in [1 .. n -> S], NEW p \in 1 .. n, NEW q \in 1 .. n, p =< q
    PROVE  SubSeq(c, 1, p - 1) \o SubSeq(c, q + 1, Len(c)) = Trimmed(n, c, p, q)
<1> DEFINE x == SubSeq(c, 1, p - 1)
           y == SubSeq(c, q + 1, n)
           h == n - q
           g == n - (q - p + 1)
<1>1. c \in Seq(S) /\ Len(c) = n /\ g \in Nat /\ h \in Nat /\ g = p - 1 + h
  OBVIOUS
<1>2. x \in Seq(S) /\ Len(x) = p - 1 /\ \A i \in 1 .. p - 1 : x[i] = c[i]
  <2>1. 1 \in 1 .. n + 1 /\ p - 1 \in 0 .. n
    OBVIOUS
  <2>2. /\ x \in Seq(S) /\ Len(x) = IF 1 =< p - 1 THEN p - 1 - 1 + 1 ELSE 0
        /\ \A i \in 1 .. p - 1 - 1 + 1 : x[i] = c[1 + i - 1]
    BY <2>1, PartIs
  <2> HIDE DEF x
  <2>. QED BY <2>2
<1>3. y \in Seq(S) /\ Len(y) = h /\ \A i \in 1 .. h : y[i] = c[q + i]
  <2>1. q + 1 \in 1 .. n + 1 /\ n \in 0 .. n
    OBVIOUS
  <2>2. /\ y \in Seq(S) /\ Len(y) = IF q + 1 =< n THEN n - (q + 1) + 1 ELSE 0
        /\ \A i \in 1 .. n - (q + 1) + 1 : y[i] = c[q + 1 + i - 1]
    BY <2>1, PartIs
  <2> HIDE DEF y
  <2>. QED BY <2>2
<1> DEFINE a == x \o y
<1>4. SubSeq(c, 1, p - 1) \o SubSeq(c, q + 1, Len(c)) = a
  BY <1>1
<1> HIDE DEF x, y
<1>5. a \in Seq(S) /\ Len(a) = g
      /\ \A i \in 1 .. g : a[i] = IF i =< p - 1 THEN x[i] ELSE y[i - (p - 1)]
  <2>1. Len(x) + Len(y) = g
    BY <1>1, <1>2, <1>3
  <2>2. /\ a \in Seq(S) /\ Len(a) = Len(x) + Len(y)
        /\ \A i \in 1 .. Len(x) + Len(y) : a[i] = IF i =< Len(x) THEN x[i] ELSE y[i - Len(x)]
    <3> HIDE DEF g, h
    <3>. QED BY <1>2, <1>3, ConcatProperties
  <2> HIDE DEF a, g
  <2>. QED BY <1>2, <2>1, <2>2
<1> HIDE DEF a
<1>6. a \in [1 .. g -> S]
  BY <1>5, LenProperties
<1>7. ASSUME NEW i \in 1 .. g PROVE a[i] = Trimmed(n, c, p, q)[i] /\ a[i] \in S
  <2>1. Trimmed(n, c, p, q)[i] = IF i < p THEN c[i] ELSE c[i + (q - p + 1)]
    BY DEF Trimmed
  <2>2. a[i] \in S
    BY <1>6
  <2>3. CASE i < p
    <3>1. i \in 1 .. p - 1
      BY <2>3
    <3>. QED BY <1>2, <1>5, <2>1, <2>2, <2>3, <3>1
  <2>4. CASE ~(i < p)
    <3>1. i - (p - 1) \in 1 .. h /\ q + (i - (p - 1)) = i + (q - p + 1) /\ ~(i =< p - 1)
      BY <2>4
    <3>2. y[i - (p - 1)] = c[i + (q - p + 1)]
      BY <1>3, <3>1
    <3>. QED BY <1>5, <2>1, <2>2, <2>4, <3>1, <3>2
  <2>. QED BY <2>3, <2>4
<1>8. Trimmed(n, c, p, q) \in [1 .. g -> S]
  <2>1. Trimmed(n, c, p, q) = [i \in 1 .. g |-> Trimmed(n, c, p, q)[i]]
    BY DEF Trimmed
  <2>. QED BY <1>7, <2>1
<1>9. a = Trimmed(n, c, p, q)
  <2> HIDE DEF g
  <2>. QED BY <1>1, <1>6, <1>7, <1>8, SameSeq
<1>. QED BY <1>4, <1>9

-----------------------------------------------------------------------------
(* An editor and the rows of its text *)

Row == [was : Nat, txt : Texts]
RowsOf(u) == [i \in DOMAIN u.text |-> [was |-> i, txt |-> u.text[i]]]

\* What is seen of an editor was u and is x: Doc!Become.
Became(u, x, rows, home) ==
    /\ x.text = [i \in DOMAIN rows |-> rows[i].txt]
    /\ x.marks = [k \in MarkNos |-> Doc!Where(rows, u.marks[k])]
    /\ x.at = IF u.at # 0 /\ Doc!Where(rows, u.at) = 0 THEN home ELSE Doc!Where(rows, u.at)

\* The rows are those of the lines v[1] .. v[g]: each has the text of its line,
\* and tells which of the lines w[1] .. w[n] that is, if it is one.
Tracks(n, w, text, g, v, rows) ==
    /\ rows \in [1 .. g -> Row]
    /\ \A i \in 1 .. g : /\ rows[i].txt = text[v[i]]
                         /\ rows[i].was \in 0 .. n
                         /\ rows[i].was # 0 => v[i] = w[rows[i].was]
                         /\ rows[i].was = 0 => v[i] \notin Listed(n, w)

LEMMA WhereIs ==
    ASSUME NEW n \in Nat, NEW w, NEW g \in Nat, NEW v, NEW text, NEW rows,
           \A i, k \in 1 .. n : w[i] = w[k] => i = k,
           \A i, k \in 1 .. g : v[i] = v[k] => i = k,
           Tracks(n, w, text, g, v, rows)
    PROVE  /\ Doc!Where(rows, 0) = 0
           /\ \A p \in 1 .. n : \A i \in 1 .. g : v[i] = w[p] => Doc!Where(rows, p) = i
           /\ \A p \in 1 .. n : w[p] \notin Listed(g, v) => Doc!Where(rows, p) = 0
<1> DEFINE I(p) == {i \in 1 .. g : rows[i].was = p}
<1>1. Len(rows) = g
  BY DEF Tracks
<1>2. ASSUME NEW p \in 1 .. n PROVE Doc!Where(rows, p) = IF I(p) # {} THEN Doc!Min(I(p)) ELSE 0
  <2>1. Doc!Where(rows, p) = Doc!SelectInSeq(rows, LAMBDA x : x.was = p)
    BY DEF Doc!Where
  <2>. QED BY <1>1, <2>1 DEF Doc!SelectInSeq
<1>3. ASSUME NEW p \in 1 .. n, NEW i \in 1 .. g PROVE rows[i].was = p <=> v[i] = w[p]
  <2>1. CASE rows[i].was = p
    BY <2>1 DEF Tracks
  <2>2. CASE v[i] = w[p]
    <3>1. v[i] \in Listed(n, w)
      BY <2>2 DEF Listed
    <3>2. rows[i].was # 0 /\ rows[i].was \in 0 .. n
      BY <3>1 DEF Tracks
    <3>3. w[rows[i].was] = w[p] /\ rows[i].was \in 1 .. n
      BY <2>2, <3>2 DEF Tracks
    <3>. QED BY <2>2, <3>3
  <2>. QED BY <2>1, <2>2
<1>4. ASSUME NEW p \in 1 .. n, NEW i \in 1 .. g, v[i] = w[p] PROVE Doc!Where(rows, p) = i
  <2>1. I(p) = {i}
    BY <1>3, <1>4
  <2> HIDE DEF I
  <2>. QED BY <1>2, <2>1 DEF Doc!Min
<1>5. ASSUME NEW p \in 1 .. n, w[p] \notin Listed(g, v) PROVE Doc!Where(rows, p) = 0
  <2>1. I(p) = {}
    BY <1>3, <1>5 DEF Listed
  <2> HIDE DEF I
  <2>. QED BY <1>2, <2>1
<1>6. Doc!Where(rows, 0) = 0
  BY DEF Doc!Where
<1>. QED BY <1>4, <1>5, <1>6

TextsOf(e, n, w) == [i \in 1 .. n |-> e.text[w[i]]]
MarksOf(e) == [k \in MarkNos |-> IF e.marks[k] = NULL THEN 0 ELSE PlaceOf(e, e.marks[k])]

LEMMA ViewIs ==
    ASSUME NEW e, NEW n, NEW w, Chained(e.next, e.prev, n, w)
    PROVE  /\ View(e).text = TextsOf(e, n, w)
           /\ View(e).at = PlaceOf(e, e.cur)
           /\ View(e).marks = MarksOf(e)
           /\ View(e) = [text |-> View(e).text, at |-> View(e).at, marks |-> View(e).marks]
           /\ DOMAIN View(e).text = 1 .. n /\ Len(View(e).text) = n
<1>0. n \in Nat
  BY DEF Chained
<1>1. Chain(e) = [i \in 1 .. n |-> w[i]]
  BY ChainIs
<1>2. Content(e) = [i \in 1 .. n |-> e.text[w[i]]]
  BY <1>1 DEF Content
<1>. QED BY <1>0, <1>2 DEF View, TextsOf, MarksOf

\* Places of a line before and after.
LEMMA PlaceGoes ==
    ASSUME NEW e, NEW n, NEW w, Chained(e.next, e.prev, n, w),
           NEW d, NEW g, NEW v, Chained(d.next, d.prev, g, v), NEW rows,
           Tracks(n, w, d.text, g, v, rows), NEW l \in Listed(n, w) \cup {BOF}
    PROVE  /\ PlaceOf(e, l) # 0 <=> l # BOF
           /\ l \in Listed(g, v) \cup {BOF} => Doc!Where(rows, PlaceOf(e, l)) = PlaceOf(d, l)
           /\ l \notin Listed(g, v) \cup {BOF} => Doc!Where(rows, PlaceOf(e, l)) = 0
           /\ l \in Listed(g, v) => PlaceOf(d, l) # 0
<1>1. /\ n \in Nat /\ g \in Nat /\ w[0] = BOF /\ v[0] = BOF
      /\ 0 \in 0 .. n + 1 /\ 0 \in 0 .. g + 1
      /\ \A i \in 1 .. n : i \in 0 .. n + 1
      /\ \A i \in 1 .. g : i \in 0 .. g + 1
      /\ BOF \notin Lines
  BY Guards DEF Chained
<1>2. /\ \A i, k \in 1 .. n : w[i] = w[k] => i = k
      /\ \A i, k \in 1 .. g : v[i] = v[k] => i = k
  BY <1>1 DEF Chained
<1>3. /\ Doc!Where(rows, 0) = 0
      /\ \A p \in 1 .. n : \A i \in 1 .. g : v[i] = w[p] => Doc!Where(rows, p) = i
      /\ \A p \in 1 .. n : w[p] \notin Listed(g, v) => Doc!Where(rows, p) = 0
  BY <1>1, <1>2, WhereIs
<1>4. /\ \A p \in 0 .. n + 1 : PlaceOf(e, w[p]) = p
      /\ \A p \in 0 .. g + 1 : PlaceOf(d, v[p]) = p
  <2>1. \A p \in 0 .. n + 1 : PlaceOf(e, w[p]) = p
    BY PlaceIs
  <2>2. \A p \in 0 .. g + 1 : PlaceOf(d, v[p]) = p
    BY PlaceIs
  <2>. QED BY <2>1, <2>2
<1>5. CASE l = BOF
  <2>1. PlaceOf(e, l) = 0 /\ PlaceOf(d, l) = 0
    BY <1>1, <1>4, <1>5
  <2>2. l \notin Listed(g, v)
    BY <1>1, <1>5 DEF Chained, Listed
  <2>. QED BY <1>3, <1>5, <2>1, <2>2
<1>6. CASE l # BOF
  <2>1. PICK p \in 1 .. n : l = w[p]
    BY <1>6 DEF Listed
  <2>2. PlaceOf(e, l) = p /\ p # 0
    BY <1>1, <1>4, <2>1
  <2>3. CASE l \in Listed(g, v)
    <3>1. PICK i \in 1 .. g : l = v[i]
      BY <2>3 DEF Listed
    <3>2. PlaceOf(d, l) = i /\ i # 0
      BY <1>1, <1>4, <3>1
    <3>3. Doc!Where(rows, p) = i
      BY <1>3, <2>1, <3>1
    <3>. QED BY <1>6, <2>2, <2>3, <3>2, <3>3
  <2>4. CASE l \notin Listed(g, v)
    BY <1>3, <1>6, <2>1, <2>2, <2>4
  <2>. QED BY <2>3, <2>4
<1>. QED BY <1>5, <1>6

\* The current line and the marks stay on their lines; those at lines that are
\* gone are cleared, and the current line becomes the one that home tells.
Follows(e, n, w, d, g, v, home) ==
    /\ d.marks = [k \in MarkNos |->
                    IF e.marks[k] \in Listed(n, w) \ Listed(g, v) THEN NULL ELSE e.marks[k]]
    /\ d.cur = IF e.cur \in Listed(n, w) \ Listed(g, v) THEN v[home] ELSE e.cur

LEMMA Rearranged ==
    ASSUME NEW e, NEW n, NEW w, Chained(e.next, e.prev, n, w),
           e.cur \in Listed(n, w) \cup {BOF},
           \A k \in MarkNos : e.marks[k] \in Listed(n, w) \cup {NULL, BOF},
           NEW d, NEW g, NEW v, Chained(d.next, d.prev, g, v), NEW rows,
           Tracks(n, w, d.text, g, v, rows), NEW home \in 0 .. g,
           Follows(e, n, w, d, g, v, home)
    PROVE  Became(View(e), View(d), rows, home)
<1>1. /\ View(e).at = PlaceOf(e, e.cur)
      /\ View(e).marks = [k \in MarkNos |-> IF e.marks[k] = NULL THEN 0 ELSE PlaceOf(e, e.marks[k])]
  <2>1. View(e).at = PlaceOf(e, e.cur) /\ View(e).marks = MarksOf(e)
    BY ViewIs
  <2>. QED BY <2>1 DEF MarksOf
<1>2. /\ View(d).text = [i \in 1 .. g |-> d.text[v[i]]]
      /\ View(d).at = PlaceOf(d, d.cur)
      /\ View(d).marks = [k \in MarkNos |-> IF d.marks[k] = NULL THEN 0 ELSE PlaceOf(d, d.marks[k])]
  <2>1. View(d).text = TextsOf(d, g, v) /\ View(d).at = PlaceOf(d, d.cur) /\ View(d).marks = MarksOf(d)
    BY ViewIs
  <2>. QED BY <2>1 DEF MarksOf, TextsOf
<1>3. View(d).text = [i \in DOMAIN rows |-> rows[i].txt]
  BY <1>2 DEF Tracks
<1>4. /\ n \in Nat /\ NULL \notin Listed(n, w) /\ NULL # BOF /\ BOF \notin Listed(n, w)
      /\ Doc!Where(rows, 0) = 0
  <2>1. NULL # BOF /\ NULL \notin Lines /\ BOF \notin Lines /\ Listed(n, w) \subseteq Lines
    BY Guards DEF Chained, Listed
  <2>2. Doc!Where(rows, 0) = 0
    BY DEF Doc!Where
  <2>. QED BY <2>1, <2>2 DEF Chained
<1>5. \A l \in Listed(n, w) \cup {BOF} :
         /\ PlaceOf(e, l) # 0 <=> l # BOF
         /\ l \in Listed(g, v) \cup {BOF} => Doc!Where(rows, PlaceOf(e, l)) = PlaceOf(d, l)
         /\ l \notin Listed(g, v) \cup {BOF} => Doc!Where(rows, PlaceOf(e, l)) = 0
         /\ l \in Listed(g, v) => PlaceOf(d, l) # 0
  BY PlaceGoes
<1>6. ASSUME NEW k \in MarkNos
      PROVE  View(d).marks[k] = Doc!Where(rows, View(e).marks[k])
  <2>1. /\ View(e).marks[k] = IF e.marks[k] = NULL THEN 0 ELSE PlaceOf(e, e.marks[k])
        /\ View(d).marks[k] = IF d.marks[k] = NULL THEN 0 ELSE PlaceOf(d, d.marks[k])
    BY <1>1, <1>2
  <2>2. d.marks[k] = IF e.marks[k] \in Listed(n, w) \ Listed(g, v) THEN NULL ELSE e.marks[k]
    BY DEF Follows
  <2>3. CASE e.marks[k] = NULL
    BY <1>4, <2>1, <2>2, <2>3
  <2>4. CASE e.marks[k] # NULL /\ e.marks[k] \in Listed(n, w) \ Listed(g, v)
    <3>1. View(d).marks[k] = 0 /\ View(e).marks[k] = PlaceOf(e, e.marks[k])
      BY <2>1, <2>2, <2>4
    <3>2. e.marks[k] \notin Listed(g, v) \cup {BOF}
      BY <1>4, <2>4
    <3>. QED BY <1>5, <2>4, <3>1, <3>2
  <2>5. CASE e.marks[k] # NULL /\ ~(e.marks[k] \in Listed(n, w) \ Listed(g, v))
    <3>1. View(d).marks[k] = PlaceOf(d, e.marks[k]) /\ View(e).marks[k] = PlaceOf(e, e.marks[k])
      BY <2>1, <2>2, <2>5
    <3>2. e.marks[k] \in Listed(n, w) \cup {BOF} /\ e.marks[k] \in Listed(g, v) \cup {BOF}
      BY <2>5
    <3>. QED BY <1>5, <3>1, <3>2
  <2>. QED BY <2>3, <2>4, <2>5
<1>7. View(d).marks = [k \in MarkNos |-> Doc!Where(rows, View(e).marks[k])]
  <2>1. View(d).marks = [k \in MarkNos |-> View(d).marks[k]]
    BY <1>2
  <2>. QED BY <1>6, <2>1
<1>8. View(d).at = IF View(e).at # 0 /\ Doc!Where(rows, View(e).at) = 0 THEN home
                   ELSE Doc!Where(rows, View(e).at)
  <2>1. CASE e.cur \in Listed(n, w) \ Listed(g, v)
    <3>1. e.cur # BOF /\ e.cur \notin Listed(g, v) \cup {BOF}
      BY <1>4, <2>1
    <3>2. View(e).at # 0 /\ Doc!Where(rows, View(e).at) = 0
      BY <1>1, <1>5, <2>1, <3>1
    <3>3. d.cur = v[home]
      BY <2>1 DEF Follows
    <3>4. PlaceOf(d, v[home]) = home
      <4>1. \A p \in 0 .. g + 1 : PlaceOf(d, v[p]) = p
        BY PlaceIs
      <4>2. home \in 0 .. g + 1
        BY DEF Chained
      <4>. QED BY <4>1, <4>2
    <3>. QED BY <1>2, <3>2, <3>3, <3>4
  <2>2. CASE ~(e.cur \in Listed(n, w) \ Listed(g, v))
    <3>1. d.cur = e.cur
      BY <2>2 DEF Follows
    <3>2. e.cur \in Listed(n, w) \cup {BOF} /\ e.cur \in Listed(g, v) \cup {BOF}
      BY <2>2
    <3>3. Doc!Where(rows, View(e).at) = View(d).at
      BY <1>1, <1>2, <1>5, <3>1, <3>2
    <3>4. CASE e.cur = BOF
      <4>1. View(e).at = 0
        BY <1>1, <1>5, <3>2, <3>4
      <4>. QED BY <3>3, <4>1
    <3>5. CASE e.cur # BOF
      <4>1. View(d).at # 0
        BY <1>2, <1>5, <3>1, <3>2, <3>5
      <4>. QED BY <3>3, <4>1
    <3>. QED BY <3>4, <3>5
  <2>. QED BY <2>1, <2>2
<1>. QED BY <1>3, <1>7, <1>8 DEF Became

LEMMA TracksSelf ==
    ASSUME NEW e, NEW n, NEW w, Chained(e.next, e.prev, n, w), e.text \in [Lines -> Texts]
    PROVE  Tracks(n, w, e.text, n, w, RowsOf(View(e)))
<1>1. n \in Nat /\ \A i \in 1 .. n : w[i] \in Lines
  BY DEF Chained
<1>2. View(e).text = [i \in 1 .. n |-> e.text[w[i]]]
  <2>1. View(e).text = TextsOf(e, n, w)
    BY ViewIs
  <2>. QED BY <2>1 DEF TextsOf
<1>3. RowsOf(View(e)) = [i \in 1 .. n |-> [was |-> i, txt |-> e.text[w[i]]]]
  BY <1>2 DEF RowsOf
<1>4. \A i \in 1 .. n : [was |-> i, txt |-> e.text[w[i]]] \in Row
  BY <1>1 DEF Row
<1>5. RowsOf(View(e)) \in [1 .. n -> Row]
  BY <1>3, <1>4
<1>6. \A i \in 1 .. n : i \in 0 .. n /\ i # 0
  BY <1>1
<1>. QED BY <1>3, <1>5, <1>6 DEF Tracks

LEMMA TracksCut ==
    ASSUME NEW n \in Nat, NEW w, NEW text, NEW g \in Nat, NEW v, NEW rows, Tracks(n, w, text, g, v, rows),
           NEW p \in 1 .. g, NEW q \in 1 .. g, p =< q, NEW h, h = g - (q - p + 1)
    PROVE  Tracks(n, w, text, h, Cut(g, v, p, q), Trimmed(g, rows, p, q))
<1> DEFINE d == q - p + 1
           x == Cut(g, v, p, q)
           y == Trimmed(g, rows, p, q)
<1>1. d \in Nat /\ h \in Nat /\ g = h + d
  OBVIOUS
<1>2. ASSUME NEW i \in 1 .. h
      PROVE  \E k \in 1 .. g : x[i] = v[k] /\ y[i] = rows[k]
  <2>1. i \in 0 .. g - q + p
    BY <1>1
  <2>2. CASE i < p
    <3>1. i \in 1 .. g
      BY <1>1
    <3>2. x[i] = v[i] /\ y[i] = rows[i]
      BY <2>1, <2>2 DEF Cut, Trimmed
    <3>. QED BY <3>1, <3>2
  <2>3. CASE ~(i < p)
    <3>1. i + d \in 1 .. g
      BY <1>1
    <3>2. x[i] = v[i + d] /\ y[i] = rows[i + d]
      BY <2>1, <2>3 DEF Cut, Trimmed
    <3>. QED BY <3>1, <3>2
  <2>. QED BY <2>2, <2>3
<1>3. y = [i \in 1 .. h |-> y[i]]
  BY DEF Trimmed
<1> HIDE DEF x, y
<1>4. y \in [1 .. h -> Row]
  <2>1. \A i \in 1 .. h : y[i] \in Row
    BY <1>2 DEF Tracks
  <2>. QED BY <1>3, <2>1
<1>5. Tracks(n, w, text, h, x, y)
  BY <1>2, <1>4 DEF Tracks
<1>. QED BY <1>5 DEF x, y

LEMMA TracksSplice ==
    ASSUME NEW n \in Nat, NEW w, NEW text, NEW g \in Nat, NEW v, NEW rows, Tracks(n, w, text, g, v, rows),
           NEW k \in Nat, NEW c, NEW some, Tracks(n, w, text, k, c, some),
           NEW t \in 0 .. g, NEW h, h = g + k
    PROVE  Tracks(n, w, text, h, Spliced(g, v, t, k, c), Joined(g, rows, t, k, some))
<1> DEFINE x == Spliced(g, v, t, k, c)
           y == Joined(g, rows, t, k, some)
<1>1. h \in Nat
  OBVIOUS
<1>2. ASSUME NEW i \in 1 .. h
      PROVE  \/ \E j \in 1 .. g : x[i] = v[j] /\ y[i] = rows[j]
             \/ \E j \in 1 .. k : x[i] = c[j] /\ y[i] = some[j]
  <2>1. i \in 0 .. g + k + 1 /\ i \in 1 .. g + k
    OBVIOUS
  <2>2. CASE i =< t
    <3>1. i \in 1 .. g
      BY <2>2
    <3>2. x[i] = v[i] /\ y[i] = rows[i]
      BY <2>1, <2>2 DEF Spliced, Joined
    <3>. QED BY <3>1, <3>2
  <2>3. CASE ~(i =< t) /\ i =< t + k
    <3>1. i - t \in 1 .. k
      BY <2>3
    <3>2. x[i] = c[i - t] /\ y[i] = some[i - t]
      BY <2>1, <2>3 DEF Spliced, Joined
    <3>. QED BY <3>1, <3>2
  <2>4. CASE ~(i =< t + k)
    <3>1. i - k \in 1 .. g /\ ~(i =< t)
      BY <2>4
    <3>2. x[i] = v[i - k] /\ y[i] = rows[i - k]
      BY <2>1, <2>4, <3>1 DEF Spliced, Joined
    <3>. QED BY <3>1, <3>2
  <2>. QED BY <2>2, <2>3, <2>4
<1>3. y = [i \in 1 .. h |-> y[i]]
  BY DEF Joined
<1> HIDE DEF x, y
<1>4. y \in [1 .. h -> Row]
  <2>1. \A i \in 1 .. h : y[i] \in Row
    BY <1>2 DEF Tracks
  <2>. QED BY <1>3, <2>1
<1>5. ASSUME NEW i \in 1 .. h
      PROVE  /\ y[i].txt = text[x[i]]
             /\ y[i].was \in 0 .. n
             /\ y[i].was # 0 => x[i] = w[y[i].was]
             /\ y[i].was = 0 => x[i] \notin Listed(n, w)
  <2>1. CASE \E j \in 1 .. g : x[i] = v[j] /\ y[i] = rows[j]
    BY <2>1 DEF Tracks
  <2>2. CASE \E j \in 1 .. k : x[i] = c[j] /\ y[i] = some[j]
    BY <2>2 DEF Tracks
  <2>. QED BY <1>2, <2>1, <2>2
<1>6. Tracks(n, w, text, h, x, y)
  BY <1>4, <1>5 DEF Tracks
<1>. QED BY <1>6 DEF x, y

LEMMA TracksText ==
    ASSUME NEW n, NEW w, NEW text, NEW g, NEW v, NEW rows, Tracks(n, w, text, g, v, rows),
           NEW text2, \A i \in 1 .. g : text2[v[i]] = text[v[i]]
    PROVE  Tracks(n, w, text2, g, v, rows)
BY DEF Tracks

\* The row of line i gets another text.
Reworded(rows, i, txt) == [rows EXCEPT ![i].txt = txt]

LEMMA TracksUpdate ==
    ASSUME NEW n, NEW w, NEW text, NEW g \in Nat, NEW v, NEW rows, Tracks(n, w, text, g, v, rows),
           NEW i \in 1 .. g, NEW txt \in Texts, NEW text2, text2[v[i]] = txt,
           \A k \in 1 .. g : k # i => text2[v[k]] = text[v[k]]
    PROVE  Tracks(n, w, text2, g, v, Reworded(rows, i, txt))
<1> DEFINE y == [rows EXCEPT ![i].txt = txt]
<1>1. rows \in [1 .. g -> Row]
  BY DEF Tracks
<1>2. rows[i] \in Row /\ [rows[i] EXCEPT !.txt = txt] \in Row
      /\ [rows[i] EXCEPT !.txt = txt].txt = txt /\ [rows[i] EXCEPT !.txt = txt].was = rows[i].was
  BY <1>1 DEF Row
<1>3. y = [rows EXCEPT ![i] = [rows[i] EXCEPT !.txt = txt]]
  BY <1>1
<1>4. y[i] = [rows[i] EXCEPT !.txt = txt] /\ \A k \in 1 .. g : k # i => y[k] = rows[k]
  BY <1>1, <1>3
<1>5. y \in [1 .. g -> Row]
  BY <1>1, <1>2, <1>3
<1> HIDE DEF y
<1>6. ASSUME NEW k \in 1 .. g
      PROVE  /\ y[k].txt = text2[v[k]] /\ y[k].was = rows[k].was
  <2>1. CASE k = i
    BY <1>2, <1>4, <2>1
  <2>2. CASE k # i
    BY <1>4, <2>2 DEF Tracks
  <2>. QED BY <2>1, <2>2
<1>7. Tracks(n, w, text2, g, v, y)
  BY <1>5, <1>6 DEF Tracks
<1>. QED BY <1>7 DEF y, Reworded

\* Lines that were not in the list have new rows.
NewRows(k, txts) == [i \in 1 .. k |-> Doc!New(txts[i])]

LEMMA TracksNew ==
    ASSUME NEW n \in Nat, NEW w, NEW text, NEW k \in Nat, NEW c, NEW txts \in [1 .. k -> Texts],
           \A i \in 1 .. k : c[i] \notin Listed(n, w) /\ text[c[i]] = txts[i]
    PROVE  Tracks(n, w, text, k, c, NewRows(k, txts))
<1> DEFINE y == [i \in 1 .. k |-> Doc!New(txts[i])]
<1>1. \A i \in 1 .. k : Doc!New(txts[i]) \in Row /\ Doc!New(txts[i]).was = 0 /\ Doc!New(txts[i]).txt = txts[i]
  BY DEF Doc!New, Row
<1>2. y \in [1 .. k -> Row]
  BY <1>1
<1>3. \A i \in 1 .. k : y[i].was = 0 /\ y[i].txt = txts[i]
  BY <1>1
<1> HIDE DEF y
<1>4. Tracks(n, w, text, k, c, y)
  BY <1>2, <1>3 DEF Tracks
<1>. QED BY <1>4 DEF y, NewRows

\* The rows p to q of the list.
LEMMA TracksPart ==
    ASSUME NEW n, NEW w, NEW text, NEW g \in Nat, NEW v, NEW rows, Tracks(n, w, text, g, v, rows),
           NEW p \in 1 .. g, NEW q \in 1 .. g, p =< q, NEW k, k = q - p + 1
    PROVE  Tracks(n, w, text, k, [i \in 1 .. k |-> v[p + i - 1]], [i \in 1 .. k |-> rows[p + i - 1]])
<1> DEFINE x == [i \in 1 .. k |-> v[p + i - 1]]
           y == [i \in 1 .. k |-> rows[p + i - 1]]
<1>1. \A i \in 1 .. k : p + i - 1 \in 1 .. g
  OBVIOUS
<1>2. \A i \in 1 .. k : x[i] = v[p + i - 1] /\ y[i] = rows[p + i - 1]
  OBVIOUS
<1>3. y \in [1 .. k -> Row]
  BY <1>1 DEF Tracks
<1> HIDE DEF x, y
<1>4. Tracks(n, w, text, k, x, y)
  BY <1>1, <1>2, <1>3 DEF Tracks
<1>. QED BY <1>4 DEF x, y

-----------------------------------------------------------------------------
(* What freeing and deleting leaves *)

\* The lines of S were freed: the other lines, and what points at them, stay.
Freed(e, S, d) ==
    /\ \A l \in Slots : l \notin S => d.next[l] = e.next[l] /\ d.prev[l] = e.prev[l]
    /\ \A l \in Lines : l \notin S => d.text[l] = e.text[l]
    /\ d.cur = e.cur
    /\ d.marks = [k \in MarkNos |-> IF e.marks[k] \in S THEN NULL ELSE e.marks[k]]

LEMMA FreedOne ==
    ASSUME NEW e, Shaped(e), NEW l \in Lines, NEW d, d = FreeLine(e, l)
    PROVE  Shaped(d) /\ Freed(e, {l}, d)
<1>1. /\ d.next = [e.next EXCEPT ![l] = e.firstFree] /\ d.prev = [e.prev EXCEPT ![l] = NULL]
      /\ d.mine = [e.mine EXCEPT ![l] = FALSE] /\ d.text = [e.text EXCEPT ![l] = <<>>]
      /\ d.firstFree = l /\ d.cur = e.cur /\ d.curNo = e.curNo /\ d.count = e.count
      /\ d.marks = [k \in MarkNos |-> IF e.marks[k] = l THEN NULL ELSE e.marks[k]]
      /\ d.modified = e.modified /\ d.oom = e.oom /\ d.broken = e.broken
  BY DEF FreeLine, Shaped, Fields
<1>2. d = [x \in Fields |-> d[x]]
  BY DEF FreeLine, Shaped, Fields
<1>3. l \in Slots /\ l \in Pointers /\ NULL \in Pointers
  BY Guards
<1>4. d.next \in [Slots -> Pointers] /\ d.prev \in [Slots -> Pointers] /\ d.mine \in [Slots -> BOOLEAN]
  <2>1. e.firstFree \in Pointers
    BY Guards DEF Shaped
  <2>2. [e.next EXCEPT ![l] = e.firstFree] \in [Slots -> Pointers]
    BY <1>3, <2>1 DEF Shaped
  <2>3. [e.prev EXCEPT ![l] = NULL] \in [Slots -> Pointers]
    BY <1>3 DEF Shaped
  <2>4. [e.mine EXCEPT ![l] = FALSE] \in [Slots -> BOOLEAN]
    BY <1>3 DEF Shaped
  <2>. QED BY <1>1, <2>2, <2>3, <2>4
<1>5. d.text \in [Lines -> Texts]
  BY <1>1, TextIs DEF Shaped
<1>6. d.marks \in [MarkNos -> Pointers]
  <2>1. \A k \in MarkNos : (IF e.marks[k] = l THEN NULL ELSE e.marks[k]) \in Pointers
    BY <1>3 DEF Shaped
  <2>. QED BY <1>1, <2>1
<1>7. Shaped(d)
  BY <1>1, <1>2, <1>3, <1>4, <1>5, <1>6 DEF Shaped
<1>8. \A x \in Slots : x \notin {l} => d.next[x] = e.next[x] /\ d.prev[x] = e.prev[x]
  BY <1>1 DEF Shaped
<1>9. \A x \in Lines : x \notin {l} => d.text[x] = e.text[x]
  BY <1>1 DEF Shaped
<1>10. d.marks = [k \in MarkNos |-> IF e.marks[k] \in {l} THEN NULL ELSE e.marks[k]]
  BY <1>1
<1>. QED BY <1>1, <1>7, <1>8, <1>9, <1>10 DEF Freed

LEMMA FreedBoth ==
    ASSUME NEW e, NEW S, NEW d, Freed(e, S, d), NEW T \in SUBSET Lines, NEW h, Freed(d, T, h)
    PROVE  Freed(e, S \cup T, h)
<1>1. \A k \in MarkNos : d.marks[k] = IF e.marks[k] \in S THEN NULL ELSE e.marks[k]
  BY DEF Freed
<1>2. \A k \in MarkNos : (IF d.marks[k] \in T THEN NULL ELSE d.marks[k])
                         = IF e.marks[k] \in S \cup T THEN NULL ELSE e.marks[k]
  BY <1>1, Guards
<1>3. h.marks = [k \in MarkNos |-> IF e.marks[k] \in S \cup T THEN NULL ELSE e.marks[k]]
  BY <1>2 DEF Freed
<1>. QED BY <1>3 DEF Freed

LEMMA FreedAll ==
    ASSUME NEW e, Shaped(e), NEW k \in Nat, NEW c \in [1 .. k -> Lines],
           NEW S, S = {c[i] : i \in 1 .. k}, NEW d, d = InTurn(FreeLine, e, c)
    PROVE  Shaped(d) /\ Freed(e, S, d)
<1> DEFINE after == CHOOSE u : TurnOf(TRUE, e, c, k, u)
           done(j) == {c[i] : i \in 1 .. j}
           good(j) == Shaped(after[j]) /\ Freed(e, done(j), after[j])
           bad == {j \in 0 .. k : ~good(j)}
<1>1. d = after[k]
  <2>1. Len(c) = k
    OBVIOUS
  <2>. QED BY <2>1 DEF InTurn, TurnOf, Turn
<1>2. TurnOf(TRUE, e, c, k, after)
  BY TurnExists
<1> HIDE DEF after
<1>3. after[0] = e
  BY <1>2 DEF TurnOf
<1>4. \A j \in 1 .. k : after[j] = FreeLine(after[j - 1], c[j])
  BY <1>2 DEF TurnOf, Turn
<1>5. good(0)
  <2>1. done(0) = {}
    OBVIOUS
  <2>2. e.marks = [i \in MarkNos |-> e.marks[i]]
    BY DEF Shaped
  <2> HIDE DEF done
  <2>3. Freed(e, done(0), e)
    BY <2>1, <2>2 DEF Freed
  <2>. QED BY <1>3, <2>3
<1>6. ASSUME NEW j \in 1 .. k, good(j - 1) PROVE good(j)
  <2>1. c[j] \in Lines /\ after[j] = FreeLine(after[j - 1], c[j])
    BY <1>4
  <2>2. done(j) = done(j - 1) \cup {c[j]}
    <3>1. \A i \in 1 .. j : i = j \/ i \in 1 .. j - 1
      OBVIOUS
    <3>2. \A i \in 1 .. j - 1 : i \in 1 .. j
      OBVIOUS
    <3>. QED BY <3>1, <3>2
  <2> HIDE DEF done
  <2>3. Shaped(after[j - 1]) /\ Freed(e, done(j - 1), after[j - 1])
    BY <1>6
  <2>4. Shaped(after[j]) /\ Freed(after[j - 1], {c[j]}, after[j])
    BY <2>1, <2>3, FreedOne
  <2>5. {c[j]} \in SUBSET Lines
    BY <2>1
  <2>6. Freed(e, done(j - 1) \cup {c[j]}, after[j])
    BY <2>3, <2>4, <2>5, FreedBoth
  <2>. QED BY <2>2, <2>4, <2>6
<1> HIDE DEF good
<1>7. bad = {}
  <2>1. bad \subseteq Nat /\ \A j \in bad : j \in 0 .. k
    OBVIOUS
  <2>2. \A j \in 0 .. k : j \notin bad <=> good(j)
    OBVIOUS
  <2> HIDE DEF bad
  <2> SUFFICES ASSUME bad # {} PROVE FALSE
    OBVIOUS
  <2>3. PICK j \in bad : \A y \in bad : j =< y
    BY <2>1, LeastNumber
  <2>4. j \in 1 .. k /\ j - 1 \in 0 .. k
    BY <1>5, <2>1, <2>2
  <2>5. j - 1 \notin bad
    BY <2>1, <2>3, <2>4
  <2>. QED BY <1>6, <2>2, <2>4, <2>5
<1>8. k \in 0 .. k
  OBVIOUS
<1>9. good(k)
  BY <1>7, <1>8
<1>. QED BY <1>1, <1>9 DEF good

\* The lines of S are not in the list any more, and v[h] is the line above them.
CutOff(e, n, w, S, d, g, v, h) ==
    /\ Chained(d.next, d.prev, g, v) /\ Listed(g, v) = Listed(n, w) \ S
    /\ Follows(e, n, w, d, g, v, h) /\ h \in 0 .. g
    /\ \A l \in Listed(g, v) : d.text[l] = e.text[l]

\* The lines p to q were unlinked and freed.
LEMMA CutFollows ==
    ASSUME NEW e, NEW n, NEW w, Chained(e.next, e.prev, n, w), Shaped(e),
           NEW p \in 1 .. n, NEW q \in 1 .. n, p =< q, NEW e2, Unlinked(e, w, p, q, e2), e2.text = e.text,
           NEW S, S = {w[i] : i \in p .. q}, NEW d, Freed(e2, S, d),
           NEW g, g = n - (q - p + 1), NEW v, v = Cut(n, w, p, q), NEW h, h = p - 1
    PROVE  CutOff(e, n, w, S, d, g, v, h)
<1>1. /\ n \in Nat /\ g \in Nat /\ p - 1 \in 0 .. n + 1 /\ q + 1 \in 0 .. n + 1 /\ p - 1 \in 0 .. g
      /\ w \in [0 .. n + 1 -> Slots]
      /\ \A i, k \in 0 .. n + 1 : w[i] = w[k] => i = k
      /\ \A i \in p .. q : i \in 0 .. n + 1
      /\ \A i \in 0 .. n + 1 : w[i] \in Slots
  <2>1. /\ n \in Nat /\ w \in [0 .. n + 1 -> Slots]
        /\ \A i, k \in 0 .. n + 1 : w[i] = w[k] => i = k
    BY DEF Chained
  <2>2. /\ g \in Nat /\ p - 1 \in 0 .. n + 1 /\ q + 1 \in 0 .. n + 1 /\ p - 1 \in 0 .. g
        /\ \A i \in p .. q : i \in 0 .. n + 1
    BY <2>1
  <2>. QED BY <2>1, <2>2
<1>2. \A i \in 0 .. n + 1 : ~(i \in p .. q) => w[i] \notin S
  BY <1>1
<1>3. /\ e2.next = [e.next EXCEPT ![w[p - 1]] = w[q + 1]]
      /\ e2.prev = [e.prev EXCEPT ![w[q + 1]] = w[p - 1]]
      /\ e2.cur = (IF e.cur \in S THEN w[p - 1] ELSE e.cur) /\ e2.marks = e.marks
  BY DEF Unlinked
<1>4. \A l \in Slots : l \notin S => d.next[l] = e2.next[l] /\ d.prev[l] = e2.prev[l]
  BY DEF Freed
<1>5. /\ \A l \in Slots : l # w[p - 1] => e2.next[l] = e.next[l]
      /\ \A l \in Slots : l # w[q + 1] => e2.prev[l] = e.prev[l]
      /\ e2.next[w[p - 1]] = w[q + 1] /\ e2.prev[w[q + 1]] = w[p - 1]
  BY <1>1, <1>3 DEF Shaped
<1>6. LinkedOut(e.next, e.prev, n, w, p, q, d.next, d.prev)
  <2>1. ASSUME NEW i \in 0 .. n, i < p - 1 \/ i > q PROVE d.next[w[i]] = e.next[w[i]]
    <3>1. i \in 0 .. n + 1 /\ ~(i \in p .. q) /\ i # p - 1
      BY <1>1, <2>1
    <3>. QED BY <1>1, <1>2, <1>4, <1>5, <3>1
  <2>2. ASSUME NEW i \in 1 .. n + 1, i < p \/ i > q + 1 PROVE d.prev[w[i]] = e.prev[w[i]]
    <3>1. i \in 0 .. n + 1 /\ ~(i \in p .. q) /\ i # q + 1
      BY <1>1, <2>2
    <3>. QED BY <1>1, <1>2, <1>4, <1>5, <3>1
  <2>3. ~(p - 1 \in p .. q) /\ ~(q + 1 \in p .. q)
    BY <1>1
  <2>4. d.next[w[p - 1]] = w[q + 1] /\ d.prev[w[q + 1]] = w[p - 1]
    BY <1>1, <1>2, <1>4, <1>5, <2>3
  <2>. QED BY <2>1, <2>2, <2>4 DEF LinkedOut
<1>7. Chained(d.next, d.prev, g, v) /\ Listed(g, v) = Listed(n, w) \ S
  BY <1>6, CutLinks
<1>8. S \subseteq Listed(n, w) /\ Listed(n, w) \subseteq Lines
  <2>1. \A i \in p .. q : i \in 1 .. n
    BY <1>1
  <2>2. S \subseteq Listed(n, w)
    BY <2>1 DEF Listed
  <2>3. Listed(n, w) \subseteq Lines
    BY DEF Listed, Chained
  <2>. QED BY <2>2, <2>3
<1>9. Listed(n, w) \ Listed(g, v) = S
  BY <1>7, <1>8
<1>10. v[p - 1] = w[p - 1]
  <2>1. p - 1 \in 0 .. n - q + p /\ p - 1 < p
    BY <1>1
  <2>. QED BY <2>1 DEF Cut
<1>11. Follows(e, n, w, d, g, v, p - 1)
  <2>1. d.marks = [k \in MarkNos |-> IF e.marks[k] \in S THEN NULL ELSE e.marks[k]]
    BY <1>3 DEF Freed
  <2>2. d.cur = IF e.cur \in S THEN v[p - 1] ELSE e.cur
    BY <1>3, <1>10 DEF Freed
  <2>. QED BY <1>9, <2>1, <2>2 DEF Follows
<1>12. \A l \in Listed(g, v) : d.text[l] = e.text[l]
  BY <1>7, <1>8 DEF Freed
<1>. QED BY <1>1, <1>7, <1>11, <1>12 DEF CutOff

-----------------------------------------------------------------------------
(* What each call does to the text *)

\* The editor has the lines w[1] .. w[n], and points at nothing else.
Listing(e, n, w) ==
    /\ Chained(e.next, e.prev, n, w) /\ Shaped(e)
    /\ e.cur \in Listed(n, w) \cup {BOF}
    /\ \A k \in MarkNos : e.marks[k] \in Listed(n, w) \cup {NULL, BOF}

LEMMA SoundIsListing ==
    ASSUME NEW e, NEW n, NEW w, NEW m, NEW f, Sound(e, n, w, m, f, {})
    PROVE  Listing(e, n, w) /\ Members(e) = Listed(n, w) /\ n \in Nat
<1>1. Chained(e.next, e.prev, n, w)
  BY DEF Sound
<1>2. Members(e) = Listed(n, w)
  BY <1>1, ChainIs DEF Members
<1>. QED BY <1>1, <1>2 DEF Sound, Holds, Listing, Chained

LEMMA ListingRows ==
    ASSUME NEW e, NEW n, NEW w, Listing(e, n, w)
    PROVE  /\ n \in Nat /\ Tracks(n, w, e.text, n, w, RowsOf(View(e)))
           /\ RowsOf(View(e)) \in [1 .. n -> Row]
           /\ Len(RowsOf(View(e))) = n
           /\ \A i \in 1 .. n : RowsOf(View(e))[i].txt = e.text[w[i]]
<1>1. n \in Nat /\ Tracks(n, w, e.text, n, w, RowsOf(View(e)))
  <2>1. Tracks(n, w, e.text, n, w, RowsOf(View(e)))
    BY TracksSelf DEF Listing, Shaped
  <2>. QED BY <2>1 DEF Listing, Chained
<1>2. RowsOf(View(e)) \in [1 .. n -> Row]
  BY <1>1 DEF Tracks
<1>3. \A i \in 1 .. n : RowsOf(View(e))[i].txt = e.text[w[i]]
  BY <1>1 DEF Tracks
<1>. QED BY <1>1, <1>2, <1>3

\* TextList: the rows without p .. q.
Less(rows, p, q) == SubSeq(rows, 1, p - 1) \o SubSeq(rows, q + 1, Len(rows))

LEMMA RowsCut ==
    ASSUME NEW e, NEW n, NEW w, Listing(e, n, w), NEW p \in 1 .. n, NEW q \in 1 .. n, p =< q,
           NEW g, g = n - (q - p + 1), NEW v, v = Cut(n, w, p, q)
    PROVE  /\ Tracks(n, w, e.text, g, v, Less(RowsOf(View(e)), p, q))
           /\ Less(RowsOf(View(e)), p, q) = Trimmed(n, RowsOf(View(e)), p, q)
<1> DEFINE rows == RowsOf(View(e))
<1>1. n \in Nat /\ rows \in [1 .. n -> Row] /\ Tracks(n, w, e.text, n, w, rows)
  BY ListingRows
<1> HIDE DEF rows
<1>2. SubSeq(rows, 1, p - 1) \o SubSeq(rows, q + 1, Len(rows)) = Trimmed(n, rows, p, q)
  BY <1>1, WithoutIs
<1>3. Less(rows, p, q) = Trimmed(n, rows, p, q)
  BY <1>2 DEF Less
<1>4. Tracks(n, w, e.text, g, v, Trimmed(n, rows, p, q))
  BY <1>1, TracksCut
<1>. QED BY <1>3, <1>4 DEF rows

\* Lines were deleted.
LEMMA CutSeen ==
    ASSUME NEW e, NEW n, NEW w, Listing(e, n, w), NEW p \in 1 .. n, NEW q \in 1 .. n, p =< q,
           NEW e2, Unlinked(e, w, p, q, e2), e2.text = e.text,
           NEW S, S = {w[i] : i \in p .. q}, NEW d, Freed(e2, S, d)
    PROVE  Became(View(e), View(d), Less(RowsOf(View(e)), p, q), p - 1)
<1> DEFINE g == n - (q - p + 1)
           v == Cut(n, w, p, q)
           rows == Less(RowsOf(View(e)), p, q)
           home == p - 1
<1>1. g = n - (q - p + 1) /\ v = Cut(n, w, p, q) /\ home = p - 1
  OBVIOUS
<1>2. Tracks(n, w, e.text, g, v, rows)
  BY RowsCut
<1> HIDE DEF g, v, rows, home
<1>3. Chained(e.next, e.prev, n, w) /\ Shaped(e)
  BY DEF Listing
<1>4. /\ Chained(d.next, d.prev, g, v) /\ Follows(e, n, w, d, g, v, home) /\ home \in 0 .. g
      /\ \A l \in Listed(g, v) : d.text[l] = e.text[l]
  <2>1. CutOff(e, n, w, S, d, g, v, home)
    BY <1>1, <1>3, CutFollows
  <2>. QED BY <2>1 DEF CutOff
<1>5. Tracks(n, w, d.text, g, v, rows)
  <2>1. \A i \in 1 .. g : d.text[v[i]] = e.text[v[i]]
    BY <1>4 DEF Listed
  <2>. QED BY <1>2, <2>1, TracksText
<1>6. Became(View(e), View(d), rows, home)
  <2>1. e.cur \in Listed(n, w) \cup {BOF} /\ \A k \in MarkNos : e.marks[k] \in Listed(n, w) \cup {NULL, BOF}
    BY DEF Listing
  <2>. QED BY <1>3, <1>4, <1>5, <2>1, Rearranged
<1>. QED BY <1>6 DEF rows, home

\* Nothing that is pointed at leaves the list.
LEMMA StaysSeen ==
    ASSUME NEW e, NEW n, NEW w, Listing(e, n, w), NEW d, NEW g, NEW v, Chained(d.next, d.prev, g, v),
           Listed(n, w) \subseteq Listed(g, v), d.marks = e.marks, d.cur = e.cur,
           NEW rows, Tracks(n, w, d.text, g, v, rows)
    PROVE  Became(View(e), View(d), rows, 0)
<1>1. Chained(e.next, e.prev, n, w) /\ e.cur \in Listed(n, w) \cup {BOF}
      /\ \A k \in MarkNos : e.marks[k] \in Listed(n, w) \cup {NULL, BOF}
  BY DEF Listing
<1>2. Follows(e, n, w, d, g, v, 0)
  <2>1. Listed(n, w) \ Listed(g, v) = {}
    OBVIOUS
  <2>2. d.marks = [k \in MarkNos |-> e.marks[k]]
    BY DEF Listing, Shaped
  <2>3. d.marks = [k \in MarkNos |->
                     IF e.marks[k] \in Listed(n, w) \ Listed(g, v) THEN NULL ELSE e.marks[k]]
    BY <2>1, <2>2
  <2>. QED BY <2>1, <2>3 DEF Follows
<1>3. 0 \in 0 .. g
  BY DEF Chained
<1>. QED BY <1>1, <1>2, <1>3, Rearranged

LEMMA ListedSpliced ==
    ASSUME NEW n \in Nat, NEW w, NEW k \in Nat, NEW c, NEW t \in 0 .. n
    PROVE  Listed(n, w) \subseteq Listed(n + k, Spliced(n, w, t, k, c))
<1> DEFINE g == n + k
           v == Spliced(n, w, t, k, c)
<1>1. ASSUME NEW i \in 1 .. n PROVE w[i] \in Listed(g, v)
  <2>1. CASE i =< t
    <3>1. i \in 1 .. g /\ i \in 0 .. n + k + 1
      OBVIOUS
    <3>2. v[i] = w[i]
      BY <2>1, <3>1 DEF Spliced
    <3>. QED BY <3>1, <3>2 DEF Listed
  <2>2. CASE ~(i =< t)
    <3>1. i + k \in 1 .. g /\ i + k \in 0 .. n + k + 1 /\ ~(i + k =< t) /\ ~(i + k =< t + k) /\ i + k - k = i
      BY <2>2
    <3>2. v[i + k] = w[i]
      BY <3>1 DEF Spliced
    <3>. QED BY <3>1, <3>2 DEF Listed
  <2>. QED BY <2>1, <2>2
<1>. QED BY <1>1 DEF Listed

\* New lines were linked in; other texts may have changed.
LEMMA SplicedSeen ==
    ASSUME NEW e, NEW n, NEW w, Listing(e, n, w), NEW k \in Nat, NEW c, Outside(n, w, k, c),
           NEW t \in 0 .. n, NEW d, NEW g, g = n + k, Chained(d.next, d.prev, g, Spliced(n, w, t, k, c)),
           d.marks = e.marks, d.cur = e.cur, NEW rows, Tracks(n, w, d.text, n, w, rows),
           NEW txts \in [1 .. k -> Texts], \A i \in 1 .. k : d.text[c[i]] = txts[i]
    PROVE  Became(View(e), View(d), Doc!Splice(rows, t, NewRows(k, txts)), 0)
<1> DEFINE v == Spliced(n, w, t, k, c)
<1>1. n \in Nat /\ rows \in [1 .. n -> Row]
  BY ListingRows DEF Tracks
<1>2. Tracks(n, w, d.text, k, c, NewRows(k, txts)) /\ NewRows(k, txts) \in [1 .. k -> Row]
  <2>1. \A i \in 1 .. k : c[i] \notin Listed(n, w) /\ d.text[c[i]] = txts[i]
    BY DEF Outside
  <2>2. Tracks(n, w, d.text, k, c, NewRows(k, txts))
    BY <1>1, <2>1, TracksNew
  <2>. QED BY <2>2 DEF Tracks
<1>3. Doc!Splice(rows, t, NewRows(k, txts)) = Joined(n, rows, t, k, NewRows(k, txts))
  <2>1. SplicesAt(Row, n, rows, k, NewRows(k, txts), t)
    BY <1>1, <1>2, SpliceIs
  <2>. QED BY <2>1 DEF SplicesAt
<1>4. g = n + k /\ v = Spliced(n, w, t, k, c) /\ Chained(d.next, d.prev, g, v)
  OBVIOUS
<1>5. Tracks(n, w, d.text, g, v, Joined(n, rows, t, k, NewRows(k, txts)))
  <2> HIDE DEF v
  <2>. QED BY <1>1, <1>2, <1>4, TracksSplice
<1>6. Listed(n, w) \subseteq Listed(g, v)
  BY <1>1, ListedSpliced
<1> HIDE DEF v
<1>. QED BY <1>3, <1>4, <1>5, <1>6, StaysSeen

LEMMA PastedSeen ==
    ASSUME NEW e, NEW n, NEW w, Listing(e, n, w), NEW t \in 0 .. n, NEW k \in Nat, NEW c,
           NEW txts \in [1 .. k -> Texts], NEW d, Pasted(e, n, w, t, k, c, txts, d)
    PROVE  Became(View(e), View(d), Doc!Splice(RowsOf(View(e)), t, NewRows(k, txts)), 0)
<1>1. /\ Chained(d.next, d.prev, n + k, Spliced(n, w, t, k, c)) /\ Outside(n, w, k, c)
      /\ d.marks = e.marks /\ d.cur = e.cur
      /\ \A i \in 1 .. k : d.text[c[i]] = txts[i]
      /\ \A l \in Listed(n, w) : d.text[l] = e.text[l]
  BY DEF Pasted
<1>2. Tracks(n, w, e.text, n, w, RowsOf(View(e)))
  BY ListingRows
<1>3. Tracks(n, w, d.text, n, w, RowsOf(View(e)))
  <2>1. \A i \in 1 .. n : d.text[w[i]] = e.text[w[i]]
    BY <1>1 DEF Listed
  <2> HIDE DEF RowsOf
  <2>. QED BY <1>2, <2>1, TracksText
<1>. QED BY <1>1, <1>3, SplicedSeen

LEMMA AlikeSeen ==
    ASSUME NEW e, NEW n, NEW w, Listing(e, n, w), NEW d, Alike(e, n, w, d)
    PROVE  View(d) = View(e)
<1>1. /\ Chained(e.next, e.prev, n, w) /\ Chained(d.next, d.prev, n, w)
      /\ d.marks = e.marks /\ d.cur = e.cur /\ \A i \in 1 .. n : d.text[w[i]] = e.text[w[i]]
      /\ e.cur \in Listed(n, w) \cup {BOF}
      /\ \A k \in MarkNos : e.marks[k] \in Listed(n, w) \cup {NULL, BOF}
  BY DEF Listing, Alike, Listed
<1>2. TextsOf(d, n, w) = TextsOf(e, n, w)
  BY <1>1 DEF TextsOf
<1>3. ASSUME NEW l \in Listed(n, w) \cup {BOF} PROVE PlaceOf(d, l) = PlaceOf(e, l)
  <2>1. PICK p \in 0 .. n : l = w[p]
    BY <1>1, PlaceFound
  <2>2. p \in 0 .. n + 1
    BY <1>1 DEF Chained
  <2>3. PlaceOf(d, w[p]) = p
    BY <1>1, <2>2, PlaceIs
  <2>4. PlaceOf(e, w[p]) = p
    BY <1>1, <2>2, PlaceIs
  <2>. QED BY <2>1, <2>3, <2>4
<1>4. MarksOf(d) = MarksOf(e)
  <2>1. \A k \in MarkNos : (IF d.marks[k] = NULL THEN 0 ELSE PlaceOf(d, d.marks[k]))
                         = (IF e.marks[k] = NULL THEN 0 ELSE PlaceOf(e, e.marks[k]))
    BY <1>1, <1>3
  <2>. QED BY <2>1 DEF MarksOf
<1>5. /\ View(e).text = TextsOf(e, n, w) /\ View(e).at = PlaceOf(e, e.cur) /\ View(e).marks = MarksOf(e)
      /\ View(e) = [text |-> View(e).text, at |-> View(e).at, marks |-> View(e).marks]
  BY <1>1, ViewIs
<1>6. /\ View(d).text = TextsOf(d, n, w) /\ View(d).at = PlaceOf(d, d.cur) /\ View(d).marks = MarksOf(d)
      /\ View(d) = [text |-> View(d).text, at |-> View(d).at, marks |-> View(d).marks]
  BY <1>1, ViewIs
<1>7. View(d).text = View(e).text /\ View(d).at = View(e).at /\ View(d).marks = View(e).marks
  BY <1>1, <1>2, <1>3, <1>4, <1>5, <1>6
<1>. QED BY <1>5, <1>6, <1>7

\* The operations of TextList, on what is seen of an editor.
InsertedAt(u, x, t, txt) == Became(u, x, Doc!Splice(RowsOf(u), t, <<Doc!New(txt)>>), 0)
Deleted(u, x, p, q) == Became(u, x, Less(RowsOf(u), p, q), p - 1)
CopiedTo(u, x, p, q, t) ==
    Became(u, x, Doc!Splice(RowsOf(u), t, [i \in 1 .. q - p + 1 |-> Doc!New(u.text[p + i - 1])]), 0)

LEMMA OneRow ==
    ASSUME NEW txt
    PROVE  NewRows(1, [i \in 1 .. 1 |-> txt]) = <<Doc!New(txt)>>
<1>1. \A i \in 1 .. 1 : [j \in 1 .. 1 |-> txt][i] = txt
  OBVIOUS
<1>2. NewRows(1, [i \in 1 .. 1 |-> txt]) = [i \in 1 .. 1 |-> Doc!New(txt)]
  BY <1>1 DEF NewRows
<1> DEFINE row == Doc!New(txt)
<1> HIDE DEF row
<1>3. [i \in 1 .. 1 |-> row] = <<row>>
  OBVIOUS
<1>. QED BY <1>2, <1>3 DEF row

LEMMA InsertSeen ==
    ASSUME NEW e, NEW starved0, NEW n, NEW w, NEW m, NEW f, Sound(e, n, w, m, f, {}),
           AllThere(starved0, n, w, m, f, {}), NEW l, NEW t \in 0 .. n,
           (IF l = NULL THEN BOF ELSE l) = w[t],
           NEW txt \in Texts, NEW d, d = InsertLineAfter(e, l, txt)
    PROVE  /\ d.oom => View(d) = View(e)
           /\ ~d.oom => InsertedAt(View(e), View(d), t, txt)
<1> DEFINE c == [i \in 1 .. 1 |-> e.firstFree]
           txts == [i \in 1 .. 1 |-> txt]
<1>1. \/ d.oom /\ Alike(e, n, w, d)
      \/ ~d.oom /\ Pasted(e, n, w, t, 1, c, txts, d)
  BY InsertAfterIs
<1>2. Listing(e, n, w)
  BY SoundIsListing
<1>3. CASE d.oom /\ Alike(e, n, w, d)
  BY <1>2, <1>3, AlikeSeen
<1>4. CASE ~d.oom /\ Pasted(e, n, w, t, 1, c, txts, d)
  <2>1. txts \in [1 .. 1 -> Texts] /\ 1 \in Nat
    OBVIOUS
  <2>2. NewRows(1, txts) = <<Doc!New(txt)>>
    BY OneRow
  <2> HIDE DEF c, txts
  <2>3. Became(View(e), View(d), Doc!Splice(RowsOf(View(e)), t, NewRows(1, txts)), 0)
    BY <1>2, <1>4, <2>1, PastedSeen
  <2>. QED BY <1>4, <2>2, <2>3 DEF InsertedAt
<1>. QED BY <1>1, <1>3, <1>4

\* Where a line is inserted in front of another.
LEMMA PlaceBefore ==
    ASSUME NEW e, NEW n, NEW w, Chained(e.next, e.prev, n, w), NEW i \in 1 .. n
    PROVE  i - 1 \in 0 .. n /\ e.prev[w[i]] = w[i - 1] /\ w[i] # NULL /\ w[i] # BOF /\ w[i - 1] # NULL
<1>1. n \in Nat /\ i - 1 \in 0 .. n /\ i = (i - 1) + 1 /\ i - 1 \in 0 .. n + 1
  BY DEF Chained
<1>2. e.prev[w[(i - 1) + 1]] = w[i - 1]
  BY <1>1 DEF Chained
<1>3. w[i] \in Lines /\ w[i - 1] \in Slots
  BY <1>1 DEF Chained
<1>. QED BY <1>1, <1>2, <1>3, Guards

LEMMA InsertBeforeSeen ==
    ASSUME NEW e, NEW starved0, NEW n, NEW w, NEW m, NEW f, Sound(e, n, w, m, f, {}),
           AllThere(starved0, n, w, m, f, {}), NEW i \in 1 .. n,
           NEW txt \in Texts, NEW d, d = InsertLineBefore(e, w[i], txt)
    PROVE  /\ d.oom => View(d) = View(e)
           /\ ~d.oom => InsertedAt(View(e), View(d), i - 1, txt)
<1>1. Chained(e.next, e.prev, n, w)
  BY DEF Sound
<1>2. i - 1 \in 0 .. n /\ e.prev[w[i]] = w[i - 1] /\ w[i] # NULL /\ w[i] # BOF /\ w[i - 1] # NULL
  <2>1. \A j \in 1 .. n : j - 1 \in 0 .. n /\ e.prev[w[j]] = w[j - 1] /\ w[j] # NULL
                           /\ w[j] # BOF /\ w[j - 1] # NULL
    BY <1>1, PlaceBefore
  <2>. QED BY <2>1
<1> DEFINE l == w[i - 1]
           t == i - 1
<1>3. d = InsertLineAfter(e, l, txt) /\ (IF l = NULL THEN BOF ELSE l) = w[t] /\ t \in 0 .. n
  BY <1>2 DEF InsertLineBefore
<1> HIDE DEF l, t
<1>4. (d.oom => View(d) = View(e)) /\ (~d.oom => InsertedAt(View(e), View(d), t, txt))
  BY <1>3, InsertSeen
<1>. QED BY <1>4 DEF t

\* edIns: the new line becomes the current one.
LEMMA InsertHereSeen ==
    ASSUME NEW e, NEW starved0, NEW n, NEW w, NEW m, NEW f, Sound(e, n, w, m, f, {}),
           AllThere(starved0, n, w, m, f, {}), NEW txt \in Texts, NEW d, d = InsertLine(e, txt)
    PROVE  \/ View(d) = View(e)
           \/ /\ \A k \in MarkNos : View(d).marks[k] =
                     Doc!Where(Doc!Splice(RowsOf(View(e)), View(e).at, <<Doc!New(txt)>>), View(e).marks[k])
              /\ View(d).marks = [k \in MarkNos |-> View(d).marks[k]]
              /\ View(d).text = Doc!InsertAt(View(e).text, View(e).at + 1, txt)
              /\ View(d).at = View(e).at + 1
<1> DEFINE new == InsertLineAfter(e, e.cur, txt)
           c == [i \in 1 .. 1 |-> e.firstFree]
           txts == [i \in 1 .. 1 |-> txt]
<1>1. Listing(e, n, w) /\ Chained(e.next, e.prev, n, w) /\ n \in Nat
  BY SoundIsListing DEF Listing
<1>2. PICK t \in 0 .. n : e.cur = w[t]
  <2>1. e.cur \in Listed(n, w) \cup {BOF}
    BY <1>1 DEF Listing
  <2>. QED BY <1>1, <2>1, PlaceFound
<1>3. View(e).at = t
  <2>1. t \in 0 .. n + 1
    BY <1>1
  <2>2. PlaceOf(e, w[t]) = t
    BY <1>1, <2>1, PlaceIs
  <2>3. View(e).at = PlaceOf(e, e.cur)
    BY <1>1, ViewIs
  <2>. QED BY <1>2, <2>2, <2>3
<1>4. (IF e.cur = NULL THEN BOF ELSE e.cur) = w[t]
  <2>1. e.cur # NULL
    BY <1>1, Guards DEF Listing, Listed, Chained
  <2>. QED BY <1>2, <2>1
<1>5. /\ Kept(new, starved0)
      /\ \/ new.oom /\ Alike(e, n, w, new)
         \/ ~new.oom /\ Pasted(e, n, w, t, 1, c, txts, new)
  BY <1>4, InsertAfterIs
<1>6. (new.oom => View(new) = View(e)) /\ (~new.oom => InsertedAt(View(e), View(new), t, txt))
  BY <1>4, InsertSeen
<1>7. d = IF new.oom \/ new.broken THEN new ELSE [new EXCEPT !.cur = e.firstFree]
  BY DEF InsertLine
<1> HIDE DEF new
<1>8. ~new.broken /\ Shaped(new)
  BY <1>5, KeptFacts
<1>9. CASE new.oom
  BY <1>6, <1>7, <1>9
<1>10. CASE ~new.oom
  <2>1. d = [new EXCEPT !.cur = e.firstFree]
    BY <1>7, <1>8, <1>10
  <2>2. d.next = new.next /\ d.prev = new.prev /\ d.text = new.text /\ d.marks = new.marks /\ d.cur = e.firstFree
    BY <1>8, <2>1 DEF Shaped, Fields
  <2>3. Pasted(e, n, w, t, 1, c, txts, new) /\ InsertedAt(View(e), View(new), t, txt)
    BY <1>5, <1>6, <1>10
  <2> DEFINE v == Spliced(n, w, t, 1, c)
             g == n + 1
  <2>4. Chained(new.next, new.prev, g, v) /\ Chained(d.next, d.prev, g, v)
    BY <2>2, <2>3 DEF Pasted
  <2>5. View(d).text = View(new).text /\ View(d).marks = View(new).marks
    <3> HIDE DEF v, g
    <3>1. View(d).text = TextsOf(d, g, v)
      BY <2>4, ViewIs
    <3>2. View(new).text = TextsOf(new, g, v)
      BY <2>4, ViewIs
    <3>3. \A l : PlaceOf(d, l) = PlaceOf(new, l)
      BY <2>2 DEF PlaceOf, Follow
    <3>4. TextsOf(d, g, v) = TextsOf(new, g, v)
      BY <2>2 DEF TextsOf
    <3>5. MarksOf(d) = MarksOf(new)
      BY <2>2, <3>3 DEF MarksOf
    <3>6. View(d).marks = MarksOf(d)
      BY <2>4, ViewIs
    <3>7. View(new).marks = MarksOf(new)
      BY <2>4, ViewIs
    <3>. QED BY <3>1, <3>2, <3>4, <3>5, <3>6, <3>7
  <2>6. View(d).at = t + 1
    <3>1. v[t + 1] = e.firstFree
      <4>1. t + 1 \in 0 .. n + 1 + 1 /\ ~(t + 1 =< t) /\ t + 1 =< t + 1 /\ t + 1 - t = 1
        BY <1>1
      <4>. QED BY <4>1 DEF Spliced
    <3>2. t + 1 \in 0 .. g + 1
      BY <1>1
    <3> HIDE DEF v, g
    <3>3. PlaceOf(d, v[t + 1]) = t + 1
      BY <2>4, <3>2, PlaceIs
    <3>4. View(d).at = PlaceOf(d, d.cur)
      BY <2>4, ViewIs
    <3>. QED BY <2>2, <3>1, <3>3, <3>4
  <2>7. Became(View(e), View(new), Doc!Splice(RowsOf(View(e)), t, <<Doc!New(txt)>>), 0)
    BY <2>3 DEF InsertedAt
  <2>8. View(new).text = Doc!InsertAt(View(e).text, t + 1, txt)
    <3> DEFINE rows == RowsOf(View(e))
               some == <<Doc!New(txt)>>
               old == View(e).text
    <3>1. rows \in [1 .. n -> Row] /\ Tracks(n, w, e.text, n, w, rows)
      BY <1>1, ListingRows
    <3>2. old \in [1 .. n -> Texts] /\ \A i \in 1 .. n : old[i] = rows[i].txt
      <4>1. old = [i \in 1 .. n |-> e.text[w[i]]]
        BY <1>1, ViewIs DEF TextsOf
      <4>2. \A i \in 1 .. n : rows[i].txt = e.text[w[i]] /\ rows[i] \in Row
        BY <3>1 DEF Tracks
      <4>. QED BY <4>1, <4>2 DEF Row
    <3>3. some \in [1 .. 1 -> Row] /\ some[1].txt = txt
      BY DEF Doc!New, Row
    <3> HIDE DEF rows, old, some
    <3>4. Doc!Splice(rows, t, some) = Joined(n, rows, t, 1, some)
      <4>1. 1 \in Nat
        OBVIOUS
      <4>2. SplicesAt(Row, n, rows, 1, some, t)
        BY <1>1, <3>1, <3>3, <4>1, SpliceIs
      <4>. QED BY <4>2 DEF SplicesAt
    <3>5. <<txt>> \in [1 .. 1 -> Texts]
      OBVIOUS
    <3>6. Doc!Splice(old, t, <<txt>>) = Joined(n, old, t, 1, <<txt>>)
      <4>1. 1 \in Nat
        OBVIOUS
      <4>2. SplicesAt(Texts, n, old, 1, <<txt>>, t)
        BY <1>1, <3>2, <3>5, <4>1, SpliceIs
      <4>. QED BY <4>2 DEF SplicesAt
    <3>7. Doc!InsertAt(old, t + 1, txt) = Doc!Splice(old, t, <<txt>>)
      <4> DEFINE p == t + 1
      <4>1. t + 1 = p /\ p - 1 = t
        BY <1>1
      <4> HIDE DEF p
      <4>2. Doc!InsertAt(old, p, txt) = Doc!Splice(old, t, <<txt>>)
        BY <4>1 DEF Doc!InsertAt, Doc!Splice
      <4>. QED BY <4>2 DEF p
    <3>8. \A i \in 1 .. n + 1 : Joined(n, rows, t, 1, some)[i].txt = Joined(n, old, t, 1, <<txt>>)[i]
      <4> SUFFICES ASSUME NEW i \in 1 .. n + 1
                   PROVE  Joined(n, rows, t, 1, some)[i].txt = Joined(n, old, t, 1, <<txt>>)[i]
        OBVIOUS
      <4>1. CASE i =< t
        <5>1. i \in 1 .. n
          BY <1>1, <4>1
        <5>. QED BY <3>2, <4>1, <5>1 DEF Joined
      <4>2. CASE i = t + 1
        BY <3>3, <4>2 DEF Joined
      <4>3. CASE ~(i =< t + 1)
        <5>1. i - 1 \in 1 .. n /\ ~(i =< t)
          BY <1>1, <4>3
        <5>. QED BY <3>2, <4>3, <5>1 DEF Joined
      <4>. QED BY <1>1, <4>1, <4>2, <4>3
    <3>9. View(new).text = [i \in 1 .. n + 1 |-> Joined(n, rows, t, 1, some)[i].txt]
      <4>1. View(new).text = [i \in DOMAIN Joined(n, rows, t, 1, some) |-> Joined(n, rows, t, 1, some)[i].txt]
        BY <2>7, <3>4 DEF Became, rows, some
      <4>2. DOMAIN Joined(n, rows, t, 1, some) = 1 .. n + 1
        BY DEF Joined
      <4>. QED BY <4>1, <4>2
    <3>10. Joined(n, old, t, 1, <<txt>>) = [i \in 1 .. n + 1 |-> Joined(n, old, t, 1, <<txt>>)[i]]
      BY DEF Joined
    <3>. QED BY <3>6, <3>7, <3>8, <3>9, <3>10 DEF old
  <2>9. /\ View(new).marks = [k \in MarkNos |->
              Doc!Where(Doc!Splice(RowsOf(View(e)), t, <<Doc!New(txt)>>), View(e).marks[k])]
    BY <2>7 DEF Became
  <2>. QED BY <1>3, <2>5, <2>6, <2>8, <2>9
<1>. QED BY <1>9, <1>10

Updated(u, x, i, txt) == Became(u, x, Reworded(RowsOf(u), i, txt), 0)
JoinedTo(u, x, i, txt) ==
    Became(u, x, Reworded(Less(RowsOf(u), i + 1, i + 1), i, txt), i)
SplitAt(u, x, i, head, tail) ==
    Became(u, x, Doc!Splice(Reworded(RowsOf(u), i, head), i, <<Doc!New(tail)>>), 0)

LEMMA DeleteSeen ==
    ASSUME NEW e, NEW n, NEW w, Listing(e, n, w), NEW p \in 1 .. n
    PROVE  Deleted(View(e), View(DeleteLine(e, w[p])), p, p)
<1> DEFINE l == w[p]
           d == DeleteLine(e, l)
<1>1. Chained(e.next, e.prev, n, w) /\ Shaped(e) /\ n \in Nat
  BY DEF Listing, Chained
<1>2. PICK e2 : Unlinked(e, w, p, p, e2) /\ e2.text = e.text /\ d = FreeLine(e2, l)
  BY <1>1, DeleteIs
<1> HIDE DEF d
<1>3. l \in Lines /\ {w[i] : i \in p .. p} = {l} /\ p =< p
  <2>1. p .. p = {p}
    BY <1>1
  <2>. QED BY <1>1, <2>1 DEF Chained
<1>4. Shaped(e2)
  BY <1>2 DEF Unlinked
<1> HIDE DEF l
<1>5. Freed(e2, {l}, d)
  BY <1>2, <1>3, <1>4, FreedOne
<1>6. Became(View(e), View(d), Less(RowsOf(View(e)), p, p), p - 1)
  <2> DEFINE S == {w[i] : i \in p .. p}
  <2>1. S = {w[i] : i \in p .. p} /\ Freed(e2, S, d)
    BY <1>3, <1>5
  <2> HIDE DEF S
  <2>. QED BY <1>2, <1>3, <2>1, CutSeen
<1>. QED BY <1>6 DEF Deleted, d, l

LEMMA DeleteRangeSeen ==
    ASSUME NEW e, NEW starved0, NEW n, NEW w, NEW m, NEW f, Sound(e, n, w, m, f, {}),
           AllThere(starved0, n, w, m, f, {}), NEW from \in Holdable(e), NEW to \in Holdable(e)
    PROVE  \/ View(DeleteLineRange(e, from, to)) = View(e)
           \/ \E p, q \in 1 .. n : p =< q /\ Deleted(View(e), View(DeleteLineRange(e, from, to)), p, q)
<1>1. CASE OrderLines(e, from, to) = <<>>
  BY <1>1 DEF DeleteLineRange
<1>2. CASE OrderLines(e, from, to) # <<>>
  <2>1. Listing(e, n, w) /\ Kept(e, starved0) /\ Members(e) = Listed(n, w)
    BY SoundIsListing DEF Kept, KeptBut
  <2>2. Chained(e.next, e.prev, n, w) /\ Shaped(e)
    BY <2>1 DEF Listing
  <2>3. PICK p \in 1 .. n, q \in 1 .. n : p =< q /\ OrderLines(e, from, to) = <<w[p], w[q]>>
    <3>1. from \in Listed(n, w) \/ ~Own(e, from)
      BY <2>1, HoldableIs
    <3>2. to \in Listed(n, w) \/ ~Own(e, to)
      BY <2>1, HoldableIs
    <3>3. InOrder(n, w, OrderLines(e, from, to))
      BY <2>2, <3>1, <3>2, OrderIs
    <3>. QED BY <1>2, <3>3 DEF InOrder
  <2> DEFINE k == q - p + 1
             gone == [i \in 1 .. k |-> w[p + i - 1]]
             S == {w[i] : i \in p .. q}
             d == DeleteLineRange(e, from, to)
  <2>4. k = q - p + 1 /\ gone = [i \in 1 .. k |-> w[p + i - 1]]
    OBVIOUS
  <2> HIDE DEF k, gone
  <2>5. RangeFreed(e, w, p, q, k, gone, d)
    BY <2>2, <2>3, <2>4, DeleteRangeIs
  <2> HIDE DEF d
  <2>6. PICK e2 : Unlinked(e, w, p, q, e2) /\ e2.text = e.text
                  /\ d = RecomputeNo(InTurn(FreeLine, e2, gone))
    BY <2>5 DEF RangeFreed
  <2> DEFINE h == InTurn(FreeLine, e2, gone)
  <2>7. k \in Nat /\ gone \in [1 .. k -> Lines] /\ S = {gone[i] : i \in 1 .. k}
    BY <2>5 DEF RangeFreed
  <2>8. h = InTurn(FreeLine, e2, gone) /\ d = RecomputeNo(h)
    BY <2>6
  <2>9. S = {w[i] : i \in p .. q}
    OBVIOUS
  <2> HIDE DEF h, S
  <2>10. Shaped(h) /\ Freed(e2, S, h)
    <3>1. Shaped(e2)
      BY <2>6 DEF Unlinked
    <3>. QED BY <2>7, <2>8, <3>1, FreedAll
  <2>11. Freed(e2, S, d)
    <3>1. d.next = h.next /\ d.prev = h.prev /\ d.text = h.text /\ d.cur = h.cur /\ d.marks = h.marks
      BY <2>8, <2>10, RecomputeIs
    <3>. QED BY <2>10, <3>1 DEF Freed
  <2>12. Became(View(e), View(d), Less(RowsOf(View(e)), p, q), p - 1)
    BY <2>1, <2>3, <2>6, <2>9, <2>11, CutSeen
  <2>. QED BY <2>3, <2>12 DEF Deleted, d
<1>. QED BY <1>1, <1>2

LEMMA UpdateSeen ==
    ASSUME NEW e, NEW n, NEW w, Listing(e, n, w), NEW i \in 1 .. n, NEW txt \in Texts
    PROVE  Updated(View(e), View(UpdateLine(e, w[i], txt)), i, txt)
<1> DEFINE d == UpdateLine(e, w[i], txt)
<1>1. Chained(e.next, e.prev, n, w) /\ Shaped(e) /\ n \in Nat
  BY DEF Listing, Chained
<1>2. /\ d.next = e.next /\ d.prev = e.prev /\ d.marks = e.marks /\ d.cur = e.cur
      /\ d.text = [e.text EXCEPT ![w[i]] = txt]
  BY <1>1 DEF UpdateLine, Shaped, Fields
<1> HIDE DEF d
<1>3. Tracks(n, w, d.text, n, w, Reworded(RowsOf(View(e)), i, txt))
  <2>1. /\ \A k \in 1 .. n : w[k] \in Lines
        /\ \A k \in 1 .. n : k \in 0 .. n + 1
    BY <1>1 DEF Chained
  <2>2. \A k \in 1 .. n : k # i => w[k] # w[i]
    BY <1>1, <2>1 DEF Chained
  <2>3. d.text[w[i]] = txt /\ \A k \in 1 .. n : k # i => d.text[w[k]] = e.text[w[k]]
    BY <1>1, <1>2, <2>1, <2>2 DEF Shaped
  <2>4. Tracks(n, w, e.text, n, w, RowsOf(View(e)))
    BY ListingRows
  <2> HIDE DEF RowsOf
  <2>. QED BY <1>1, <2>3, <2>4, TracksUpdate
<1>4. Became(View(e), View(d), Reworded(RowsOf(View(e)), i, txt), 0)
  <2>1. Chained(d.next, d.prev, n, w) /\ Listed(n, w) \subseteq Listed(n, w)
    BY <1>1, <1>2
  <2>. QED BY <1>2, <1>3, <2>1, StaysSeen
<1>. QED BY <1>4 DEF Updated, d

\* Line i gets another text, and the line behind it goes.
Retyped(e, l, txt) == [e EXCEPT !.text[l] = txt]

LEMMA JoinSeen ==
    ASSUME NEW e, NEW n, NEW w, Listing(e, n, w), NEW i \in 1 .. n, i + 1 \in 1 .. n,
           NEW txt \in Texts, NEW e1, e1 = Retyped(e, w[i], txt),
           NEW d, d = DeleteLine(e1, w[i + 1])
    PROVE  JoinedTo(View(e), View(d), i, txt)
<1> DEFINE j == i + 1
           g == n - 1
           v == Cut(n, w, j, j)
           S == {w[k] : k \in j .. j}
           l == w[j]
<1>1. Chained(e.next, e.prev, n, w) /\ Shaped(e) /\ n \in Nat
  BY DEF Listing, Chained
<1>2. /\ e1.next = e.next /\ e1.prev = e.prev /\ e1.mine = e.mine /\ e1.firstFree = e.firstFree
      /\ e1.marks = e.marks /\ e1.cur = e.cur /\ e1.curNo = e.curNo /\ e1.count = e.count
      /\ e1.text = [e.text EXCEPT ![w[i]] = txt] /\ e1.modified = e.modified
      /\ e1.oom = e.oom /\ e1.broken = e.broken /\ e1 = [x \in Fields |-> e1[x]]
  BY <1>1 DEF Shaped, Fields, Retyped
<1>3. \A k \in 1 .. n : w[k] \in Lines
  BY <1>1 DEF Chained
<1>4. Shaped(e1) /\ Chained(e1.next, e1.prev, n, w)
  <2>1. e1.text \in [Lines -> Texts]
    BY <1>1, <1>2, <1>3 DEF Shaped
  <2>. QED BY <1>1, <1>2, <2>1 DEF Shaped
<1>5. j \in 1 .. n /\ j =< j /\ j .. j = {j} /\ g = n - (j - j + 1) /\ i \in 1 .. g /\ g \in Nat
      /\ j - 1 = i /\ i < j /\ i \in 0 .. n - j + j /\ j = i + 1
  BY <1>1
<1> HIDE DEF j, g
<1>6. v = Cut(n, w, j, j) /\ S = {w[k] : k \in j .. j} /\ l = w[j] /\ S = {l} /\ d = DeleteLine(e1, l)
      /\ l \in Lines
  BY <1>3, <1>5
<1>7. v[i] = w[i]
  BY <1>5 DEF Cut
<1> HIDE DEF v, S, l
<1>8. PICK e2 : Unlinked(e1, w, j, j, e2) /\ e2.text = e1.text /\ d = FreeLine(e2, l)
  <2>1. j \in 1 .. n /\ l = w[j]
    BY <1>5, <1>6
  <2>2. \E e2 : Unlinked(e1, w, j, j, e2) /\ e2.text = e1.text /\ DeleteLine(e1, l) = FreeLine(e2, l)
    BY <1>4, <2>1, DeleteIs
  <2>. QED BY <1>6, <2>2
<1>9. Freed(e2, S, d)
  <2>1. Shaped(e2)
    BY <1>8 DEF Unlinked
  <2>. QED BY <1>6, <1>8, <2>1, FreedOne
<1> DEFINE rows == Less(RowsOf(View(e)), j, j)
           more == Reworded(rows, i, txt)
<1>10. CutOff(e1, n, w, S, d, g, v, i)
  <2> DEFINE q == j
  <2>1. /\ j \in 1 .. n /\ q \in 1 .. n /\ j =< q /\ g = n - (q - j + 1)
        /\ v = Cut(n, w, j, q) /\ Unlinked(e1, w, j, q, e2) /\ e2.text = e1.text /\ i = j - 1
    BY <1>5, <1>6, <1>8
  <2>2. S = {w[k] : k \in j .. q}
    BY <1>6
  <2> HIDE DEF q
  <2>. QED BY <1>4, <1>9, <2>1, <2>2, CutFollows
<1>11. Follows(e, n, w, d, g, v, i) /\ i \in 0 .. g /\ Chained(d.next, d.prev, g, v)
  BY <1>2, <1>10 DEF CutOff, Follows
<1>12. Tracks(n, w, e.text, g, v, rows)
  BY <1>5, <1>6, RowsCut
<1> HIDE DEF rows
<1>13. Tracks(n, w, d.text, g, v, more)
  <2>1. \A k \in 1 .. g : d.text[v[k]] = e1.text[v[k]]
    BY <1>10 DEF CutOff, Listed
  <2>2. \A k \in 1 .. g : v[k] \in Lines /\ (k # i => v[k] # v[i])
    <3>1. \A k \in 1 .. g : k \in 0 .. g + 1
      BY <1>5
    <3>. QED BY <1>5, <1>11, <3>1 DEF Chained
  <2>3. e1.text[v[i]] = txt /\ \A k \in 1 .. g : k # i => e1.text[v[k]] = e.text[v[k]]
    <3>1. e.text \in [Lines -> Texts] /\ e1.text = [e.text EXCEPT ![w[i]] = txt]
      BY <1>1, <1>2 DEF Shaped
    <3>. QED BY <1>5, <1>7, <2>2, <3>1
  <2>4. d.text[v[i]] = txt /\ \A k \in 1 .. g : k # i => d.text[v[k]] = e.text[v[k]]
    BY <1>5, <2>1, <2>3
  <2>5. g \in Nat /\ i \in 1 .. g
    BY <1>5
  <2>. QED BY <1>12, <2>4, <2>5, TracksUpdate
<1> HIDE DEF more
<1>14. e.cur \in Listed(n, w) \cup {BOF} /\ \A k \in MarkNos : e.marks[k] \in Listed(n, w) \cup {NULL, BOF}
  BY DEF Listing
<1>15. Became(View(e), View(d), more, i)
  BY <1>1, <1>11, <1>13, <1>14, Rearranged
<1>. QED BY <1>5, <1>15 DEF JoinedTo, more, rows

\* A line is inserted behind line i, and line i gets another text.
LEMMA SplitSeen ==
    ASSUME NEW e, NEW starved0, NEW n, NEW w, NEW m, NEW f, Sound(e, n, w, m, f, {}),
           AllThere(starved0, n, w, m, f, {}), NEW i \in 1 .. n, NEW head \in Texts, NEW tail \in Texts,
           NEW new, new = InsertLineAfter(e, w[i], tail), ~new.oom,
           NEW d, d = UpdateLine(new, w[i], head)
    PROVE  SplitAt(View(e), View(d), i, head, tail)
<1> DEFINE c == [k \in 1 .. 1 |-> e.firstFree]
           txts == [k \in 1 .. 1 |-> tail]
           l == w[i]
<1>1. Listing(e, n, w) /\ Chained(e.next, e.prev, n, w) /\ n \in Nat /\ i \in 0 .. n
  BY SoundIsListing DEF Listing
<1>2. l \in Lines /\ (IF l = NULL THEN BOF ELSE l) = w[i]
  BY <1>1, Guards DEF Chained
<1>3. Kept(new, starved0) /\ Pasted(e, n, w, i, 1, c, txts, new)
  BY <1>1, <1>2, InsertAfterIs
<1>4. txts \in [1 .. 1 -> Texts] /\ NewRows(1, txts) = <<Doc!New(tail)>> /\ 1 \in Nat
  BY OneRow
<1> HIDE DEF c, txts
<1>5. /\ c \in [1 .. 1 -> Lines] /\ Outside(n, w, 1, c)
      /\ Chained(new.next, new.prev, n + 1, Spliced(n, w, i, 1, c))
      /\ \A k \in 1 .. 1 : new.text[c[k]] = txts[k]
      /\ \A x \in Listed(n, w) : new.text[x] = e.text[x]
      /\ new.marks = e.marks /\ new.cur = e.cur
  BY <1>3 DEF Pasted
<1>6. Shaped(new)
  BY <1>3, KeptFacts
<1>7. /\ d.next = new.next /\ d.prev = new.prev /\ d.marks = new.marks /\ d.cur = new.cur
      /\ d.text = [new.text EXCEPT ![l] = head]
  BY <1>6 DEF UpdateLine, Shaped, Fields
<1>8. d.text[l] = head /\ \A x \in Lines : x # l => d.text[x] = new.text[x]
  BY <1>2, <1>6, <1>7 DEF Shaped
<1>9. \A k \in 1 .. 1 : d.text[c[k]] = txts[k]
  <2>1. \A k \in 1 .. 1 : c[k] \in Lines /\ c[k] \notin Listed(n, w)
    BY <1>5 DEF Outside
  <2>2. l \in Listed(n, w)
    BY DEF Listed
  <2>. QED BY <1>5, <1>8, <2>1, <2>2
<1>10. Tracks(n, w, d.text, n, w, Reworded(RowsOf(View(e)), i, head))
  <2>1. /\ \A k \in 1 .. n : w[k] \in Lines
        /\ \A k \in 1 .. n : k \in 0 .. n + 1
    BY <1>1 DEF Chained
  <2>2. \A k \in 1 .. n : k # i => w[k] # l
    BY <1>1, <2>1 DEF Chained
  <2>3. \A k \in 1 .. n : k # i => d.text[w[k]] = e.text[w[k]]
    BY <1>5, <1>8, <2>1, <2>2 DEF Listed
  <2>4. Tracks(n, w, e.text, n, w, RowsOf(View(e)))
    BY <1>1, ListingRows
  <2> HIDE DEF RowsOf
  <2>5. d.text[w[i]] = head
    BY <1>8
  <2>. QED BY <1>1, <2>3, <2>4, <2>5, TracksUpdate
<1> DEFINE rows == Reworded(RowsOf(View(e)), i, head)
<1> HIDE DEF rows, l
<1>11. Became(View(e), View(d), Doc!Splice(rows, i, NewRows(1, txts)), 0)
  <2>1. Tracks(n, w, d.text, n, w, rows)
    BY <1>10 DEF rows
  <2> DEFINE k == 1
             g == n + k
             x == Spliced(n, w, i, k, c)
  <2>2. /\ k \in Nat /\ g = n + k /\ Chained(d.next, d.prev, g, x) /\ Outside(n, w, k, c)
        /\ txts \in [1 .. k -> Texts] /\ \A h \in 1 .. k : d.text[c[h]] = txts[h]
        /\ d.marks = e.marks /\ d.cur = e.cur /\ x = Spliced(n, w, i, k, c)
    BY <1>4, <1>5, <1>7, <1>9
  <2> HIDE DEF k, g, x
  <2>3. Became(View(e), View(d), Doc!Splice(rows, i, NewRows(k, txts)), 0)
    BY <1>1, <2>1, <2>2, SplicedSeen
  <2>. QED BY <2>3 DEF k
<1>. QED BY <1>4, <1>11 DEF SplitAt, rows

MovedTo(u, x, p, q, t) ==
    Became(u, x, Doc!Splice(Less(RowsOf(u), p, q), t, SubSeq(RowsOf(u), p, q)), 0)
Marked(u, x, k, i) ==
    x.marks = [u.marks EXCEPT ![k] = i] /\ x.text = u.text /\ x.at = u.at
Went(u, x, i) == x.at = i /\ x.text = u.text /\ x.marks = u.marks

LEMMA CopySeen ==
    ASSUME NEW e, NEW starved0, NEW n, NEW w, NEW m, NEW f, Sound(e, n, w, m, f, {}),
           AllThere(starved0, n, w, m, f, {}), NEW from \in Holdable(e), NEW to \in Holdable(e),
           NEW trg \in Holdable(e) \cup {NULL}, NEW before,
           NEW d, d = CopyLineRange(e, from, to, e, trg, before)
    PROVE  \/ View(d) = View(e)
           \/ \E p, q \in 1 .. n : \E t \in 0 .. n : p =< q /\ CopiedTo(View(e), View(d), p, q, t)
<1>1. CASE ~Placeable(e, from, to, e, trg)
  BY <1>1 DEF CopyLineRange
<1>2. CASE Placeable(e, from, to, e, trg)
  <2> DEFINE range == OrderLines(e, from, to)
             lines == Between(e, range[1], range[2])
             txts == [i \in DOMAIN lines |-> e.text[lines[i]]]
             at == IF trg = NULL THEN BOF ELSE IF before THEN e.prev[trg] ELSE trg
  <2>1. /\ Listing(e, n, w) /\ Kept(e, starved0) /\ Members(e) = Listed(n, w) /\ n \in Nat
        /\ Chained(e.next, e.prev, n, w) /\ e.text \in [Lines -> Texts]
    BY SoundIsListing DEF Kept, KeptBut, Listing, Shaped
  <2>2. range # <<>> /\ (trg = NULL \/ Own(e, trg))
    BY <1>2 DEF Placeable
  <2>3. PICK p \in 1 .. n, q \in 1 .. n : Stretch(w, p, q, range, lines)
    BY <2>2, RangeIs
  <2>4. d = Paste(e, txts, at)
    BY <1>2 DEF CopyLineRange
  <2>5. at \in Listed(n, w) \cup {BOF}
    <3>1. trg = NULL \/ trg \in Members(e)
      BY <2>1, <2>2, HoldableIs
    <3>. QED BY <2>1, <3>1, Neighbours
  <2> DEFINE k == q - p + 1
             old == View(e).text
  <2>6. k \in Nat \ {0} /\ p =< q /\ lines = [i \in 1 .. k |-> w[p + i - 1]]
    BY <2>1, <2>3 DEF Stretch
  <2>7. \A i \in 1 .. k : p + i - 1 \in 1 .. n
    BY <2>1, <2>6
  <2> HIDE DEF lines, at
  <2>8. \A i \in 1 .. n : old[i] = e.text[w[i]] /\ w[i] \in Lines
    <3>1. old = TextsOf(e, n, w)
      BY <2>1, ViewIs
    <3>. QED BY <2>1, <3>1 DEF TextsOf, Chained
  <2> HIDE DEF k, old
  <2>9. txts \in [1 .. k -> Texts] /\ \A i \in 1 .. k : txts[i] = old[p + i - 1]
    <3>1. DOMAIN lines = 1 .. k /\ \A i \in 1 .. k : lines[i] = w[p + i - 1]
      BY <2>6
    <3>2. \A i \in 1 .. k : e.text[lines[i]] = old[p + i - 1] /\ e.text[lines[i]] \in Texts
      BY <2>1, <2>7, <2>8, <3>1
    <3>. QED BY <3>1, <3>2
  <2> HIDE DEF txts
  <2>10. PICK t \in 0 .. n : at = w[t]
    BY <2>1, <2>5, PlaceFound
  <2>11. \/ Alike(e, n, w, d)
         \/ \E c : Pasted(e, n, w, t, k, c, txts, d)
    BY <2>4, <2>6, <2>9, <2>10, PasteIs
  <2>12. CASE Alike(e, n, w, d)
    BY <2>1, <2>12, AlikeSeen
  <2>13. CASE \E c : Pasted(e, n, w, t, k, c, txts, d)
    <3>1. PICK c : Pasted(e, n, w, t, k, c, txts, d)
      BY <2>13
    <3>2. k \in Nat
      BY <2>6
    <3>3. Became(View(e), View(d), Doc!Splice(RowsOf(View(e)), t, NewRows(k, txts)), 0)
      BY <2>1, <2>9, <3>1, <3>2, PastedSeen
    <3>4. NewRows(k, txts) = [i \in 1 .. q - p + 1 |-> Doc!New(View(e).text[p + i - 1])]
      <4>1. \A i \in 1 .. k : Doc!New(txts[i]) = Doc!New(old[p + i - 1])
        BY <2>9
      <4>2. NewRows(k, txts) = [i \in 1 .. k |-> Doc!New(old[p + i - 1])]
        BY <4>1 DEF NewRows
      <4>. QED BY <4>2 DEF k, old
    <3>5. CopiedTo(View(e), View(d), p, q, t)
      BY <3>3, <3>4 DEF CopiedTo
    <3>. QED BY <2>6, <3>5
  <2>. QED BY <2>11, <2>12, <2>13
<1>. QED BY <1>1, <1>2

\* A range cut out and linked in again leaves the same lines in the list.
Shifted(n, w, p, q, t) ==
    Spliced(n - (q - p + 1), Cut(n, w, p, q), t, q - p + 1, [i \in 1 .. q - p + 1 |-> w[p + i - 1]])

LEMMA ListedMoved ==
    ASSUME NEW n \in Nat, NEW w, NEW p \in 1 .. n, NEW q \in 1 .. n, p =< q,
           NEW t \in 0 .. n - (q - p + 1)
    PROVE  Listed(n, w) \subseteq Listed(n, Shifted(n, w, p, q, t))
<1> DEFINE k == q - p + 1
           g == n - k
           v == Cut(n, w, p, q)
           c == [i \in 1 .. k |-> w[p + i - 1]]
           u == Spliced(g, v, t, k, c)
<1>a. u = Shifted(n, w, p, q, t)
  BY DEF Shifted
<1>b. /\ k = q - p + 1 /\ g = n - k /\ v = Cut(n, w, p, q) /\ c = [i \in 1 .. k |-> w[p + i - 1]]
      /\ u = Spliced(g, v, t, k, c) /\ t \in 0 .. g
  OBVIOUS
<1> HIDE DEF k, g, v, c, u
<1>1. k \in Nat /\ g \in Nat /\ g + k = n
  BY <1>b
<1>2. \A i \in 1 .. g : v[i] \in Listed(n, u)
  <2>1. Listed(g, v) \subseteq Listed(g + k, Spliced(g, v, t, k, c))
    BY <1>1, <1>b, ListedSpliced
  <2>2. Listed(g + k, Spliced(g, v, t, k, c)) = Listed(n, u)
    BY <1>1, <1>b
  <2>3. Listed(g, v) \subseteq Listed(n, u)
    BY <2>1, <2>2
  <2>4. \A i \in 1 .. g : v[i] \in Listed(g, v)
    BY DEF Listed
  <2>. QED BY <2>3, <2>4
<1>3. \A i \in 1 .. k : c[i] \in Listed(n, u)
  <2> SUFFICES ASSUME NEW i \in 1 .. k PROVE c[i] \in Listed(n, u)
    OBVIOUS
  <2>1. i + t \in 1 .. n /\ i + t \in 0 .. g + k + 1 /\ ~(i + t =< t) /\ i + t =< t + k /\ i + t - t = i
    BY <1>1, <1>b
  <2>2. u[i + t] = c[i]
    BY <1>b, <2>1 DEF Spliced
  <2>. QED BY <2>1, <2>2 DEF Listed
<1>4. ASSUME NEW i \in 1 .. n PROVE w[i] \in Listed(n, u)
  <2>1. CASE i < p
    <3>1. i \in 1 .. g /\ i \in 0 .. n - q + p
      BY <1>b, <2>1
    <3>2. v[i] = w[i]
      BY <1>b, <2>1, <3>1 DEF Cut
    <3>. QED BY <1>2, <3>1, <3>2
  <2>2. CASE i \in p .. q
    <3>1. i - p + 1 \in 1 .. k /\ p + (i - p + 1) - 1 = i
      BY <1>b, <2>2
    <3>2. c[i - p + 1] = w[i]
      BY <1>b, <3>1
    <3>. QED BY <1>3, <3>1, <3>2
  <2>3. CASE i > q
    <3>1. i - k \in 1 .. g /\ i - k \in 0 .. n - q + p /\ ~(i - k < p) /\ i - k + (q - p + 1) = i
      BY <1>b, <2>3
    <3>2. v[i - k] = w[i]
      BY <1>b, <3>1 DEF Cut
    <3>. QED BY <1>2, <3>1, <3>2
  <2>. QED BY <2>1, <2>2, <2>3
<1>. QED BY <1>4, <1>a DEF Listed

LEMMA MoveSeen ==
    ASSUME NEW e, NEW n, NEW w, Listing(e, n, w), NEW p \in 1 .. n, NEW q \in 1 .. n, p =< q,
           NEW t \in 0 .. n - (q - p + 1), NEW d, Moved(e, n, w, p, q, t, d)
    PROVE  MovedTo(View(e), View(d), p, q, t)
<1> DEFINE k == q - p + 1
           g == n - k
           v == Cut(n, w, p, q)
           c == [i \in 1 .. k |-> w[p + i - 1]]
           u == Spliced(g, v, t, k, c)
           rows == RowsOf(View(e))
           part == [i \in 1 .. k |-> rows[p + i - 1]]
<1>1. /\ Chained(e.next, e.prev, n, w) /\ n \in Nat /\ k \in Nat /\ g \in Nat /\ t \in 0 .. g
      /\ n = g + k
  BY DEF Listing, Chained
<1>2. Chained(d.next, d.prev, n, u) /\ d.text = e.text /\ d.marks = e.marks /\ d.cur = e.cur
  BY DEF Moved
<1>3. Tracks(n, w, e.text, n, w, rows) /\ rows \in [1 .. n -> Row]
  BY ListingRows
<1>4. Tracks(n, w, e.text, g, v, Less(rows, p, q))
  BY RowsCut
<1> HIDE DEF rows
<1>5. Tracks(n, w, e.text, k, c, part)
  BY <1>1, <1>3, TracksPart
<1>6. SubSeq(rows, p, q) = part
  <2>1. p \in 1 .. n + 1 /\ q \in 0 .. n
    BY <1>1
  <2>2. /\ SubSeq(rows, p, q) \in Seq(Row)
        /\ Len(SubSeq(rows, p, q)) = IF p =< q THEN q - p + 1 ELSE 0
        /\ \A i \in 1 .. q - p + 1 : SubSeq(rows, p, q)[i] = rows[p + i - 1]
    BY <1>1, <1>3, <2>1, PartIs
  <2> DEFINE some == SubSeq(rows, p, q)
  <2>3. some \in Seq(Row) /\ Len(some) = k /\ \A i \in 1 .. k : some[i] = part[i]
    BY <2>2
  <2> HIDE DEF some
  <2>4. some \in [1 .. k -> Row]
    BY <1>1, <2>3, LenProperties
  <2>5. part \in [1 .. k -> Row]
    BY <1>5 DEF Tracks
  <2> HIDE DEF part, k
  <2>6. some = part
    BY <1>1, <2>3, <2>4, <2>5, SameSeq
  <2>. QED BY <2>6 DEF some
<1> DEFINE kept == Less(rows, p, q)
           all == Doc!Splice(kept, t, part)
<1>7. Tracks(n, w, e.text, n, u, all)
  <2> HIDE DEF kept, part, u, v, c, g, k
  <2>1. kept \in [1 .. g -> Row] /\ part \in [1 .. k -> Row]
    BY <1>4, <1>5 DEF Tracks, kept
  <2>a. k \in Nat /\ g \in Nat /\ t \in 0 .. g
    BY <1>1
  <2> HIDE DEF all
  <2>b. Doc!Splice(kept, t, part) = Joined(g, kept, t, k, part)
    <3>1. SplicesAt(Row, g, kept, k, part, t)
      BY <2>1, <2>a, SpliceIs
    <3>. QED BY <3>1 DEF SplicesAt
  <2>2. all = Joined(g, kept, t, k, part)
    BY <2>b DEF all
  <2>3. Tracks(n, w, e.text, g, v, kept) /\ Tracks(n, w, e.text, k, c, part)
    BY <1>4, <1>5 DEF kept
  <2>4. Tracks(n, w, e.text, n, Spliced(g, v, t, k, c), Joined(g, kept, t, k, part))
    BY <1>1, <2>3, TracksSplice
  <2>. QED BY <2>2, <2>4 DEF u
<1>8. Listed(n, w) \subseteq Listed(n, u)
  <2>1. u = Shifted(n, w, p, q, t)
    BY DEF Shifted
  <2> HIDE DEF u
  <2>2. Listed(n, w) \subseteq Listed(n, Shifted(n, w, p, q, t))
    BY <1>1, ListedMoved
  <2>. QED BY <2>1, <2>2
<1> HIDE DEF u, all
<1>9. Became(View(e), View(d), all, 0)
  BY <1>2, <1>7, <1>8, StaysSeen
<1>. QED BY <1>6, <1>9 DEF MovedTo, all, rows

LEMMA PlaceIn ==
    ASSUME NEW e, NEW n, NEW w, Listing(e, n, w), NEW l \in Listed(n, w) \cup {BOF}
    PROVE  PlaceOf(e, l) \in 0 .. n
<1>1. Chained(e.next, e.prev, n, w)
  BY DEF Listing
<1>2. PICK t \in 0 .. n : l = w[t]
  BY <1>1, PlaceFound
<1>3. t \in 0 .. n + 1
  BY <1>1 DEF Chained
<1>4. PlaceOf(e, w[t]) = t
  BY <1>1, <1>3, PlaceIs
<1>. QED BY <1>2, <1>4

\* Only the current line changed.
LEMMA GoSeen ==
    ASSUME NEW e, NEW n, NEW w, Listing(e, n, w), NEW d, d.next = e.next, d.text = e.text,
           d.prev = e.prev, d.marks = e.marks, d.cur \in Listed(n, w) \cup {BOF}
    PROVE  \E i \in 0 .. n : Went(View(e), View(d), i)
<1>1. \A l : PlaceOf(d, l) = PlaceOf(e, l)
  BY DEF PlaceOf, Follow
<1>2. Chained(e.next, e.prev, n, w)
  BY DEF Listing
<1>3. View(e).text = TextsOf(e, n, w) /\ View(e).marks = MarksOf(e)
  BY <1>2, ViewIs
<1>4. View(d).text = TextsOf(d, n, w) /\ View(d).marks = MarksOf(d) /\ View(d).at = PlaceOf(d, d.cur)
  BY <1>2, ViewIs
<1>5. TextsOf(d, n, w) = TextsOf(e, n, w) /\ MarksOf(d) = MarksOf(e)
  BY <1>1 DEF TextsOf, MarksOf
<1>6. PlaceOf(e, d.cur) \in 0 .. n
  BY PlaceIn
<1>7. Went(View(e), View(d), PlaceOf(e, d.cur))
  BY <1>1, <1>3, <1>4, <1>5 DEF Went
<1>. QED BY <1>6, <1>7

LEMMA MarkSeen ==
    ASSUME NEW e, NEW n, NEW w, Listing(e, n, w), NEW k \in MarkNos,
           NEW l, ~Own(e, l) \/ l \in Listed(n, w) \cup {BOF}, NEW d, d = SetLineMark(e, l, k)
    PROVE  View(d) = View(e) \/ \E i \in 0 .. n : Marked(View(e), View(d), k, i)
<1>1. CASE l # NULL /\ ~Own(e, l)
  BY <1>1 DEF SetLineMark
<1>2. CASE ~(l # NULL /\ ~Own(e, l))
  <2>1. Chained(e.next, e.prev, n, w) /\ Shaped(e) /\ n \in Nat
    BY DEF Listing, Chained
  <2>2. /\ d.next = e.next /\ d.prev = e.prev /\ d.text = e.text /\ d.cur = e.cur
        /\ d.marks = [e.marks EXCEPT ![k] = l]
    BY <1>2, <2>1 DEF SetLineMark, Shaped, Fields
  <2> DEFINE i == IF l = NULL THEN 0 ELSE PlaceOf(e, l)
  <2>3. i \in 0 .. n
    <3>1. CASE l = NULL
      BY <2>1, <3>1
    <3>2. CASE l # NULL
      <4>1. l \in Listed(n, w) \cup {BOF}
        BY <1>2, <3>2
      <4>2. PlaceOf(e, l) \in 0 .. n
        BY <4>1, PlaceIn
      <4>. QED BY <3>2, <4>2
    <3>. QED BY <3>1, <3>2
  <2>4. \A x : PlaceOf(d, x) = PlaceOf(e, x)
    BY <2>2 DEF PlaceOf, Follow
  <2>5. View(e).text = TextsOf(e, n, w) /\ View(e).marks = MarksOf(e) /\ View(e).at = PlaceOf(e, e.cur)
    BY <2>1, ViewIs
  <2>6. View(d).text = TextsOf(d, n, w) /\ View(d).marks = MarksOf(d) /\ View(d).at = PlaceOf(d, d.cur)
    <3>1. Chained(d.next, d.prev, n, w)
      BY <2>1, <2>2
    <3>. QED BY <3>1, ViewIs
  <2>7. TextsOf(d, n, w) = TextsOf(e, n, w)
    BY <2>2 DEF TextsOf
  <2>8. MarksOf(d) = [MarksOf(e) EXCEPT ![k] = i]
    <3>1. ASSUME NEW h \in MarkNos
          PROVE  (IF d.marks[h] = NULL THEN 0 ELSE PlaceOf(d, d.marks[h])) =
                 IF h = k THEN i ELSE IF e.marks[h] = NULL THEN 0 ELSE PlaceOf(e, e.marks[h])
      <4>1. d.marks[h] = IF h = k THEN l ELSE e.marks[h]
        BY <2>1, <2>2 DEF Shaped
      <4>. QED BY <2>4, <4>1
    <3> HIDE DEF i
    <3>. QED BY <3>1 DEF MarksOf
  <2>9. Marked(View(e), View(d), k, i)
    BY <2>2, <2>4, <2>5, <2>6, <2>7, <2>8 DEF Marked
  <2>. QED BY <2>3, <2>9
<1>. QED BY <1>1, <1>2

-----------------------------------------------------------------------------
(* One step of TextList, and what each call makes of what is seen *)

\* edIns: the new line becomes the current one.
InsertedHere(u, x, txt) ==
    /\ x.text = Doc!InsertAt(u.text, u.at + 1, txt)
    /\ x.marks = [k \in MarkNos |-> Doc!Where(Doc!Splice(RowsOf(u), u.at, <<Doc!New(txt)>>), u.marks[k])]
    /\ x.at = u.at + 1

\* What is seen of an editor may become x in one step of TextList.
Inputs == Typed \cup ToSet(File)
MayGo(u, x) == \E i \in 0 .. Len(u.text) : Went(u, x, i)
MayMark(u, x) == \E k \in MarkNos : \E i \in 0 .. Len(u.text) : Marked(u, x, k, i)
MayInsert(u, x) ==
    \/ \E txt \in Inputs : InsertedHere(u, x, txt)
    \/ \E p \in 0 .. Len(u.text) : \E txt \in Inputs : InsertedAt(u, x, p, txt)
MayUpdate(u, x) == \E i \in 1 .. Len(u.text) : \E txt \in Inputs : Updated(u, x, i, txt)
MayJoin(u, x) ==
    \E i \in 1 .. Len(u.text) - 1 : \E k \in 0 .. WorkLrecl :
        /\ k =< Len(u.text[i + 1]) /\ Len(u.text[i]) + k =< WorkLrecl
        /\ JoinedTo(u, x, i, u.text[i] \o SubSeq(u.text[i + 1], 1, k))
MaySplit(u, x) ==
    \E i \in 1 .. Len(u.text) : \E pos \in 0 .. WorkLrecl :
        /\ pos < Len(u.text[i])
        /\ \/ pos = 0 /\ InsertedAt(u, x, i - 1, <<>>)
           \/ /\ pos # 0
              /\ SplitAt(u, x, i, SubSeq(u.text[i], 1, pos), SubSeq(u.text[i], pos + 1, Len(u.text[i])))
MayDelete(u, x) ==
    \E p, q \in 1 .. Len(u.text) : p =< q /\ Deleted(u, x, p, q)
MayCopy(u, x) ==
    \E p, q \in 1 .. Len(u.text) : \E t \in 0 .. Len(u.text) : p =< q /\ CopiedTo(u, x, p, q, t)
MayMove(u, x) ==
    \E p, q \in 1 .. Len(u.text) : /\ p =< q
        /\ \E t \in 0 .. Len(u.text) - (q - p + 1) : MovedTo(u, x, p, q, t)

May(u, x) ==
    \/ x = u
    \/ MayGo(u, x) \/ MayMark(u, x) \/ MayInsert(u, x) \/ MayUpdate(u, x) \/ MayJoin(u, x)
    \/ MaySplit(u, x) \/ MayDelete(u, x) \/ MayCopy(u, x) \/ MayMove(u, x)

\* The document is what is seen of the editor.
DocIsSeen == doc = View(r)

\* The rows of the text are records, and the row in front of a deleted one stays.
LEMMA RowBefore ==
    ASSUME NEW u, NEW n \in Nat, DOMAIN u.text = 1 .. n, u.text \in [1 .. n -> Texts],
           NEW i \in 1 .. n, i + 1 \in 1 .. n
    PROVE  Less(RowsOf(u), i + 1, i + 1)[i].txt = u.text[i]
<1> DEFINE rows == RowsOf(u)
           j == i + 1
<1>1. rows \in [1 .. n -> Row] /\ \A k \in 1 .. n : rows[k].txt = u.text[k]
  BY DEF RowsOf, Row
<1>2. j \in 1 .. n /\ j =< j /\ i < j /\ i \in 1 .. n - (j - j + 1)
  OBVIOUS
<1> HIDE DEF rows, j
<1>3. \A p, q \in 1 .. n : p =< q => SubSeq(rows, 1, p - 1) \o SubSeq(rows, q + 1, Len(rows)) = Trimmed(n, rows, p, q)
  BY <1>1, WithoutIs
<1>4. Less(rows, j, j) = Trimmed(n, rows, j, j)
  BY <1>2, <1>3 DEF Less
<1>5. Less(rows, j, j)[i] = rows[i]
  BY <1>2, <1>4 DEF Trimmed
<1>. QED BY <1>1, <1>5 DEF rows, j

LEMMA StepIsAllowed ==
    ASSUME May(doc, doc'), NEW n \in Nat, DOMAIN doc.text = 1 .. n, doc.text \in [1 .. n -> Texts]
    PROVE  Doc!Next \/ UNCHANGED <<doc.text, doc.at, doc.marks>>
<1>1. Doc!Rows = RowsOf(doc) /\ Len(doc.text) = n
  BY DEF Doc!Rows, RowsOf
<1>2. CASE doc' = doc
  BY <1>2
<1>3. CASE MayGo(doc, doc')
  <2>1. PICK i \in 0 .. n : Went(doc, doc', i)
    BY <1>1, <1>3 DEF MayGo
  <2>2. Doc!Go(i)
    BY <2>1 DEF Went, Doc!Go
  <2>. QED BY <1>1, <2>2 DEF Doc!Next, Doc!Places
<1>4. CASE MayMark(doc, doc')
  <2>1. PICK k \in MarkNos, i \in 0 .. n : Marked(doc, doc', k, i)
    BY <1>1, <1>4 DEF MayMark
  <2>2. Doc!Mark(k, i)
    BY <2>1 DEF Marked, Doc!Mark
  <2>. QED BY <1>1, <2>2 DEF Doc!Next, Doc!Places
<1>5. CASE MayInsert(doc, doc')
  <2>1. CASE \E txt \in Inputs : InsertedHere(doc, doc', txt)
    <3>1. PICK txt \in Inputs : InsertedHere(doc, doc', txt)
      BY <2>1
    <3>2. Doc!Insert(txt)
      BY <1>1, <3>1 DEF InsertedHere, Doc!Insert
    <3>. QED BY <1>1, <3>2 DEF Doc!Next, Inputs
  <2>2. CASE \E p \in 0 .. n : \E txt \in Inputs : InsertedAt(doc, doc', p, txt)
    <3>1. PICK p \in 0 .. n, txt \in Inputs : InsertedAt(doc, doc', p, txt)
      BY <2>2
    <3>2. Doc!InsertAfter(p, txt)
      BY <1>1, <3>1 DEF InsertedAt, Became, Doc!InsertAfter, Doc!Become
    <3>. QED BY <1>1, <3>2 DEF Doc!Next, Inputs, Doc!Places
  <2>. QED BY <1>1, <1>5, <2>1, <2>2 DEF MayInsert
<1>6. CASE MayUpdate(doc, doc')
  <2>1. PICK i \in 1 .. n, txt \in Inputs : Updated(doc, doc', i, txt)
    BY <1>1, <1>6 DEF MayUpdate
  <2>2. Doc!Update(i, txt)
    BY <1>1, <2>1 DEF Updated, Reworded, Became, Doc!Update, Doc!Become
  <2>. QED BY <2>2 DEF Doc!Next, Inputs
<1>7. CASE MayJoin(doc, doc')
  <2>1. PICK i \in 1 .. n - 1, k \in 0 .. WorkLrecl :
          /\ k =< Len(doc.text[i + 1]) /\ Len(doc.text[i]) + k =< WorkLrecl
          /\ JoinedTo(doc, doc', i, doc.text[i] \o SubSeq(doc.text[i + 1], 1, k))
    BY <1>1, <1>7 DEF MayJoin
  <2>2. i \in 1 .. n /\ i + 1 \in 1 .. n
    OBVIOUS
  <2> DEFINE rest == Less(RowsOf(doc), i + 1, i + 1)
  <2>3. rest[i].txt = doc.text[i] /\ Doc!Without(i + 1, i + 1) = rest
    <3>1. rest[i].txt = doc.text[i]
      BY <2>2, RowBefore
    <3>. QED BY <1>1, <3>1 DEF Doc!Without, Less
  <2>4. Doc!Join(i, k)
    <3>1. Became(doc, doc', [rest EXCEPT ![i].txt = doc.text[i] \o SubSeq(doc.text[i + 1], 1, k)], i)
      BY <2>1 DEF JoinedTo, Reworded
    <3> HIDE DEF rest
    <3>2. [rest EXCEPT ![i].txt = @ \o SubSeq(doc.text[i + 1], 1, k)]
          = [rest EXCEPT ![i].txt = doc.text[i] \o SubSeq(doc.text[i + 1], 1, k)]
      BY <2>3
    <3>. QED BY <2>3, <3>1, <3>2 DEF Became, Doc!Join, Doc!Become
  <2>. QED BY <1>1, <2>1, <2>4 DEF Doc!Next
<1>8. CASE MaySplit(doc, doc')
  <2>1. PICK i \in 1 .. n, pos \in 0 .. WorkLrecl :
          /\ pos < Len(doc.text[i])
          /\ \/ pos = 0 /\ InsertedAt(doc, doc', i - 1, <<>>)
             \/ /\ pos # 0
                /\ SplitAt(doc, doc', i, SubSeq(doc.text[i], 1, pos),
                           SubSeq(doc.text[i], pos + 1, Len(doc.text[i])))
    BY <1>1, <1>8 DEF MaySplit
  <2>2. Doc!Split(i, pos)
    <3>1. CASE pos = 0
      BY <1>1, <2>1, <3>1 DEF InsertedAt, Became, Doc!Split, Doc!InsertAfter, Doc!Become
    <3>2. CASE pos # 0
      <4>1. Became(doc, doc', Doc!Splice([RowsOf(doc) EXCEPT ![i].txt = SubSeq(doc.text[i], 1, pos)], i,
                      <<Doc!New(SubSeq(doc.text[i], pos + 1, Len(doc.text[i])))>>), 0)
        BY <2>1, <3>2 DEF SplitAt, Reworded
      <4>2. RowsOf(doc)[i].txt = doc.text[i]
        BY DEF RowsOf
      <4>3. [RowsOf(doc) EXCEPT ![i].txt = SubSeq(@, 1, pos)]
            = [RowsOf(doc) EXCEPT ![i].txt = SubSeq(doc.text[i], 1, pos)]
        BY <4>2
      <4>. QED BY <1>1, <3>2, <4>1, <4>3 DEF Became, Doc!Split, Doc!Become
    <3>. QED BY <3>1, <3>2
  <2>. QED BY <2>1, <2>2 DEF Doc!Next
<1>9. CASE MayDelete(doc, doc')
  <2>1. PICK p \in 1 .. n, q \in 1 .. n : p =< q /\ Deleted(doc, doc', p, q)
    BY <1>1, <1>9 DEF MayDelete
  <2>2. Doc!DeleteRange(p, q)
    BY <1>1, <2>1 DEF Deleted, Less, Became, Doc!DeleteRange, Doc!Without, Doc!Become
  <2>. QED BY <2>1, <2>2 DEF Doc!Next
<1>10. CASE MayCopy(doc, doc')
  <2>1. PICK p \in 1 .. n, q \in 1 .. n, t \in 0 .. n : p =< q /\ CopiedTo(doc, doc', p, q, t)
    BY <1>1, <1>10 DEF MayCopy
  <2>2. Doc!CopyRange(p, q, t)
    BY <1>1, <2>1 DEF CopiedTo, Became, Doc!CopyRange, Doc!Become
  <2>. QED BY <1>1, <2>1, <2>2 DEF Doc!Next, Doc!Places
<1>11. CASE MayMove(doc, doc')
  <2>1. PICK p \in 1 .. n, q \in 1 .. n : /\ p =< q
          /\ \E t \in 0 .. n - (q - p + 1) : MovedTo(doc, doc', p, q, t)
    BY <1>1, <1>11 DEF MayMove
  <2>2. PICK t \in 0 .. n - (q - p + 1) : MovedTo(doc, doc', p, q, t)
    BY <2>1
  <2> DEFINE to == IF t < p THEN t ELSE t + (q - p + 1)
  <2>3. to \in (0 .. n) \ (p .. q) /\ (IF to < p THEN to ELSE to - (q - p + 1)) = t
    BY <2>1
  <2> HIDE DEF to
  <2>4. Doc!MoveRange(p, q, to)
    BY <1>1, <2>2, <2>3 DEF MovedTo, Less, Became, Doc!MoveRange, Doc!Without, Doc!Become
  <2>. QED BY <1>1, <2>1, <2>3, <2>4 DEF Doc!Next, Doc!Places
<1>. QED BY <1>2, <1>3, <1>4, <1>5, <1>6, <1>7, <1>8, <1>9, <1>10, <1>11 DEF May

LEMMA SeenFacts ==
    ASSUME NEW e, NEW n, NEW w, Listing(e, n, w)
    PROVE  /\ n \in Nat /\ Len(View(e).text) = n /\ DOMAIN View(e).text = 1 .. n
           /\ View(e).text \in [1 .. n -> Texts]
           /\ \A i \in 1 .. n : View(e).text[i] = e.text[w[i]] /\ w[i] \in Lines
<1>1. Chained(e.next, e.prev, n, w) /\ e.text \in [Lines -> Texts]
  BY DEF Listing, Shaped
<1>2. n \in Nat /\ \A i \in 1 .. n : w[i] \in Lines
  BY <1>1 DEF Chained
<1>3. View(e).text = TextsOf(e, n, w) /\ DOMAIN View(e).text = 1 .. n /\ Len(View(e).text) = n
  BY <1>1, ViewIs
<1>. QED BY <1>1, <1>2, <1>3 DEF TextsOf

\* The place of a line of the list.
LEMMA PlaceOfMember ==
    ASSUME NEW e, NEW n, NEW w, NEW m, NEW f, Sound(e, n, w, m, f, {}), NEW l \in Members(e)
    PROVE  \E i \in 1 .. n : l = w[i]
<1>1. Members(e) = Listed(n, w)
  BY SoundIsListing
<1>. QED BY <1>1 DEF Listed

LEMMA InsertAfterMay ==
    ASSUME NEW e, NEW starved0, NEW n, NEW w, NEW m, NEW f, Sound(e, n, w, m, f, {}),
           AllThere(starved0, n, w, m, f, {}), NEW l \in Members(e) \cup {NULL}, NEW txt \in Typed,
           NEW d, d = InsertLineAfter(e, l, txt)
    PROVE  May(View(e), View(d))
<1>1. Listing(e, n, w) /\ n \in Nat /\ Chained(e.next, e.prev, n, w) /\ txt \in Texts
  BY SoundIsListing, EditorAssumption DEF Listing
<1>2. PICK t \in 0 .. n : (IF l = NULL THEN BOF ELSE l) = w[t]
  <2>1. CASE l = NULL
    BY <1>1, <2>1 DEF Chained
  <2>2. CASE l # NULL
    <3>1. PICK i \in 1 .. n : l = w[i]
      BY <2>2, PlaceOfMember
    <3>. QED BY <1>1, <2>2, <3>1
  <2>. QED BY <2>1, <2>2
<1>3. (d.oom => View(d) = View(e)) /\ (~d.oom => InsertedAt(View(e), View(d), t, txt))
  BY <1>1, <1>2, InsertSeen
<1>4. Len(View(e).text) = n
  BY <1>1, SeenFacts
<1>5. InsertedAt(View(e), View(d), t, txt) => MayInsert(View(e), View(d))
  BY <1>4 DEF MayInsert, Inputs
<1>. QED BY <1>3, <1>5 DEF May

LEMMA InsertBeforeMay ==
    ASSUME NEW e, NEW starved0, NEW n, NEW w, NEW m, NEW f, Sound(e, n, w, m, f, {}),
           AllThere(starved0, n, w, m, f, {}), NEW l \in Members(e) \cup {NULL}, NEW txt \in Typed,
           NEW d, d = InsertLineBefore(e, l, txt)
    PROVE  May(View(e), View(d))
<1>1. Listing(e, n, w) /\ n \in Nat /\ Chained(e.next, e.prev, n, w) /\ txt \in Texts /\ w[0] = BOF
  BY SoundIsListing, EditorAssumption DEF Listing, Chained
<1>2. PICK t \in 0 .. n : (d.oom => View(d) = View(e)) /\ (~d.oom => InsertedAt(View(e), View(d), t, txt))
  <2>1. CASE l = NULL
    <3>1. d = InsertLineAfter(e, BOF, txt) /\ BOF # NULL /\ 0 \in 0 .. n
      BY <1>1, <2>1, Guards DEF InsertLineBefore
    <3> DEFINE at == BOF
               t == 0
    <3>2. d = InsertLineAfter(e, at, txt) /\ (IF at = NULL THEN BOF ELSE at) = w[t] /\ t \in 0 .. n
      BY <1>1, <3>1
    <3> HIDE DEF at, t
    <3>3. (d.oom => View(d) = View(e)) /\ (~d.oom => InsertedAt(View(e), View(d), t, txt))
      BY <1>1, <3>2, InsertSeen
    <3>. QED BY <3>2, <3>3
  <2>2. CASE l # NULL
    <3>1. PICK i \in 1 .. n : l = w[i]
      BY <2>2, PlaceOfMember
    <3>2. d = InsertLineBefore(e, w[i], txt)
      BY <3>1
    <3>3. (d.oom => View(d) = View(e)) /\ (~d.oom => InsertedAt(View(e), View(d), i - 1, txt))
      BY <1>1, <3>2, InsertBeforeSeen
    <3>4. i - 1 \in 0 .. n
      BY <1>1
    <3>. QED BY <3>3, <3>4
  <2>. QED BY <2>1, <2>2
<1>4. Len(View(e).text) = n
  BY <1>1, SeenFacts
<1>5. InsertedAt(View(e), View(d), t, txt) => MayInsert(View(e), View(d))
  BY <1>4 DEF MayInsert, Inputs
<1>. QED BY <1>2, <1>5 DEF May

LEMMA InsertMay ==
    ASSUME NEW e, NEW starved0, NEW n, NEW w, NEW m, NEW f, Sound(e, n, w, m, f, {}),
           AllThere(starved0, n, w, m, f, {}), NEW txt \in Typed, NEW d, d = InsertLine(e, txt)
    PROVE  May(View(e), View(d))
<1>1. txt \in Texts
  BY EditorAssumption
<1>2. \/ View(d) = View(e)
      \/ /\ \A k \in MarkNos : View(d).marks[k] =
                Doc!Where(Doc!Splice(RowsOf(View(e)), View(e).at, <<Doc!New(txt)>>), View(e).marks[k])
         /\ View(d).marks = [k \in MarkNos |-> View(d).marks[k]]
         /\ View(d).text = Doc!InsertAt(View(e).text, View(e).at + 1, txt)
         /\ View(d).at = View(e).at + 1
  BY <1>1, InsertHereSeen
<1>3. CASE View(d) = View(e)
  BY <1>3 DEF May
<1>4. CASE View(d) # View(e)
  <2> DEFINE u == View(e)
             x == View(d)
  <2>1. /\ \A k \in MarkNos : x.marks[k] =
                Doc!Where(Doc!Splice(RowsOf(u), u.at, <<Doc!New(txt)>>), u.marks[k])
        /\ x.marks = [k \in MarkNos |-> x.marks[k]]
        /\ x.text = Doc!InsertAt(u.text, u.at + 1, txt)
        /\ x.at = u.at + 1
    BY <1>2, <1>4
  <2> HIDE DEF u, x
  <2>2. InsertedHere(u, x, txt)
    BY <2>1 DEF InsertedHere
  <2>3. MayInsert(u, x)
    BY <2>2 DEF MayInsert, Inputs
  <2>. QED BY <2>3 DEF May, u, x
<1>. QED BY <1>3, <1>4

LEMMA DeleteMay ==
    ASSUME NEW e, NEW n, NEW w, NEW m, NEW f, Sound(e, n, w, m, f, {}), NEW l \in Members(e)
    PROVE  May(View(e), View(DeleteLine(e, l)))
<1>1. Listing(e, n, w)
  BY SoundIsListing
<1>2. PICK p \in 1 .. n : l = w[p]
  BY PlaceOfMember
<1>3. Deleted(View(e), View(DeleteLine(e, l)), p, p)
  BY <1>1, <1>2, DeleteSeen
<1>4. Len(View(e).text) = n /\ p =< p
  BY <1>1, SeenFacts
<1>. QED BY <1>3, <1>4 DEF May, MayDelete

LEMMA DeleteRangeMay ==
    ASSUME NEW e, NEW starved0, NEW n, NEW w, NEW m, NEW f, Sound(e, n, w, m, f, {}),
           AllThere(starved0, n, w, m, f, {}), NEW from \in Holdable(e), NEW to \in Holdable(e)
    PROVE  May(View(e), View(DeleteLineRange(e, from, to)))
<1>1. \/ View(DeleteLineRange(e, from, to)) = View(e)
      \/ \E p, q \in 1 .. n : p =< q /\ Deleted(View(e), View(DeleteLineRange(e, from, to)), p, q)
  BY DeleteRangeSeen
<1>2. Listing(e, n, w)
  BY SoundIsListing
<1>3. Len(View(e).text) = n
  BY <1>2, SeenFacts
<1>. QED BY <1>1, <1>3 DEF May, MayDelete

LEMMA UpdateMay ==
    ASSUME NEW e, NEW n, NEW w, NEW m, NEW f, Sound(e, n, w, m, f, {}), NEW l \in Members(e),
           NEW txt \in Typed
    PROVE  May(View(e), View(UpdateLine(e, l, txt)))
<1>1. Listing(e, n, w) /\ txt \in Texts
  BY SoundIsListing, EditorAssumption
<1>2. PICK p \in 1 .. n : l = w[p]
  BY PlaceOfMember
<1>3. Updated(View(e), View(UpdateLine(e, l, txt)), p, txt)
  BY <1>1, <1>2, UpdateSeen
<1>4. Len(View(e).text) = n
  BY <1>1, SeenFacts
<1>. QED BY <1>3, <1>4 DEF May, MayUpdate, Inputs

LEMMA CopyMay ==
    ASSUME NEW e, NEW starved0, NEW n, NEW w, NEW m, NEW f, Sound(e, n, w, m, f, {}),
           AllThere(starved0, n, w, m, f, {}), NEW from \in Holdable(e), NEW to \in Holdable(e),
           NEW trg \in Holdable(e) \cup {NULL}, NEW before,
           NEW d, d = CopyLineRange(e, from, to, e, trg, before)
    PROVE  May(View(e), View(d))
<1>1. \/ View(d) = View(e)
      \/ \E p, q \in 1 .. n : \E t \in 0 .. n : p =< q /\ CopiedTo(View(e), View(d), p, q, t)
  BY CopySeen
<1>2. Listing(e, n, w)
  BY SoundIsListing
<1>3. Len(View(e).text) = n
  BY <1>2, SeenFacts
<1>. QED BY <1>1, <1>3 DEF May, MayCopy

LEMMA MoveMay ==
    ASSUME NEW e, NEW starved0, NEW n, NEW w, NEW m, NEW f, Sound(e, n, w, m, f, {}),
           AllThere(starved0, n, w, m, f, {}), NEW from \in Holdable(e), NEW to \in Holdable(e),
           NEW trg \in Holdable(e) \cup {NULL}, NEW before, ~IsInLineRange(e, trg, from, to),
           NEW d, d = MoveWithin(e, from, to, trg, before)
    PROVE  May(View(e), View(d))
<1>1. \/ d = e
      \/ \E p, q \in 1 .. n : p =< q /\ \E t \in 0 .. n - (q - p + 1) : Moved(e, n, w, p, q, t, d)
  BY MoveIs
<1>2. Listing(e, n, w)
  BY SoundIsListing
<1>3. Len(View(e).text) = n
  BY <1>2, SeenFacts
<1>4. ASSUME NEW p \in 1 .. n, NEW q \in 1 .. n, p =< q, NEW t \in 0 .. n - (q - p + 1),
             Moved(e, n, w, p, q, t, d)
      PROVE  MovedTo(View(e), View(d), p, q, t)
  BY <1>2, <1>4, MoveSeen
<1>5. View(d) = View(e) \/ MayMove(View(e), View(d))
  BY <1>1, <1>3, <1>4 DEF MayMove
<1>. QED BY <1>5 DEF May

LEMMA GoMay ==
    ASSUME NEW e, NEW n, NEW w, NEW m, NEW f, Sound(e, n, w, m, f, {}), NEW d, Moving(e, d)
    PROVE  May(View(e), View(d))
<1>1. Listing(e, n, w) /\ Members(e) = Listed(n, w)
  BY SoundIsListing
<1>2. PICK l \in Listed(n, w) \cup {BOF}, no \in Int : d = [e EXCEPT !.cur = l, !.curNo = no]
  BY <1>1 DEF Moving
<1>3. d.next = e.next /\ d.text = e.text /\ d.prev = e.prev /\ d.marks = e.marks /\ d.cur = l
  <2>1. Shaped(e)
    BY <1>1 DEF Listing
  <2>. QED BY <1>2, <2>1 DEF Shaped, Fields
<1>4. d.cur \in Listed(n, w) \cup {BOF}
  BY <1>3
<1>5. \E i \in 0 .. n : Went(View(e), View(d), i)
  BY <1>1, <1>3, <1>4, GoSeen
<1>6. Len(View(e).text) = n
  BY <1>1, SeenFacts
<1>. QED BY <1>5, <1>6 DEF May, MayGo

LEMMA MarkMay ==
    ASSUME NEW e, NEW n, NEW w, NEW m, NEW f, Sound(e, n, w, m, f, {}), NEW k \in MarkNos,
           NEW l, ~Own(e, l) \/ l \in Members(e) \cup {BOF}, NEW d, d = SetLineMark(e, l, k)
    PROVE  May(View(e), View(d))
<1>1. Listing(e, n, w) /\ Members(e) = Listed(n, w)
  BY SoundIsListing
<1>2. View(d) = View(e) \/ \E i \in 0 .. n : Marked(View(e), View(d), k, i)
  <2>1. ~Own(e, l) \/ l \in Listed(n, w) \cup {BOF}
    BY <1>1
  <2>. QED BY <1>1, <2>1, MarkSeen
<1>3. Len(View(e).text) = n
  BY <1>1, SeenFacts
<1>. QED BY <1>2, <1>3 DEF May, MayMark

\* A text that takes in the front of another.
LEMMA JoinedText ==
    ASSUME NEW s \in Texts, NEW more \in Texts, NEW k \in 0 .. WorkLrecl, k =< Len(more),
           Len(s) + k =< WorkLrecl
    PROVE  s \o SubSeq(more, 1, k) \in Texts
<1> DEFINE kept == SubSeq(more, 1, k)
<1>1. /\ s \in Seq(Tokens) /\ Len(s) \in 0 .. WorkLrecl
      /\ Len(more) \in 0 .. WorkLrecl /\ WorkLrecl \in Nat
  BY TextIs, EditorAssumption
<1>2. k \in 0 .. Len(more) /\ 1 \in 1 .. Len(more) + 1
  BY <1>1
<1>3. kept \in Seq(Tokens) /\ Len(kept) = IF 1 =< k THEN k - 1 + 1 ELSE 0
  <2>1. \A b \in 0 .. Len(more) :
            /\ SubSeq(more, 1, b) \in Seq(Tokens)
            /\ Len(SubSeq(more, 1, b)) = IF 1 =< b THEN b - 1 + 1 ELSE 0
    BY <1>2, PartIsText
  <2>. QED BY <1>2, <2>1
<1>4. Len(kept) = k
  BY <1>1, <1>3
<1> HIDE DEF kept
<1>5. s \o kept \in Seq(Tokens) /\ Len(s \o kept) = Len(s) + Len(kept)
  BY <1>1, <1>3, ConcatProperties
<1>6. Len(s \o kept) =< WorkLrecl
  BY <1>4, <1>5
<1>7. s \o kept \in Texts
  BY <1>5, <1>6, IsText
<1>. QED BY <1>7 DEF kept

LEMMA JoinMay ==
    ASSUME NEW e, NEW n, NEW w, NEW m, NEW f, Sound(e, n, w, m, f, {}), NEW l \in Members(e),
           NEW pos \in 0 .. WorkLrecl, pos >= Len(e.text[l]), NEW force, NEW d, d = Join(e, l, pos, force)
    PROVE  May(View(e), View(d))
<1>1. Listing(e, n, w) /\ Chained(e.next, e.prev, n, w)
  BY SoundIsListing DEF Listing
<1>2. PICK i \in 1 .. n : l = w[i]
  BY PlaceOfMember
<1>3. /\ n \in Nat /\ Len(View(e).text) = n /\ View(e).text \in [1 .. n -> Texts]
      /\ \A j \in 1 .. n : View(e).text[j] = e.text[w[j]]
  BY <1>1, SeenFacts
<1> DEFINE follower == e.next[l]
           more == e.text[follower]
           room == WorkLrecl - IF pos < WorkLrecl THEN pos ELSE Len(e.text[l])
           some == IF room < Len(more) THEN room ELSE Len(more)
           kept == SubSeq(more, 1, some)
           txt == e.text[l] \o kept
<1>4. follower = w[i + 1] /\ (follower = EOF <=> i = n)
  <2>1. i \in 0 .. n + 1 /\ i \in 0 .. n /\ i + 1 \in 0 .. n + 1 /\ n + 1 \in 0 .. n + 1 /\ w[n + 1] = EOF
    BY <1>1, <1>3 DEF Chained
  <2>2. e.next[w[i]] = w[i + 1] /\ (w[i + 1] = w[n + 1] => i + 1 = n + 1)
    BY <1>1, <2>1 DEF Chained
  <2>. QED BY <1>2, <1>3, <2>1, <2>2
<1>5. CASE follower = EOF \/ (room < Len(more) /\ ~force)
  BY <1>5 DEF Join, May
<1>6. CASE ~(follower = EOF \/ (room < Len(more) /\ ~force))
  <2>1. i \in 1 .. n - 1 /\ i + 1 \in 1 .. n
    BY <1>3, <1>4, <1>6
  <2>2. View(e).text[i] = e.text[l] /\ View(e).text[i + 1] = more /\ e.text[l] \in Texts /\ more \in Texts
    BY <1>2, <1>3, <1>4, <2>1
  <2>3. d = DeleteLine(Retyped(e, l, txt), follower)
    BY <1>6 DEF Join, Retyped
  <2>4. /\ Len(e.text[l]) \in 0 .. WorkLrecl /\ Len(more) \in 0 .. WorkLrecl /\ WorkLrecl \in Nat
    BY <2>2, TextIs, EditorAssumption
  <2> HIDE DEF more, follower
  <2>5. some \in 0 .. WorkLrecl /\ some =< Len(more) /\ Len(e.text[l]) + some =< WorkLrecl
    <3>1. room \in 0 .. WorkLrecl /\ Len(e.text[l]) + room =< WorkLrecl
      BY <2>4
    <3> DEFINE a == Len(e.text[l])
               b == Len(more)
    <3>2. a \in Nat /\ b \in 0 .. WorkLrecl /\ WorkLrecl \in Nat /\ room \in 0 .. WorkLrecl
          /\ a + room =< WorkLrecl
      BY <2>4, <3>1
    <3> HIDE DEF room, kept, txt, a, b
    <3>3. some = IF room < b THEN room ELSE b
      BY DEF b
    <3> HIDE DEF some
    <3>4. some \in 0 .. WorkLrecl /\ some =< b /\ a + some =< WorkLrecl
      BY <3>2, <3>3
    <3>. QED BY <3>4 DEF a, b
  <2> HIDE DEF some, room
  <2>6. txt \in Texts
    BY <2>2, <2>5, JoinedText
  <2> HIDE DEF txt
  <2> DEFINE e1 == Retyped(e, w[i], txt)
  <2>7. e1 = Retyped(e, w[i], txt) /\ d = DeleteLine(e1, w[i + 1])
    BY <1>2, <1>4, <2>3
  <2> HIDE DEF e1
  <2>8. JoinedTo(View(e), View(d), i, txt)
    BY <1>1, <2>1, <2>6, <2>7, JoinSeen
  <2>9. JoinedTo(View(e), View(d), i, View(e).text[i] \o SubSeq(View(e).text[i + 1], 1, some))
    BY <2>2, <2>8 DEF txt
  <2>10. MayJoin(View(e), View(d))
    BY <1>3, <2>1, <2>2, <2>5, <2>9 DEF MayJoin
  <2>. QED BY <2>10 DEF May
<1>. QED BY <1>5, <1>6

LEMMA SplitMay ==
    ASSUME NEW e, NEW starved0, NEW n, NEW w, NEW m, NEW f, Sound(e, n, w, m, f, {}),
           AllThere(starved0, n, w, m, f, {}), NEW l \in Members(e),
           NEW pos \in 0 .. WorkLrecl, pos < Len(e.text[l]), NEW d, d = Split(e, l, pos)
    PROVE  May(View(e), View(d))
<1> DEFINE s == e.text[l]
           tail == SubSeq(s, pos + 1, Len(s))
           head == SubSeq(s, 1, pos)
           new == InsertLineAfter(e, l, tail)
<1>1. Listing(e, n, w) /\ Chained(e.next, e.prev, n, w)
  BY SoundIsListing DEF Listing
<1>2. PICK i \in 1 .. n : l = w[i]
  BY PlaceOfMember
<1>3. /\ n \in Nat /\ Len(View(e).text) = n /\ View(e).text \in [1 .. n -> Texts]
      /\ \A j \in 1 .. n : View(e).text[j] = e.text[w[j]]
  BY <1>1, SeenFacts
<1>4. View(e).text[i] = s /\ s \in Texts
  BY <1>2, <1>3
<1>5. pos < Len(s)
  OBVIOUS
<1>7. tail \in Texts /\ head \in Texts
  <2>0. Len(s) \in 0 .. WorkLrecl /\ WorkLrecl \in Nat
    BY <1>4, TextIs, EditorAssumption
  <2> HIDE DEF s
  <2>1. pos + 1 \in 1 .. Len(s) + 1 /\ Len(s) \in 0 .. Len(s)
        /\ 1 \in 1 .. Len(s) + 1 /\ pos \in 0 .. Len(s)
    BY <1>5, <2>0
  <2>2. \A a \in 1 .. Len(s) + 1 : \A b \in 0 .. Len(s) : SubSeq(s, a, b) \in Texts
    BY <1>4, PartIsText
  <2>. QED BY <2>1, <2>2
<1>8. d = IF pos = 0 THEN InsertLineBefore(e, l, <<>>)
          ELSE IF new.oom THEN new ELSE UpdateLine(new, l, head)
  BY DEF Split
<1>9. new = InsertLineAfter(e, l, tail)
  OBVIOUS
<1> HIDE DEF new, s
<1>10. CASE pos = 0
  <2>1. d = InsertLineBefore(e, w[i], <<>>) /\ <<>> \in Texts
    BY <1>2, <1>8, <1>10, TextIs
  <2>2. (d.oom => View(d) = View(e)) /\ (~d.oom => InsertedAt(View(e), View(d), i - 1, <<>>))
    BY <2>1, InsertBeforeSeen
  <2>3. ~d.oom => MaySplit(View(e), View(d))
    BY <1>3, <1>4, <1>5, <1>10, <2>2 DEF MaySplit
  <2>. QED BY <2>2, <2>3 DEF May
<1>11. CASE pos # 0 /\ new.oom
  <2>1. d = new /\ l # NULL
    BY <1>1, <1>2, <1>8, <1>11, Guards DEF Chained
  <2>2. i \in 0 .. n /\ (IF l = NULL THEN BOF ELSE l) = w[i]
    BY <1>2, <1>3, <2>1
  <2> HIDE DEF tail
  <2>3. View(new) = View(e)
    BY <1>7, <1>9, <1>11, <2>2, InsertSeen
  <2>. QED BY <2>1, <2>3 DEF May
<1>12. CASE pos # 0 /\ ~new.oom
  <2>1. d = UpdateLine(new, w[i], head) /\ new = InsertLineAfter(e, w[i], tail)
    BY <1>2, <1>8, <1>9, <1>12
  <2> HIDE DEF tail, head
  <2>2. SplitAt(View(e), View(d), i, head, tail)
    BY <1>7, <1>12, <2>1, SplitSeen
  <2>3. MaySplit(View(e), View(d))
    BY <1>3, <1>4, <1>5, <1>12, <2>2 DEF MaySplit, head, tail
  <2>. QED BY <2>3 DEF May
<1>. QED BY <1>10, <1>11, <1>12

-----------------------------------------------------------------------------
(* What is seen of the editor, from one call to the next *)

\* The flag is not seen.
LEMMA FlagUnseen ==
    ASSUME NEW e, NEW d, d = [e EXCEPT !.oom = FALSE], Shaped(d)
    PROVE  View(d) = View(e)
<1>1. d.next = e.next /\ d.text = e.text /\ d.cur = e.cur /\ d.marks = e.marks
  <2>1. DOMAIN d = Fields
    BY DEF Shaped
  <2>2. DOMAIN e = Fields
    BY <2>1
  <2>. QED BY <2>2 DEF Fields
<1>2. \A l : Follow(d, l) = Follow(e, l)
  BY <1>1 DEF Follow
<1>3. Chain(d) = Chain(e) /\ \A l : PlaceOf(d, l) = PlaceOf(e, l)
  BY <1>1, <1>2 DEF Chain, PlaceOf
<1>4. Content(d) = Content(e)
  <2> DEFINE text(u) == u.text
             lines(u) == Chain(u)
  <2>1. \A u : Content(u) = [i \in DOMAIN lines(u) |-> text(u)[lines(u)[i]]]
    BY DEF Content
  <2>2. text(d) = text(e) /\ lines(d) = lines(e)
    BY <1>1, <1>3
  <2> HIDE DEF text, lines
  <2>3. Content(d) = [i \in DOMAIN lines(e) |-> text(e)[lines(e)[i]]]
    BY <2>1, <2>2, Zenon
  <2>. QED BY <2>1, <2>3, Zenon
<1>. QED BY <1>1, <1>3, <1>4 DEF View

\* Whatever is called, what is seen takes one step of TextList.
LEMMA CallMay ==
    ASSUME IInv, Next, DocIsSeen
    PROVE  doc' = doc \/ May(View(r), doc')
<1>1. PICK n, w, m, f : Sound(r, n, w, m, f, {}) /\ AllThere(starved, n, w, m, f, {})
  BY DEF IInv, Kept, KeptBut
<1>2. Mine = Members(r) /\ Known = Holdable(r)
  BY DEF Mine, Known, Members, Holdable
<1>3. Kept(r, starved)
  BY DEF IInv
<1>5. CASE InsertAfterCall
  <2>1. PICK l \in Members(r) \cup {NULL}, txt \in Typed : Call(InsertLineAfter(r, l, txt))
    BY <1>2, <1>5 DEF InsertAfterCall
  <2>2. May(View(r), View(InsertLineAfter(r, l, txt)))
    BY <1>1, InsertAfterMay
  <2>. QED BY <2>1, <2>2 DEF Call
<1>6. CASE InsertBeforeCall
  <2>1. PICK l \in Members(r) \cup {NULL}, txt \in Typed : Call(InsertLineBefore(r, l, txt))
    BY <1>2, <1>6 DEF InsertBeforeCall
  <2>2. May(View(r), View(InsertLineBefore(r, l, txt)))
    BY <1>1, InsertBeforeMay
  <2>. QED BY <2>1, <2>2 DEF Call
<1>7. CASE InsertCall
  <2>1. PICK txt \in Typed : Call(InsertLine(r, txt))
    BY <1>7 DEF InsertCall
  <2>2. May(View(r), View(InsertLine(r, txt)))
    BY <1>1, InsertMay
  <2>. QED BY <2>1, <2>2 DEF Call
<1>8. CASE DeleteCall
  <2>1. PICK l \in Members(r) : Call(DeleteLine(r, l))
    BY <1>2, <1>8 DEF DeleteCall
  <2>2. May(View(r), View(DeleteLine(r, l)))
    BY <1>1, DeleteMay
  <2>. QED BY <2>1, <2>2 DEF Call
<1>9. CASE UpdateCall
  <2>1. PICK l \in Members(r), txt \in Typed : Call(UpdateLine(r, l, txt))
    BY <1>2, <1>9 DEF UpdateCall
  <2>2. May(View(r), View(UpdateLine(r, l, txt)))
    BY <1>1, UpdateMay
  <2>. QED BY <2>1, <2>2 DEF Call
<1>10. CASE DeleteRangeCall
  <2>1. PICK a \in Holdable(r), b \in Holdable(r) : Call(DeleteLineRange(r, a, b))
    BY <1>2, <1>10 DEF DeleteRangeCall
  <2>2. May(View(r), View(DeleteLineRange(r, a, b)))
    BY <1>1, DeleteRangeMay
  <2>. QED BY <2>1, <2>2 DEF Call
<1>11. CASE CopyRangeCall
  <2>1. PICK a \in Holdable(r), b \in Holdable(r), trg \in Holdable(r) \cup {NULL},
             before \in BOOLEAN : Call(CopyLineRange(r, a, b, r, trg, before))
    BY <1>2, <1>11 DEF CopyRangeCall
  <2> DEFINE new == CopyLineRange(r, a, b, r, trg, before)
  <2>2. new = CopyLineRange(r, a, b, r, trg, before) /\ Call(new)
    BY <2>1
  <2> HIDE DEF new
  <2>3. May(View(r), View(new))
    BY <1>1, <2>2, CopyMay
  <2>. QED BY <2>2, <2>3 DEF Call
<1>12. CASE MoveRangeCall
  <2>1. PICK a \in Holdable(r), b \in Holdable(r), trg \in Holdable(r) \cup {NULL},
             before \in BOOLEAN :
                 ~IsInLineRange(r, trg, a, b) /\ Call(MoveWithin(r, a, b, trg, before))
    BY <1>2, <1>12 DEF MoveRangeCall
  <2> DEFINE new == MoveWithin(r, a, b, trg, before)
  <2>2. new = MoveWithin(r, a, b, trg, before) /\ Call(new)
    BY <2>1
  <2> HIDE DEF new
  <2>3. May(View(r), View(new))
    BY <1>1, <2>1, <2>2, MoveMay
  <2>. QED BY <2>2, <2>3 DEF Call
<1>13. CASE JoinCall
  <2>1. PICK l \in Members(r), pos \in 0 .. WorkLrecl, force \in BOOLEAN :
                 pos >= Len(r.text[l]) /\ Call(Join(r, l, pos, force))
    BY <1>2, <1>13 DEF JoinCall
  <2> DEFINE new == Join(r, l, pos, force)
  <2>2. new = Join(r, l, pos, force) /\ Call(new)
    BY <2>1
  <2> HIDE DEF new
  <2>3. May(View(r), View(new))
    BY <1>1, <2>1, <2>2, JoinMay
  <2>. QED BY <2>2, <2>3 DEF Call
<1>14. CASE SplitCall
  <2>1. PICK l \in Members(r), pos \in 0 .. WorkLrecl :
                 pos < Len(r.text[l]) /\ Call(Split(r, l, pos))
    BY <1>2, <1>14 DEF SplitCall
  <2> DEFINE new == Split(r, l, pos)
  <2>2. new = Split(r, l, pos) /\ Call(new)
    BY <2>1
  <2> HIDE DEF new
  <2>3. May(View(r), View(new))
    BY <1>1, <2>1, <2>2, SplitMay
  <2>. QED BY <2>2, <2>3 DEF Call
<1>15. CASE MarkCall
  <2>1. PICK l \in Holdable(r) \cup {NULL, CurrentLine(r)}, k \in MarkNos : Call(SetLineMark(r, l, k))
    BY <1>2, <1>15 DEF MarkCall
  <2>2. ~Own(r, l) \/ l \in Members(r) \cup {BOF}
    <3>1. CASE l \in Holdable(r) \cup {NULL}
      BY <1>3, <3>1, HoldableIs
    <3>2. CASE l = CurrentLine(r)
      BY <1>3, <3>2, KeptFacts DEF CurrentLine, Own
    <3>. QED BY <3>1, <3>2
  <2> DEFINE new == SetLineMark(r, l, k)
  <2>3. new = SetLineMark(r, l, k) /\ Call(new)
    BY <2>1
  <2> HIDE DEF new
  <2>4. May(View(r), View(new))
    BY <1>1, <2>2, <2>3, MarkMay
  <2>. QED BY <2>3, <2>4 DEF Call
<1>16. CASE MoveCall
  <2>1. \A d : Moving(r, d) => May(View(r), View(d))
    BY <1>1, GoMay
  <2>2. Moving(r, MoveToBOF(r)) /\ Moving(r, MoveToLastLine(r))
    BY <1>3, ToBOFMoves, ToLastMoves
  <2>3. \A l : Moving(r, MoveToLine(r, l))
    BY <1>3, ToLineMoves
  <2>4. \A by \in {-2, -1, 1, 2} : Moving(r, MoveBy(r, by))
    <3>1. \A by \in {-2, -1, 1, 2} : by \in Int
      OBVIOUS
    <3>. QED BY <1>3, <3>1, ByMoves
  <2>5. PICK d : Moving(r, d) /\ doc' = View(d)
    BY <1>16, <2>2, <2>3, <2>4 DEF MoveCall, Call
  <2>. QED BY <2>1, <2>5
<1>17. CASE Done
  BY <1>17 DEF Done, vars
<1>. QED BY <1>5, <1>6, <1>7, <1>8, <1>9, <1>10, <1>11, <1>12, <1>13, <1>14, <1>15, <1>16,
            <1>17 DEF Next

LEMMA DocFollows ==
    ASSUME IInv, DocIsSeen, Next
    PROVE  DocIsSeen'
<1>1. IInv'
  BY NextKeeps
<1>2. Shaped(r')
  BY <1>1, KeptFacts DEF IInv
<1>3. CASE Done
  BY <1>3 DEF Done, vars, DocIsSeen
<1>4. CASE ~Done
  <2>1. \E new : Call(new)
    BY <1>4 DEF Next, InsertAfterCall, InsertBeforeCall, InsertCall, DeleteCall, UpdateCall,
         DeleteRangeCall, CopyRangeCall, MoveRangeCall, JoinCall, SplitCall, MarkCall, MoveCall
  <2>2. PICK new : r' = [new EXCEPT !.oom = FALSE] /\ doc' = View(new)
    BY <2>1 DEF Call
  <2>3. View(r') = View(new)
    BY <1>2, <2>2, FlagUnseen
  <2>. QED BY <2>2, <2>3 DEF DocIsSeen
<1>. QED BY <1>3, <1>4

LEMMA InitIsDoc == Init => Doc!Init /\ DocIsSeen
<1> DEFINE e == Opened(Page, File)
<1>1. Kept(e, FALSE) /\ AsRead(e) /\ e.cur = BOF
  BY OpenedIsKept
<1> HIDE DEF e
<1>2. PICK n, w, m, f : Sound(e, n, w, m, f, {}) /\ AllThere(FALSE, n, w, m, f, {})
  BY <1>1 DEF Kept, KeptBut
<1>3. Listing(e, n, w) /\ Members(e) = Listed(n, w) /\ Chained(e.next, e.prev, n, w)
  BY <1>2, SoundIsListing DEF Listing
<1>4. /\ n \in Nat /\ View(e).text \in [1 .. n -> Texts]
      /\ \A i \in 1 .. n : View(e).text[i] = e.text[w[i]]
  BY <1>3, SeenFacts
<1>5. View(e).text \in Seq(Inputs)
  <2>1. \A i \in 1 .. n : View(e).text[i] \in Inputs
    BY <1>1, <1>3, <1>4 DEF AsRead, Listed, Inputs
  <2>. QED BY <1>4, <2>1
<1>6. View(e).at = 0
  <2>1. View(e).at = PlaceOf(e, e.cur)
    BY <1>3, ViewIs
  <2>2. w[0] = BOF /\ 0 \in 0 .. n + 1
    BY <1>3, <1>4 DEF Chained
  <2>3. PlaceOf(e, w[0]) = 0
    BY <1>3, <2>2, PlaceIs
  <2>. QED BY <1>1, <2>1, <2>2, <2>3
<1>7. View(e).marks = [k \in MarkNos |-> 0]
  <2>1. View(e).marks = MarksOf(e)
    BY <1>3, ViewIs
  <2>. QED BY <1>1, <2>1 DEF MarksOf, AsRead
<1>8. Init => doc = View(e) /\ r = e
  BY DEF Init, e
<1>. QED BY <1>5, <1>6, <1>7, <1>8 DEF Doc!Init, DocIsSeen, Inputs

-----------------------------------------------------------------------------
(* The theorems *)

\* However the functions that insert, delete, copy, move, join and split lines
\* relink them, and whatever lines a caller still holds: the list can be walked
\* from both ends, has as many lines as lineCount says, and every line is in it
\* or free, never both, and never neither before a call ran out of lines.
THEOREM ChainStaysSound == Spec => []ChainIsSound
<1>1. IInv => ChainIsSound
  BY IsWalkable, NoneIsLost DEF ChainIsSound
<1>. QED BY <1>1, AlwaysKept, PTL

\* No call leaves the current line or a mark at a line that was freed.
THEOREM NothingEverDangles == Spec => []NothingDangles
<1>1. IInv => NothingDangles
  <2> SUFFICES ASSUME IInv PROVE NothingDangles
    OBVIOUS
  <2>1. Kept(r, starved) /\ Mine = Members(r)
    BY DEF IInv, Mine, Members
  <2>. QED BY <2>1, KeptFacts DEF NothingDangles
<1>. QED BY <1>1, AlwaysKept, PTL

\* The pointers of eecore.c carry out TextList: whatever a call relinks, what is
\* seen of the editor (the texts in the order of the list, the place of the
\* current line and the places of the marks) changes as one operation on a
\* sequence of lines tells, or not at all.
THEOREM PointersAreAText == Spec => IsTextList
<1>1. Init => Doc!Init /\ IInv /\ DocIsSeen
  BY InitIsDoc, InitIsKept
<1>2. IInv /\ DocIsSeen /\ [Next]_vars => (IInv /\ DocIsSeen)'
  <2>1. IInv /\ DocIsSeen /\ UNCHANGED vars => (IInv /\ DocIsSeen)'
    BY DEF IInv, DocIsSeen, vars
  <2>. QED BY <2>1, NextKeeps, DocFollows
<1>3. IInv /\ DocIsSeen /\ [Next]_vars => [Doc!Next]_<<doc.text, doc.at, doc.marks>>
  <2>1. CASE UNCHANGED vars
    BY <2>1 DEF vars
  <2>2. ASSUME IInv, DocIsSeen, Next
        PROVE  [Doc!Next]_<<doc.text, doc.at, doc.marks>>
    <3>1. doc' = doc \/ May(View(r), doc')
      BY <2>2, CallMay
    <3>2. PICK n, w, m, f : Sound(r, n, w, m, f, {}) /\ AllThere(starved, n, w, m, f, {})
      BY <2>2 DEF IInv, Kept, KeptBut
    <3>3. Listing(r, n, w)
      BY <3>2, SoundIsListing
    <3>4. n \in Nat /\ DOMAIN doc.text = 1 .. n /\ doc.text \in [1 .. n -> Texts]
      BY <2>2, <3>3, SeenFacts DEF DocIsSeen
    <3>5. doc' = doc \/ May(doc, doc')
      BY <2>2, <3>1 DEF DocIsSeen
    <3>6. May(doc, doc') => Doc!Next \/ UNCHANGED <<doc.text, doc.at, doc.marks>>
      BY <3>4, StepIsAllowed
    <3>. QED BY <3>5, <3>6
  <2>. QED BY <2>1, <2>2
<1>. QED BY <1>1, <1>2, <1>3, PTL DEF Spec, IsTextList, Doc!Spec, Doc!vars
=============================================================================
