-------------------------- MODULE EditSession_proofs --------------------------
(***************************************************************************)
(* Proofs about the files a session of EE leaves on disk, for any files,   *)
(* commands, numbers of editors and inputs, and one upset: a saved file is *)
(* found again, and an editor that is closed has its text saved.           *)
(***************************************************************************)
EXTENDS EditSession, SequenceTheorems, FiniteSetTheorems, TLAPS

\* At most one call of CMS fails or the virtual machine ends once: after two
\* upsets writeToFile() may have dropped the only copy left of a file.
OneUpset == \A s \in Scopes : s.upsets \in {0, 1}

-----------------------------------------------------------------------------
(* The inductive invariant: the editors *)

EeFields == {"eds", "ring", "ed", "count"}
EdFields == {"r", "name", "base", "binary", "sound"}
JobFields == {"cmd", "h", "name", "force", "text", "range", "at", "lines", "existed", "result"}
WriteSteps == {"drop EE$OLD", "drop EE$TMP", "look", "write", "hide", "show", "erase", "end"}

\* Each editor is once in the ring.
Linkage(e) ==
    /\ DOMAIN e = EeFields
    /\ e.ring \in Seq(Handles)
    /\ \A i, k \in DOMAIN e.ring : e.ring[i] = e.ring[k] => i = k
    /\ DOMAIN e.eds = ToSet(e.ring)
    /\ \A h \in DOMAIN e.eds : DOMAIN e.eds[h] = EdFields /\ Proper(e.eds[h].name)

\* fileCount misses at most the one editor whose file could not be read.
Counts(e, u) ==
    /\ e.count \in {Len(e.ring) - 1, Len(e.ring)}
    /\ u > 0 => e.count = Len(e.ring)

Exiting == job # Idle /\ job.cmd = "EXIT"

\* There is an editor on the screen, but for EXIT, which closes them one by one.
OnScreen ==
    /\ status = "cms" => ee = NoMemory /\ job = Idle /\ mode = NoMode
    /\ status # "cms" /\ ~Exiting => ee.ed \in DOMAIN ee.eds
    /\ mode # NoMode => job = Idle

\* What is written comes from an editor; EXIT goes on to one that is left.
JobSound ==
    \/ job = Idle
    \/ /\ DOMAIN job = {"cmd", "at", "h"} /\ job.cmd = "EXIT" /\ job.at = "next"
       /\ job.h \in DOMAIN ee.eds \/ ee.count = 0
    \/ /\ DOMAIN job = JobFields /\ job.at \in WriteSteps
       /\ job.cmd \in {"SAVE", "FILE", "PUT", "PUTD", "EXIT"}
       /\ job.h \in DOMAIN ee.eds
       /\ job.cmd = "EXIT" => ee.count # 0
       /\ Proper(job.name)
       /\ \E S : job.text \in Seq(S)
       /\ job.lines \in Nat

Bounds == scope \in Scopes /\ upsets \in {0, 1}

Editors == Bounds /\ Linkage(ee) /\ Counts(ee, upsets) /\ OnScreen /\ JobSound

-----------------------------------------------------------------------------
(* The inductive invariant: the disk *)

Safe(f, files) ==
    \/ Found(f, files)
    \/ \E d \in {OldOf(f), TmpOf(f)} : d \in DOMAIN files /\ files[d] \in kept[f]

\* writeToFile() is between the first name dropped and its end.
Under == job # Idle /\ job.at \in WriteSteps \ {"drop EE$OLD", "end"}
\* Both names beside the file are its own now.
Past == Under /\ job.at # "drop EE$TMP"

\* What is there under the name of a file is a version of it to be found.
Honest ==
    /\ \A f \in DOMAIN kept : Proper(f)
    /\ \A f \in DOMAIN disk : Proper(f) => f \in DOMAIN kept /\ disk[f] \in kept[f]

\* All files but the one being written are safe; those that share EE$OLD and
\* EE$TMP with it are there under their own names.
OthersSafe ==
    \A f \in DOMAIN kept \ clobbered :
        /\ ~Under \/ f # job.name => Safe(f, disk)
        /\ Past /\ f # job.name /\ f[1] = job.name[1] => Found(f, disk)

\* The file being written, step by step.
OwnSafe ==
    /\ Under /\ job.at = "drop EE$TMP" => OldOf(job.name) \notin DOMAIN disk
    /\ Under /\ job.at \in {"write", "hide"} => job.existed = (job.name \in DOMAIN disk)
    /\ Under /\ job.at \in {"hide", "show"} =>
           TmpOf(job.name) \in DOMAIN disk /\ disk[TmpOf(job.name)] = job.text
    /\ Under /\ job.at = "show" => job.name \notin DOMAIN disk
    /\ Under /\ job.at = "erase" => job.name \in DOMAIN disk /\ disk[job.name] = job.text
    /\ Under /\ job.at \in {"show", "erase"} =>
           job.name \in DOMAIN kept /\ job.text \in kept[job.name]

\* Before the upset every file is there under its own name, or is about to be.
Whole ==
    upsets > 0 =>
        \A f \in DOMAIN kept : Found(f, disk) \/ (Under /\ job.at = "show" /\ f = job.name)

Saved == Honest /\ OthersSafe /\ OwnSafe /\ Whole

IInv == Editors /\ Saved

-----------------------------------------------------------------------------
(* Texts are sequences *)

LEMMA LeastNumber ==
    ASSUME NEW S, S \subseteq Nat, S # {}
    PROVE  Min(S) \in S /\ \A x \in S : Min(S) =< x
<1> DEFINE less == {p \in Nat \X Nat : p[1] < p[2]}
<1>0. IsWellFoundedOn(less, Nat)
  BY NatLessThanWellFounded DEF OpToRel
<1> HIDE DEF less
<1>1. PICK m \in S : \A x \in S : ~(<<x, m>> \in less)
  BY <1>0, WFMin
<1>2. \A x \in S : m =< x
  <2> SUFFICES ASSUME NEW x \in S PROVE m =< x
    OBVIOUS
  <2>1. x < m => <<x, m>> \in less
    BY DEF less
  <2>. QED BY <1>1, <2>1
<1>. QED BY <1>2 DEF Min

IsList(t) == \E S : t \in Seq(S)

LEMMA Lists ==
    ASSUME NEW t, IsList(t)
    PROVE  /\ Len(t) \in Nat /\ DOMAIN t = 1 .. Len(t)
           /\ SubSeq(t, 1, Len(t)) = t
           /\ \A n \in Int : IsList(SubSeq(t, 1, n)) \/ n > Len(t)
           /\ \A x : IsList(Append(t, x)) /\ Len(Append(t, x)) = Len(t) + 1
<1>1. PICK S : t \in Seq(S)
  BY DEF IsList
<1>2. Len(t) \in Nat /\ DOMAIN t = 1 .. Len(t) /\ t \in [1 .. Len(t) -> S]
  BY <1>1, LenProperties
<1>3. SubSeq(t, 1, Len(t)) = t
  BY <1>1, SubSeqFull
<1>4. ASSUME NEW n \in Int, ~(n > Len(t)) PROVE IsList(SubSeq(t, 1, n))
  <2>1. \A i \in 1 .. n : t[i] \in S
    BY <1>1, <1>2, <1>4
  <2>2. SubSeq(t, 1, n) \in Seq(S)
    BY <2>1, SubSeqProperties, 1 \in Int
  <2>. QED BY <2>2 DEF IsList
<1>5. ASSUME NEW x PROVE IsList(Append(t, x)) /\ Len(Append(t, x)) = Len(t) + 1
  <2>1. t \in Seq(S \cup {x})
    BY <1>1, SeqMonotonic
  <2>2. Append(t, x) \in Seq(S \cup {x}) /\ Len(Append(t, x)) = Len(t) + 1
    BY <2>1, AppendProperties
  <2>. QED BY <2>2 DEF IsList
<1>. QED BY <1>2, <1>3, <1>4, <1>5

\* A walk along the chain, as Follow() goes it.
Step(r, met) == IF Last(met) \in {EOF, NULL} THEN met ELSE Append(met, r.next[Last(met)])
WalkOf(r, l, n, walk) ==
    walk = [i \in 0 .. n |-> IF i = 0 THEN <<l>> ELSE Step(r, walk[i - 1])]

LEMMA WalkExists ==
    ASSUME NEW r, NEW l, NEW n \in Nat
    PROVE  \E walk : WalkOf(r, l, n, walk)
<1> DEFINE bad == {k \in Nat : ~\E walk : WalkOf(r, l, k, walk)}
<1>1. SUFFICES ASSUME bad # {} PROVE FALSE
  OBVIOUS
<1>2. PICK k \in bad : \A x \in bad : k =< x
  BY <1>1, LeastNumber
<1>3. CASE k = 0
  <2> DEFINE w == [i \in 0 .. 0 |-> <<l>>]
  <2>1. WalkOf(r, l, 0, w)
    BY DEF WalkOf
  <2>. QED BY <1>2, <1>3, <2>1
<1>4. CASE k # 0
  <2>1. k - 1 \in Nat /\ k - 1 \notin bad
    BY <1>2, <1>4
  <2>2. PICK v : WalkOf(r, l, k - 1, v)
    BY <2>1
  <2> DEFINE w == [i \in 0 .. k |-> IF i = k THEN Step(r, v[k - 1]) ELSE v[i]]
             u == [i \in 0 .. k |-> IF i = 0 THEN <<l>> ELSE Step(r, w[i - 1])]
  <2>3. ASSUME NEW i \in 0 .. k PROVE w[i] = u[i]
    <3>1. CASE i = k
      <4>1. w[k] = Step(r, v[k - 1]) /\ w[k - 1] = v[k - 1]
        BY <2>1
      <4>. QED BY <1>4, <3>1, <4>1
    <3>2. CASE i # k /\ i = 0
      BY <2>1, <2>2, <3>2 DEF WalkOf
    <3>3. CASE i # k /\ i # 0
      <4>1. w[i] = v[i] /\ w[i - 1] = v[i - 1] /\ i \in 0 .. k - 1
        BY <2>1, <3>3
      <4>2. v[i] = Step(r, v[i - 1])
        BY <2>2, <3>3, <4>1 DEF WalkOf
      <4>. QED BY <3>3, <4>1, <4>2
    <3>. QED BY <3>1, <3>2, <3>3
  <2>4. w = u
    BY <2>3
  <2>5. WalkOf(r, l, k, w)
    BY <2>4 DEF WalkOf
  <2>. QED BY <1>2, <2>5
<1>. QED BY <1>3, <1>4

LEMMA FollowIsList == ASSUME NEW r, NEW l PROVE IsList(Follow(r, l)) /\ Len(Follow(r, l)) > 0
<1> DEFINE n == Cardinality(Lines) + 1
           walk == CHOOSE w : WalkOf(r, l, n, w)
           bad == {k \in 0 .. n : ~(IsList(walk[k]) /\ Len(walk[k]) > 0)}
<1>1. n \in Nat
  BY LinesAssumption, FS_CardinalityType
<1>2. Follow(r, l) = walk[n]
  BY DEF Follow, WalkOf, Step
<1>3. WalkOf(r, l, n, walk)
  BY <1>1, WalkExists
<1> HIDE DEF n, walk
<1>4. ASSUME bad # {} PROVE FALSE
  <2>0. bad \subseteq Nat
    BY <1>1
  <2>1. PICK k \in bad : \A x \in bad : k =< x
    BY <1>4, <2>0, LeastNumber
  <2>2. CASE k = 0
    <3>1. walk[0] = <<l>>
      BY <1>1, <1>3 DEF WalkOf
    <3>2. <<l>> \in Seq({l}) /\ Len(<<l>>) = 1
      OBVIOUS
    <3>3. IsList(<<l>>)
      BY <3>2 DEF IsList
    <3>4. ~(IsList(walk[0]) /\ Len(walk[0]) > 0)
      BY <2>1, <2>2
    <3>. QED BY <3>1, <3>2, <3>3, <3>4
  <2>3. CASE k # 0
    <3>1. k - 1 \in 0 .. n /\ k \in 0 .. n
      BY <1>1, <2>1, <2>3
    <3>2. IsList(walk[k - 1]) /\ Len(walk[k - 1]) > 0
      BY <2>1, <3>1
    <3>3. walk[k] = Step(r, walk[k - 1])
      BY <1>3, <2>3, <3>1 DEF WalkOf
    <3>4. IsList(walk[k]) /\ Len(walk[k]) > 0
      BY <3>2, <3>3, Lists DEF Step
    <3>. QED BY <2>1, <3>4
  <2>. QED BY <2>2, <2>3
<1>5. n \in 0 .. n
  BY <1>1
<1>. QED BY <1>2, <1>4, <1>5

LEMMA FrontIsList == ASSUME NEW r, NEW l PROVE IsList(Front(Follow(r, l)))
<1> DEFINE t == Follow(r, l)
<1>1. IsList(t) /\ Len(t) > 0 /\ Len(t) \in Nat
  BY FollowIsList, Lists
<1> HIDE DEF t
<1>2. Len(t) - 1 \in Int /\ ~(Len(t) - 1 > Len(t))
  BY <1>1
<1>3. IsList(SubSeq(t, 1, Len(t) - 1))
  BY <1>1, <1>2, Lists
<1>. QED BY <1>3 DEF t, Front

LEMMA TextOf ==
    ASSUME NEW t, IsList(t), NEW f
    PROVE  IsList([i \in DOMAIN t |-> f[t[i]]])
<1>1. Len(t) \in Nat /\ DOMAIN t = 1 .. Len(t)
  BY Lists
<1> DEFINE g == [i \in 1 .. Len(t) |-> f[t[i]]]
           S == {f[t[i]] : i \in 1 .. Len(t)}
<1>2. g \in [1 .. Len(t) -> S]
  OBVIOUS
<1>3. g \in Seq(S)
  BY <1>1, <1>2
<1>. QED BY <1>1, <1>3 DEF IsList

LEMMA ContentIsList == ASSUME NEW r PROVE IsList(Content(r))
BY FrontIsList, TextOf DEF Content, Chain

LEMMA BetweenIsList ==
    ASSUME NEW r, NEW a, NEW b
    PROVE  IsList(Between(r, a, b))
<1> DEFINE walk == Front(Follow(r, a))
           found == {i \in 1 .. Len(walk) : walk[i] = b}
<1>1. IsList(walk) /\ Len(walk) \in Nat
  BY FrontIsList, Lists
<1>2. Between(r, a, b) = IF found = {} THEN walk ELSE SubSeq(walk, 1, Min(found))
  <2>1. found # {} => Min(found) \in found /\ Min(found) # 0
    <3>1. found \subseteq Nat
      BY <1>1
    <3>. QED BY <3>1, LeastNumber
  <2>2. SelectInSeq(walk, LAMBDA x : x = b) = IF found # {} THEN Min(found) ELSE 0
    BY DEF SelectInSeq
  <2>. QED BY <2>1, <2>2 DEF Between
<1>3. IsList(Between(r, a, b))
  <2>1. CASE found = {}
    BY <1>1, <1>2, <2>1
  <2>2. CASE found # {}
    <3>1. found \subseteq Nat
      BY <1>1
    <3>2. Min(found) \in 1 .. Len(walk)
      BY <2>2, <3>1, LeastNumber
    <3> HIDE DEF walk, found
    <3>3. Min(found) \in Int /\ ~(Min(found) > Len(walk))
      BY <1>1, <3>2
    <3>4. IsList(SubSeq(walk, 1, Min(found)))
      BY <1>1, <3>3, Lists
    <3>. QED BY <1>2, <2>2, <3>4
  <2>. QED BY <2>1, <2>2
<1>. QED BY <1>3

LEMMA RangeIsList ==
    ASSUME NEW r, NEW a, NEW b
    PROVE  IsList([i \in DOMAIN Between(r, a, b) |-> r.text[Between(r, a, b)[i]]])
BY BetweenIsList, TextOf

LEMMA WrittenIsList == ASSUME NEW t, IsList(t) PROVE IsList(Written(t))
<1>1. << <<>> >> \in Seq({<<>>})
  OBVIOUS
<1>. QED BY <1>1 DEF Written, IsList

-----------------------------------------------------------------------------
(* Names *)

LEMMA Names ==
    ASSUME NEW f, Proper(f), NEW g, Proper(g)
    PROVE  /\ OldOf(f) # g /\ TmpOf(f) # g
           /\ OldOf(f) # TmpOf(g)
           /\ OldOf(f) = OldOf(g) <=> f[1] = g[1]
           /\ TmpOf(f) = TmpOf(g) <=> f[1] = g[1]
<1> DEFINE o == <<f[1], "EE$OLD">>
           t == <<f[1], "EE$TMP">>
           p == <<g[1], "EE$OLD">>
           u == <<g[1], "EE$TMP">>
<1>1. g = <<g[1], g[2]>> /\ g[2] \notin {"EE$OLD", "EE$TMP"}
  BY DEF Proper
<1>2. o[1] = f[1] /\ o[2] = "EE$OLD" /\ t[1] = f[1] /\ t[2] = "EE$TMP"
  OBVIOUS
<1>3. p[1] = g[1] /\ p[2] = "EE$OLD" /\ u[1] = g[1] /\ u[2] = "EE$TMP"
  OBVIOUS
<1>4. OldOf(f) = o /\ TmpOf(f) = t /\ OldOf(g) = p /\ TmpOf(g) = u
  BY DEF OldOf, TmpOf
<1>5. "EE$OLD" # "EE$TMP"
  OBVIOUS
<1>6. o # g /\ t # g /\ o # u
  BY <1>1, <1>2, <1>3, <1>5
<1>7. (o = p <=> f[1] = g[1]) /\ (t = u <=> f[1] = g[1])
  BY <1>2, <1>3
<1>. QED BY <1>4, <1>6, <1>7

-----------------------------------------------------------------------------
(* The ring *)

LEMMA Places ==
    ASSUME NEW e, Linkage(e), NEW h \in DOMAIN e.eds
    PROVE  /\ Len(e.ring) \in Nat /\ DOMAIN e.ring = 1 .. Len(e.ring)
           /\ At(e, h) \in 1 .. Len(e.ring) /\ e.ring[At(e, h)] = h
           /\ h \in Handles /\ h # None
<1>1. e.ring \in Seq(Handles) /\ h \in ToSet(e.ring)
  BY DEF Linkage
<1>2. Len(e.ring) \in Nat /\ DOMAIN e.ring = 1 .. Len(e.ring) /\ e.ring \in [1 .. Len(e.ring) -> Handles]
  BY <1>1, LenProperties
<1>3. \E i \in DOMAIN e.ring : e.ring[i] = h
  BY <1>1 DEF ToSet
<1>4. At(e, h) \in DOMAIN e.ring /\ e.ring[At(e, h)] = h
  BY <1>3 DEF At
<1>5. h \in Handles
  BY <1>2, <1>4
<1>. QED BY <1>2, <1>4, <1>5, SessionAssumption DEF None

LEMMA InRing ==
    ASSUME NEW e, Linkage(e), NEW i \in 1 .. Len(e.ring)
    PROVE  e.ring[i] \in DOMAIN e.eds
<1>1. DOMAIN e.ring = 1 .. Len(e.ring)
  BY LenProperties DEF Linkage
<1>. QED BY <1>1 DEF Linkage, ToSet

\* The neighbour is another editor unless there is only one.
LEMMA Neighbours ==
    ASSUME NEW e, Linkage(e), NEW h \in DOMAIN e.eds
    PROVE  /\ NextEd(e, h) \in DOMAIN e.eds /\ PrevEd(e, h) \in DOMAIN e.eds
           /\ NextEd(e, h) = h => Len(e.ring) = 1
<1> DEFINE i == At(e, h)
           k == IF i = Len(e.ring) THEN 1 ELSE i + 1
           j == IF i = 1 THEN Len(e.ring) ELSE i - 1
<1>1. Len(e.ring) \in Nat /\ i \in 1 .. Len(e.ring) /\ e.ring[i] = h /\ DOMAIN e.ring = 1 .. Len(e.ring)
  BY Places
<1>2. NextEd(e, h) = e.ring[k] /\ PrevEd(e, h) = e.ring[j]
  BY DEF NextEd, PrevEd
<1> HIDE DEF i
<1>3. k \in 1 .. Len(e.ring) /\ j \in 1 .. Len(e.ring) /\ (k = i => Len(e.ring) = 1)
  <2>0. \A n \in Nat : \A x \in 1 .. n :
           /\ (IF x = n THEN 1 ELSE x + 1) \in 1 .. n
           /\ (IF x = 1 THEN n ELSE x - 1) \in 1 .. n
           /\ (IF x = n THEN 1 ELSE x + 1) = x => n = 1
    OBVIOUS
  <2>. QED BY <1>1, <2>0
<1> HIDE DEF k, j
<1>4. NextEd(e, h) = h => k = i
  BY <1>1, <1>2, <1>3 DEF Linkage
<1>. QED BY <1>2, <1>3, <1>4, InRing

LEMMA Shortened ==
    ASSUME NEW S, NEW s \in Seq(S), NEW p \in 1 .. Len(s)
    PROVE  LET t == RemoveAt(s, p)
           IN  /\ t \in Seq(S) /\ Len(t) = Len(s) - 1
               /\ \A i \in 1 .. Len(s) - 1 : t[i] = s[IF i < p THEN i ELSE i + 1]
<1> DEFINE a == SubSeq(s, 1, p - 1)
           b == SubSeq(s, p + 1, Len(s))
<1>1. Len(s) \in Nat /\ s \in [1 .. Len(s) -> S]
  BY LenProperties
<1>2. /\ a \in Seq(S) /\ Len(a) = p - 1
      /\ \A i \in 1 .. p - 1 : a[i] = s[i]
  <2>1. 1 \in Int /\ p - 1 \in Int /\ \A i \in 1 .. p - 1 : s[i] \in S
    BY <1>1
  <2>. QED BY <1>1, <2>1, SubSeqProperties
<1>3. /\ b \in Seq(S) /\ Len(b) = Len(s) - p
      /\ \A i \in 1 .. Len(s) - p : b[i] = s[p + i]
  <2>1. p + 1 \in Int /\ Len(s) \in Int /\ \A i \in p + 1 .. Len(s) : s[i] \in S
    BY <1>1
  <2>2. /\ b \in Seq(S) /\ Len(b) = IF p + 1 =< Len(s) THEN Len(s) - (p + 1) + 1 ELSE 0
        /\ \A i \in 1 .. Len(s) - (p + 1) + 1 : b[i] = s[p + 1 + i - 1]
    BY <2>1, SubSeqProperties
  <2> HIDE DEF a, b
  <2>3. ASSUME NEW i \in 1 .. Len(s) - p PROVE b[i] = s[p + i]
    <3>1. i \in 1 .. Len(s) - (p + 1) + 1 /\ p + 1 + i - 1 = p + i
      BY <1>1
    <3>. QED BY <2>2, <3>1
  <2>4. Len(b) = Len(s) - p
    <3>1. Len(b) = IF p + 1 =< Len(s) THEN Len(s) - (p + 1) + 1 ELSE 0
      BY <2>2
    <3>2. \A n \in Nat : \A x \in 1 .. n :
             (IF x + 1 =< n THEN n - (x + 1) + 1 ELSE 0) = n - x
      OBVIOUS
    <3>. QED BY <1>1, <3>1, <3>2
  <2>. QED BY <2>2, <2>3, <2>4
<1>4. RemoveAt(s, p) = a \o b
  BY DEF RemoveAt
<1> HIDE DEF a, b
<1>5. /\ a \o b \in Seq(S) /\ Len(a \o b) = Len(a) + Len(b)
      /\ \A i \in 1 .. Len(a) + Len(b) : (a \o b)[i] = IF i =< Len(a) THEN a[i] ELSE b[i - Len(a)]
  BY <1>2, <1>3, ConcatProperties
<1>6. ASSUME NEW i \in 1 .. Len(s) - 1
      PROVE  (a \o b)[i] = s[IF i < p THEN i ELSE i + 1]
  <2>1. (a \o b)[i] = IF i =< p - 1 THEN a[i] ELSE b[i - (p - 1)]
    BY <1>1, <1>2, <1>3, <1>5
  <2>2. CASE i < p
    BY <1>1, <1>2, <2>1, <2>2
  <2>3. CASE ~(i < p)
    <3>1. i - (p - 1) \in 1 .. Len(s) - p /\ p + (i - (p - 1)) = i + 1
      BY <1>1, <2>3
    <3>. QED BY <1>1, <1>3, <2>1, <2>3, <3>1
  <2>. QED BY <2>2, <2>3
<1>. QED BY <1>1, <1>2, <1>3, <1>4, <1>5, <1>6

LEMMA Lengthened ==
    ASSUME NEW S, NEW s \in Seq(S), NEW p \in 1 .. Len(s) + 1, NEW x \in S
    PROVE  /\ InsertAt(s, p, x) \in Seq(S) /\ Len(InsertAt(s, p, x)) = Len(s) + 1
           /\ \A i \in 1 .. Len(s) + 1 :
                 InsertAt(s, p, x)[i] = IF i < p THEN s[i] ELSE IF i = p THEN x ELSE s[i - 1]
<1> DEFINE a == SubSeq(s, 1, p - 1)
           b == SubSeq(s, p, Len(s))
           m == a \o <<x>>
<1>1. Len(s) \in Nat /\ s \in [1 .. Len(s) -> S]
  BY LenProperties
<1>2. /\ a \in Seq(S) /\ Len(a) = p - 1
      /\ \A i \in 1 .. p - 1 : a[i] = s[i]
  <2>1. 1 \in Int /\ p - 1 \in Int /\ \A i \in 1 .. p - 1 : s[i] \in S
    BY <1>1
  <2>. QED BY <1>1, <2>1, SubSeqProperties
<1>3. /\ b \in Seq(S) /\ Len(b) = Len(s) - p + 1
      /\ \A i \in 1 .. Len(s) - p + 1 : b[i] = s[p + i - 1]
  <2>1. p \in Int /\ Len(s) \in Int /\ \A i \in p .. Len(s) : s[i] \in S
    BY <1>1
  <2>2. /\ b \in Seq(S) /\ Len(b) = IF p =< Len(s) THEN Len(s) - p + 1 ELSE 0
        /\ \A i \in 1 .. Len(s) - p + 1 : b[i] = s[p + i - 1]
    BY <2>1, SubSeqProperties
  <2>. QED BY <1>1, <2>2
<1>4. InsertAt(s, p, x) = m \o b
  BY DEF InsertAt
<1> HIDE DEF a, b
<1>5. <<x>> \in Seq(S) /\ Len(<<x>>) = 1 /\ <<x>>[1] = x
  OBVIOUS
<1>6. /\ m \in Seq(S) /\ Len(m) = p
      /\ \A i \in 1 .. p : m[i] = IF i < p THEN s[i] ELSE x
  <2>1. /\ m \in Seq(S) /\ Len(m) = Len(a) + Len(<<x>>)
        /\ \A i \in 1 .. Len(a) + Len(<<x>>) :
              m[i] = IF i =< Len(a) THEN a[i] ELSE <<x>>[i - Len(a)]
    BY <1>2, <1>5, ConcatProperties
  <2> HIDE DEF m
  <2>2. ASSUME NEW i \in 1 .. p PROVE m[i] = IF i < p THEN s[i] ELSE x
    BY <1>1, <1>2, <1>5, <2>1
  <2>. QED BY <1>1, <1>2, <1>5, <2>1, <2>2
<1> HIDE DEF m
<1>7. /\ m \o b \in Seq(S) /\ Len(m \o b) = Len(m) + Len(b)
      /\ \A i \in 1 .. Len(m) + Len(b) : (m \o b)[i] = IF i =< Len(m) THEN m[i] ELSE b[i - Len(m)]
  BY <1>3, <1>6, ConcatProperties
<1>8. ASSUME NEW i \in 1 .. Len(s) + 1
      PROVE  (m \o b)[i] = IF i < p THEN s[i] ELSE IF i = p THEN x ELSE s[i - 1]
  <2>1. (m \o b)[i] = IF i =< p THEN m[i] ELSE b[i - p]
    BY <1>1, <1>3, <1>6, <1>7
  <2>2. CASE i =< p
    BY <1>1, <1>6, <2>1, <2>2
  <2>3. CASE ~(i =< p)
    <3>1. i - p \in 1 .. Len(s) - p + 1 /\ p + (i - p) - 1 = i - 1
      BY <1>1, <2>3
    <3>. QED BY <1>1, <1>3, <2>1, <2>3, <3>1
  <2>. QED BY <2>2, <2>3
<1>. QED BY <1>1, <1>3, <1>4, <1>6, <1>7, <1>8

-----------------------------------------------------------------------------
(* What may become of the editors *)

LEMMA Frees ==
    ASSUME NEW e, Linkage(e), NEW h \in DOMAIN e.eds
    PROVE  LET d == Freed(e, h)
           IN  /\ Linkage(d) /\ DOMAIN d.eds = DOMAIN e.eds \ {h}
               /\ d.ed = e.ed /\ d.count = e.count - 1 /\ Len(d.ring) = Len(e.ring) - 1
<1> DEFINE p == At(e, h)
           d == Freed(e, h)
           s == e.ring
           t == RemoveAt(s, p)
           n == Len(s)
<1>1. n \in Nat /\ DOMAIN s = 1 .. n /\ p \in 1 .. n /\ s[p] = h
  BY Places
<1>2. s \in Seq(Handles) /\ DOMAIN e = EeFields
  BY DEF Linkage
<1>3. /\ t \in Seq(Handles) /\ Len(t) = n - 1
      /\ \A i \in 1 .. n - 1 : t[i] = s[IF i < p THEN i ELSE i + 1]
  BY <1>1, <1>2, Shortened
<1>4. DOMAIN t = 1 .. n - 1
  BY <1>3, LenProperties
<1>5. /\ DOMAIN d = EeFields /\ d.eds = Without(e.eds, h) /\ d.ring = t
      /\ d.ed = e.ed /\ d.count = e.count - 1
  BY <1>2 DEF Freed, EeFields
<1> HIDE DEF p, t, d, s, n
<1>6. \A x \in 1 .. n - 1 : (IF x < p THEN x ELSE x + 1) \in (1 .. n) \ {p}
  BY <1>1
<1>7. \A i, k \in DOMAIN s : s[i] = s[k] => i = k
  BY DEF Linkage, s
<1>8. ASSUME NEW i \in DOMAIN t, NEW k \in DOMAIN t, t[i] = t[k] PROVE i = k
  <2>1. (IF i < p THEN i ELSE i + 1) = (IF k < p THEN k ELSE k + 1)
    BY <1>1, <1>3, <1>4, <1>6, <1>7, <1>8
  <2>. QED BY <1>1, <1>4, <2>1
<1>9. ToSet(t) = ToSet(s) \ {h}
  <2>1. ASSUME NEW i \in 1 .. n - 1 PROVE t[i] \in ToSet(s) /\ t[i] # h
    BY <1>1, <1>3, <1>6, <1>7 DEF ToSet
  <2>2. ASSUME NEW k \in 1 .. n, s[k] # h PROVE \E i \in 1 .. n - 1 : t[i] = s[k]
    <3>1. CASE k < p
      <4>1. k \in 1 .. n - 1
        BY <1>1, <3>1
      <4>. QED BY <1>3, <3>1, <4>1
    <3>2. CASE k > p
      <4>1. k - 1 \in 1 .. n - 1 /\ ~(k - 1 < p) /\ k - 1 + 1 = k
        BY <1>1, <3>2
      <4>. QED BY <1>3, <4>1
    <3>. QED BY <1>1, <2>2, <3>1, <3>2
  <2>3. ToSet(t) = {t[i] : i \in 1 .. n - 1} /\ ToSet(s) = {s[k] : k \in 1 .. n}
    BY <1>1, <1>4 DEF ToSet
  <2>4. ToSet(t) \subseteq ToSet(s) \ {h}
    BY <2>1, <2>3
  <2>5. ASSUME NEW x \in ToSet(s) \ {h} PROVE x \in ToSet(t)
    <3>1. PICK k \in 1 .. n : s[k] = x
      BY <2>3
    <3>2. PICK i \in 1 .. n - 1 : t[i] = s[k]
      BY <2>2, <3>1
    <3>. QED BY <2>3, <3>1, <3>2
  <2>. QED BY <2>4, <2>5
<1>10. DOMAIN e.eds = ToSet(s) /\ \A x \in DOMAIN e.eds : DOMAIN e.eds[x] = EdFields /\ Proper(e.eds[x].name)
  BY DEF Linkage, s
<1>11. DOMAIN d.eds = DOMAIN e.eds \ {h} /\ \A x \in DOMAIN d.eds : d.eds[x] = e.eds[x]
  BY <1>5 DEF Without
<1>12. Linkage(d)
  BY <1>3, <1>5, <1>8, <1>9, <1>10, <1>11 DEF Linkage
<1>. QED BY <1>3, <1>5, <1>11, <1>12 DEF d, s, n

LEMMA Closes ==
    ASSUME NEW e, Linkage(e), NEW h \in DOMAIN e.eds
    PROVE  LET d == Closed(e, h)
           IN  /\ Linkage(d)
               /\ d.ed = None \/ d.ed \in DOMAIN d.eds
               /\ d.count = e.count - 1 /\ Len(d.ring) = Len(e.ring) - 1
<1> DEFINE f == Freed(e, h)
           next == NextEd(e, h)
<1>1. /\ Linkage(f) /\ DOMAIN f.eds = DOMAIN e.eds \ {h}
      /\ f.count = e.count - 1 /\ Len(f.ring) = Len(e.ring) - 1
  BY Frees
<1>2. next \in DOMAIN e.eds
  BY Neighbours
<1>3. Closed(e, h) = [f EXCEPT !.ed = IF next = h THEN None ELSE next]
  BY DEF Closed
<1> HIDE DEF f, next
<1>4. DOMAIN f = EeFields
  BY <1>1 DEF Linkage
<1> DEFINE d == Closed(e, h)
<1>5. /\ DOMAIN d = EeFields /\ d.eds = f.eds /\ d.ring = f.ring /\ d.count = f.count
      /\ d.ed = IF next = h THEN None ELSE next
  BY <1>3, <1>4 DEF EeFields
<1> HIDE DEF d
<1>6. Linkage(d)
  BY <1>1, <1>5 DEF Linkage
<1>7. d.ed = None \/ d.ed \in DOMAIN d.eds
  BY <1>1, <1>2, <1>5
<1>. QED BY <1>1, <1>5, <1>6, <1>7 DEF d

LEMMA Edits ==
    ASSUME NEW e, Linkage(e), NEW h \in DOMAIN e.eds, NEW x, DOMAIN x = EdFields, Proper(x.name)
    PROVE  LET d == [e EXCEPT !.eds[h] = x]
           IN  /\ Linkage(d) /\ DOMAIN d.eds = DOMAIN e.eds /\ d.ed = e.ed
               /\ d.ring = e.ring /\ d.count = e.count /\ d.eds[h] = x
<1> DEFINE d == [e EXCEPT !.eds[h] = x]
<1>1. DOMAIN e = EeFields
  BY DEF Linkage
<1>2. /\ DOMAIN d = EeFields /\ d.eds = [e.eds EXCEPT ![h] = x]
      /\ d.ed = e.ed /\ d.ring = e.ring /\ d.count = e.count
  BY <1>1 DEF EeFields
<1> HIDE DEF d
<1>3. DOMAIN d.eds = DOMAIN e.eds /\ \A k \in DOMAIN d.eds : d.eds[k] = IF k = h THEN x ELSE e.eds[k]
  BY <1>2
<1>4. Linkage(d)
  BY <1>2, <1>3 DEF Linkage
<1>. QED BY <1>2, <1>3, <1>4 DEF d

LEMMA Turns ==
    ASSUME NEW e, Linkage(e), NEW x
    PROVE  LET d == [e EXCEPT !.ed = x]
           IN  Linkage(d) /\ d.eds = e.eds /\ d.ed = x /\ d.ring = e.ring /\ d.count = e.count
<1> DEFINE d == [e EXCEPT !.ed = x]
<1>1. DOMAIN e = EeFields
  BY DEF Linkage
<1>2. DOMAIN d = EeFields /\ d.eds = e.eds /\ d.ed = x /\ d.ring = e.ring /\ d.count = e.count
  BY <1>1 DEF EeFields
<1> HIDE DEF d
<1>3. Linkage(d)
  BY <1>2 DEF Linkage
<1>. QED BY <1>2, <1>3 DEF d

LEMMA Links ==
    ASSUME NEW e, Linkage(e), e.ed = None \/ e.ed \in DOMAIN e.eds,
           NEW h \in Handles \ DOMAIN e.eds, NEW f, Proper(f), NEW txts, NEW sound
    PROVE  LET d == Linked(e, h, f, txts, sound)
           IN  /\ Linkage(d) /\ DOMAIN d.eds = DOMAIN e.eds \cup {h}
               /\ d.ed = e.ed /\ d.count = e.count /\ Len(d.ring) = Len(e.ring) + 1
<1> DEFINE i == IF e.ed = None THEN 0 ELSE At(e, e.ed)
           x == [r |-> Opened(Page, Read(txts)), name |-> f,
                 base |-> Content(Opened(Page, Read(txts))), binary |-> IsBinary(txts),
                 sound |-> sound]
           d == Linked(e, h, f, txts, sound)
           s == e.ring
           t == InsertAt(s, i + 1, h)
           n == Len(s)
           p == i + 1
<1>1. n \in Nat /\ DOMAIN s = 1 .. n /\ s \in Seq(Handles) /\ DOMAIN e = EeFields
  BY LenProperties DEF Linkage
<1>2. p \in 1 .. n + 1
  <2>1. CASE e.ed = None
    BY <1>1, <2>1
  <2>2. CASE e.ed # None
    <3>1. At(e, e.ed) \in 1 .. n
      BY <2>2, Places
    <3>. QED BY <1>1, <2>2, <3>1
  <2>. QED BY <2>1, <2>2
<1>3. DOMAIN x = EdFields /\ x.name = f
  BY DEF EdFields
<1>4. d = [e EXCEPT !.eds = With(@, h, x), !.ring = InsertAt(@, p, h)]
  BY DEF Linked
<1> HIDE DEF i, x, d, s, n, p, t
<1>5. /\ DOMAIN d = EeFields /\ d.eds = With(e.eds, h, x) /\ d.ring = InsertAt(s, p, h)
      /\ d.ed = e.ed /\ d.count = e.count
  BY <1>1, <1>4 DEF EeFields, s
<1>6. /\ d.ring \in Seq(Handles) /\ Len(d.ring) = n + 1
      /\ \A k \in 1 .. n + 1 : d.ring[k] = IF k < p THEN s[k] ELSE IF k = p THEN h ELSE s[k - 1]
  <2>1. \A q \in Seq(Handles) : \A j \in 1 .. Len(q) + 1 :
           /\ InsertAt(q, j, h) \in Seq(Handles) /\ Len(InsertAt(q, j, h)) = Len(q) + 1
           /\ \A k \in 1 .. Len(q) + 1 :
                 InsertAt(q, j, h)[k] = IF k < j THEN q[k] ELSE IF k = j THEN h ELSE q[k - 1]
    BY Lengthened
  <2>2. s \in Seq(Handles) /\ p \in 1 .. Len(s) + 1
    BY <1>1, <1>2 DEF n
  <2>. QED BY <1>5, <2>1, <2>2 DEF n
<1>7. DOMAIN d.ring = 1 .. n + 1
  BY <1>6, LenProperties
<1>8. /\ \A a, b \in DOMAIN s : s[a] = s[b] => a = b
      /\ \A a \in DOMAIN s : s[a] # h
      /\ DOMAIN e.eds = {s[a] : a \in 1 .. n}
  BY <1>1 DEF Linkage, ToSet, s
<1>9. ASSUME NEW a \in DOMAIN d.ring, NEW b \in DOMAIN d.ring, d.ring[a] = d.ring[b] PROVE a = b
  <2>1. /\ a \in 1 .. n + 1 /\ b \in 1 .. n + 1
        /\ a < p => a \in DOMAIN s
        /\ a > p => a - 1 \in DOMAIN s
        /\ b < p => b \in DOMAIN s
        /\ b > p => b - 1 \in DOMAIN s
    BY <1>1, <1>2, <1>7
  <2>2. CASE a = p
    BY <1>2, <1>6, <1>8, <1>9, <2>1, <2>2
  <2>3. CASE b = p
    BY <1>2, <1>6, <1>8, <1>9, <2>1, <2>3
  <2>4. CASE a # p /\ b # p
    <3>1. (IF a < p THEN a ELSE a - 1) = (IF b < p THEN b ELSE b - 1)
      BY <1>2, <1>6, <1>8, <1>9, <2>1, <2>4
    <3>. QED BY <1>2, <2>1, <2>4, <3>1
  <2>. QED BY <2>2, <2>3, <2>4
<1>10. ToSet(d.ring) = DOMAIN e.eds \cup {h}
  <2>1. ToSet(d.ring) = {d.ring[k] : k \in 1 .. n + 1}
    BY <1>7 DEF ToSet
  <2>2. ASSUME NEW k \in 1 .. n + 1 PROVE d.ring[k] \in DOMAIN e.eds \cup {h}
    <3>1. (k < p => k \in 1 .. n) /\ (k > p => k - 1 \in 1 .. n)
      BY <1>1, <1>2
    <3>. QED BY <1>2, <1>6, <1>8, <3>1
  <2>3. ASSUME NEW a \in 1 .. n PROVE s[a] \in ToSet(d.ring)
    <3>1. CASE a < p
      BY <1>1, <1>6, <2>1, <3>1
    <3>2. CASE ~(a < p)
      <4>1. a + 1 \in 1 .. n + 1 /\ ~(a + 1 < p) /\ a + 1 # p /\ a + 1 - 1 = a
        BY <1>1, <1>2, <3>2
      <4>2. d.ring[a + 1] = s[a]
        BY <1>6, <4>1
      <4>. QED BY <2>1, <4>1, <4>2
    <3>. QED BY <3>1, <3>2
  <2>4. h \in ToSet(d.ring)
    <3>1. d.ring[p] = h
      BY <1>1, <1>2, <1>6
    <3>. QED BY <1>2, <2>1, <3>1
  <2>. QED BY <1>8, <2>1, <2>2, <2>3, <2>4
<1>11. /\ DOMAIN d.eds = DOMAIN e.eds \cup {h}
       /\ \A k \in DOMAIN d.eds : d.eds[k] = IF k = h THEN x ELSE e.eds[k]
  BY <1>5 DEF With
<1>12. Linkage(d)
  <2>1. ASSUME NEW k \in DOMAIN d.eds PROVE DOMAIN d.eds[k] = EdFields /\ Proper(d.eds[k].name)
    BY <1>3, <1>11 DEF Linkage
  <2>. QED BY <1>5, <1>6, <1>9, <1>10, <1>11, <2>1 DEF Linkage
<1>. QED BY <1>5, <1>6, <1>11, <1>12 DEF d, n, s

\* The new editor comes on the screen and is counted.
LEMMA Shows ==
    ASSUME NEW e, Linkage(e), NEW h
    PROVE  LET d == Shown(e, h)
           IN  Linkage(d) /\ d.eds = e.eds /\ d.ed = h /\ d.ring = e.ring /\ d.count = e.count + 1
<1> DEFINE d == Shown(e, h)
<1>1. DOMAIN e = EeFields
  BY DEF Linkage
<1>2. /\ DOMAIN d = EeFields /\ d.eds = e.eds /\ d.ed = h /\ d.ring = e.ring
      /\ d.count = e.count + 1
  BY <1>1 DEF EeFields, Shown
<1> HIDE DEF d
<1>3. Linkage(d)
  BY <1>2 DEF Linkage
<1>. QED BY <1>2, <1>3 DEF d

LEMMA FoundOpen ==
    ASSUME NEW e, Linkage(e), e.ed = None \/ e.ed \in DOMAIN e.eds, NEW f
    PROVE  OpenAs(e, f) = None \/ OpenAs(e, f) \in DOMAIN e.eds
<1> DEFINE i == At(e, e.ed)
           s == e.ring
           n == Len(s)
           a == SubSeq(s, i, n)
           b == SubSeq(s, 1, i - 1)
           turned == a \o b
           named == {k \in DOMAIN turned : e.eds[turned[k]].name = f}
<1>1. SUFFICES ASSUME e.ed # None, named # {} PROVE turned[Min(named)] \in DOMAIN e.eds
  BY DEF OpenAs
<1>2. n \in Nat /\ DOMAIN s = 1 .. n /\ i \in 1 .. n
  BY <1>1, Places
<1>3. \A k \in 1 .. n : s[k] \in DOMAIN e.eds
  BY InRing
<1>4. a \in Seq(DOMAIN e.eds) /\ b \in Seq(DOMAIN e.eds)
  <2>1. i \in Int /\ n \in Int /\ 1 \in Int /\ i - 1 \in Int
    BY <1>2
  <2>2. (\A k \in i .. n : s[k] \in DOMAIN e.eds) /\ (\A k \in 1 .. i - 1 : s[k] \in DOMAIN e.eds)
    BY <1>2, <1>3
  <2> HIDE DEF i, n
  <2>. QED BY <2>1, <2>2, SubSeqProperties
<1> HIDE DEF a, b
<1>5. turned \in Seq(DOMAIN e.eds)
  BY <1>4, ConcatProperties
<1> HIDE DEF turned
<1>6. DOMAIN turned = 1 .. Len(turned) /\ Len(turned) \in Nat
  BY <1>5, LenProperties
<1>7. named \subseteq Nat
  BY <1>6
<1>8. Min(named) \in DOMAIN turned
  BY <1>1, <1>7, LeastNumber
<1>. QED BY <1>5, <1>6, <1>8, ElementOfSeq

-----------------------------------------------------------------------------
(* Steps that leave the editors sound *)

\* An upset at most.
Fewer == upsets' = upsets \/ (upsets > 0 /\ upsets' = upsets - 1)

LEMMA FewerIsLess ==
    ASSUME Bounds, Fewer, UNCHANGED scope
    PROVE  Bounds' /\ upsets \in Nat /\ upsets' \in Nat /\ upsets' =< upsets
           /\ (upsets' > 0 => upsets' = upsets)
BY DEF Bounds, Fewer

LEMMA NothingOpen == Linkage(NoMemory) /\ NoMemory.ed = None /\ \A u : Counts(NoMemory, u)
<1> DEFINE none == [h \in {} |-> NoMode]
<1>1. NoMemory = [eds |-> none, ring |-> <<>>, ed |-> None, count |-> 0]
  BY DEF NoMemory
<1>2. DOMAIN none = {}
  OBVIOUS
<1> HIDE DEF none
<1>3. /\ DOMAIN NoMemory = EeFields /\ NoMemory.eds = none /\ NoMemory.ring = <<>>
      /\ NoMemory.ed = None /\ NoMemory.count = 0
  BY <1>1 DEF EeFields
<1>4. <<>> \in Seq(Handles) /\ Len(<<>>) = 0 /\ DOMAIN <<>> = {} /\ ToSet(<<>>) = {}
  BY EmptySeq DEF ToSet
<1>. QED BY <1>2, <1>3, <1>4 DEF Linkage, Counts

\* What is not at EXIT leaves an editor on the screen, or EE is over.
LEMMA Left ==
    ASSUME Bounds, Fewer, UNCHANGED scope, job' = Idle,
           NEW e, Leaves(e), Linkage(e), Counts(e, upsets'),
           e.ed = None \/ e.ed \in DOMAIN e.eds,
           e.ed = None => mode' = NoMode
    PROVE  Editors'
<1>1. Bounds'
  BY FewerIsLess
<1>2. JobSound' /\ ~Exiting'
  BY DEF JobSound, Exiting, Idle
<1>3. CASE e.ed = None
  <2>1. ee' = NoMemory /\ status' = "cms"
    BY <1>3 DEF Leaves
  <2>2. Linkage(ee') /\ Counts(ee', upsets')
    BY <2>1, NothingOpen
  <2>3. OnScreen'
    BY <1>3, <2>1 DEF OnScreen
  <2>. QED BY <1>1, <1>2, <2>2, <2>3 DEF Editors
<1>4. CASE e.ed # None
  <2>1. ee' = e /\ status' # "cms"
    BY <1>4 DEF Leaves
  <2>2. OnScreen'
    BY <1>4, <2>1 DEF OnScreen
  <2>. QED BY <1>1, <1>2, <2>1, <2>2 DEF Editors
<1>. QED BY <1>3, <1>4

\* Before the commands of the user.
LEMMA AtCommand ==
    ASSUME Editors, job = Idle, status # "cms"
    PROVE  /\ Linkage(ee) /\ Counts(ee, upsets) /\ ee.ed \in DOMAIN ee.eds /\ ee.ed # None
           /\ Bounds
<1>1. ee.ed \in DOMAIN ee.eds
  BY DEF Editors, OnScreen, Exiting
<1>. QED BY <1>1, Places DEF Editors

LEMMA CountsOn ==
    ASSUME NEW e, NEW d, Counts(e, upsets), Bounds, Fewer, UNCHANGED scope,
           \/ d.count = e.count /\ Len(d.ring) = Len(e.ring)
           \/ d.count = e.count - 1 /\ Len(d.ring) = Len(e.ring) - 1
    PROVE  Counts(d, upsets')
BY FewerIsLess DEF Counts

\* The lines of an editor change.
LEMMA Changes ==
    ASSUME NEW e, Linkage(e), NEW h \in DOMAIN e.eds, NEW r
    PROVE  LET d == [e EXCEPT !.eds[h].r = r]
           IN  /\ Linkage(d) /\ DOMAIN d.eds = DOMAIN e.eds /\ d.ed = e.ed
               /\ d.ring = e.ring /\ d.count = e.count
               /\ d.eds[h].name = e.eds[h].name
<1> DEFINE x == [e.eds[h] EXCEPT !.r = r]
<1>1. DOMAIN e.eds[h] = EdFields /\ Proper(e.eds[h].name) /\ DOMAIN e = EeFields
  BY DEF Linkage
<1>2. DOMAIN x = EdFields /\ x.name = e.eds[h].name
  BY <1>1 DEF EdFields
<1>3. [e EXCEPT !.eds[h].r = r] = [e EXCEPT !.eds[h] = x]
  BY <1>1 DEF EeFields
<1> HIDE DEF x
<1>. QED BY <1>1, <1>2, <1>3, Edits

LEMMA Unmodifies ==
    ASSUME NEW e, Linkage(e), NEW h \in DOMAIN e.eds, Proper(job.name)
    PROVE  LET d == Unmodified(e, h)
           IN  /\ Linkage(d) /\ DOMAIN d.eds = DOMAIN e.eds /\ d.ed = e.ed
               /\ d.ring = e.ring /\ d.count = e.count
<1> DEFINE x == [e.eds[h] EXCEPT !.name = job.name, !.base = Content(e.eds[h].r),
                                 !.r.modified = FALSE]
<1>1. DOMAIN e.eds[h] = EdFields /\ DOMAIN e = EeFields
  BY DEF Linkage
<1>2. DOMAIN x = EdFields /\ x.name = job.name
  BY <1>1 DEF EdFields
<1>3. Unmodified(e, h) = [e EXCEPT !.eds[h] = x]
  BY <1>1 DEF EeFields, Unmodified
<1> HIDE DEF x
<1>. QED BY <1>2, <1>3, Edits

\* A file being written is an editor's.
LEMMA AtJob ==
    ASSUME Editors, job # Idle
    PROVE  /\ Linkage(ee) /\ Counts(ee, upsets) /\ Bounds
           /\ status # "cms" /\ mode = NoMode
           /\ ~Exiting => ee.ed \in DOMAIN ee.eds /\ ee.ed # None
           /\ job.at # "next" =>
                 /\ DOMAIN job = JobFields /\ job.at \in WriteSteps
                 /\ job.cmd \in {"SAVE", "FILE", "PUT", "PUTD", "EXIT"}
                 /\ job.h \in DOMAIN ee.eds /\ Proper(job.name) /\ IsList(job.text)
                 /\ job.lines \in Nat /\ (job.cmd = "EXIT" => ee.count # 0)
           /\ job.at = "next" =>
                 /\ DOMAIN job = {"cmd", "at", "h"} /\ job.cmd = "EXIT"
                 /\ job.h \in DOMAIN ee.eds \/ ee.count = 0
<1>1. status # "cms" /\ mode = NoMode
  BY DEF Editors, OnScreen
<1>2. ~Exiting => ee.ed \in DOMAIN ee.eds
  BY <1>1 DEF Editors, OnScreen
<1>3. Linkage(ee)
  BY DEF Editors
<1>4. "next" \notin WriteSteps
  BY DEF WriteSteps
<1>. QED BY <1>1, <1>2, <1>3, <1>4, Places DEF Editors, JobSound, IsList

LEMMA Writes ==
    ASSUME NEW e, Linkage(e), NEW cmd \in {"SAVE", "FILE", "PUT", "PUTD", "EXIT"},
           NEW h \in DOMAIN e.eds, NEW f, Proper(f), NEW force, NEW txts, IsList(txts), NEW range,
           Write(e, cmd, h, f, force, txts, range), cmd = "EXIT" => e.count # 0
    PROVE  /\ Linkage(ee') /\ ee'.ring = e.ring /\ ee'.count = e.count /\ ee'.eds = e.eds
           /\ JobSound' /\ ~Under'
           /\ cmd # "EXIT" => ee'.ed = e.ed /\ ~Exiting'
           /\ cmd = "EXIT" => (job' # Idle /\ Exiting') \/ (job' = Idle /\ ee'.ed = h)
<1>1. CASE e.eds[h].binary
  <2>1. job' = Idle /\ ee' = IF cmd = "EXIT" THEN [e EXCEPT !.ed = h] ELSE e
    BY <1>1 DEF Write
  <2>2. JobSound' /\ ~Under' /\ ~Exiting'
    BY <2>1 DEF JobSound, Under, Exiting
  <2>. QED BY <2>1, <2>2, Turns
<1>2. CASE ~e.eds[h].binary
  <2>1. /\ ee' = e
        /\ job' = [cmd |-> cmd, h |-> h, name |-> f, force |-> force, text |-> Written(txts),
                   range |-> range, at |-> "drop EE$OLD", lines |-> 0, existed |-> FALSE,
                   result |-> 0]
    BY <1>2 DEF Write
  <2>2. /\ DOMAIN job' = JobFields /\ job'.cmd = cmd /\ job'.h = h /\ job'.name = f
        /\ job'.text = Written(txts) /\ job'.at = "drop EE$OLD" /\ job'.lines = 0
    BY <2>1 DEF JobFields
  <2>3. DOMAIN Idle = {"cmd"} /\ DOMAIN job' # {"cmd"}
    BY <2>2 DEF Idle, JobFields
  <2>4. IsList(job'.text)
    BY <2>2, WrittenIsList
  <2>5. JobSound' /\ ~Under'
    BY <2>1, <2>2, <2>4 DEF JobSound, Under, WriteSteps, IsList
  <2>6. Exiting' = (cmd = "EXIT") /\ job' # Idle
    BY <2>2, <2>3 DEF Exiting
  <2>. QED BY <2>1, <2>5, <2>6
<1>. QED BY <1>1, <1>2

-----------------------------------------------------------------------------
(* Each action leaves the editors sound *)

\* A step of writeToFile() goes on with the same file.
LEMMA WriteStepJob ==
    ASSUME Editors, WriteStep
    PROVE  /\ DOMAIN job' = JobFields /\ job'.at \in WriteSteps /\ job' # Idle
           /\ job'.cmd = job.cmd /\ job'.h = job.h /\ job'.name = job.name
           /\ job'.text = job.text /\ job'.lines \in Nat
           /\ job # Idle /\ DOMAIN job = JobFields /\ job.at \in WriteSteps
           /\ job.cmd \in {"SAVE", "FILE", "PUT", "PUTD", "EXIT"}
           /\ job.h \in DOMAIN ee.eds /\ Proper(job.name) /\ IsList(job.text)
           /\ job.lines \in Nat /\ (job.cmd = "EXIT" => ee.count # 0)
           /\ Fewer /\ UNCHANGED <<ee, mode, status, scope>>
<1>1. job # Idle /\ UNCHANGED <<ee, mode, status, scope>>
  BY DEF WriteStep
<1>2. job.at # "next"
  BY DEF WriteStep, DropOld, DropTmp, Drop, Look, WriteLine, Hide, Show, EraseOld
<1>3. /\ DOMAIN job = JobFields /\ job.at \in WriteSteps
      /\ job.cmd \in {"SAVE", "FILE", "PUT", "PUTD", "EXIT"}
      /\ job.h \in DOMAIN ee.eds /\ Proper(job.name) /\ IsList(job.text)
      /\ job.lines \in Nat /\ (job.cmd = "EXIT" => ee.count # 0)
  BY <1>1, <1>2, AtJob
<1>4. Fewer
  BY DEF WriteStep, DropOld, DropTmp, Drop, Look, WriteLine, Hide, Show, EraseOld, Fewer,
         GoTo, EndWith, Fails
<1> DEFINE Same == /\ DOMAIN job' = JobFields /\ job'.at \in WriteSteps
                   /\ job'.cmd = job.cmd /\ job'.h = job.h /\ job'.name = job.name
                   /\ job'.text = job.text /\ job'.lines \in Nat
<1>5. ASSUME NEW at \in WriteSteps, GoTo(at) PROVE Same
  BY <1>3, <1>5 DEF GoTo, JobFields
<1>6. ASSUME NEW result, EndWith(result) PROVE Same
  BY <1>3, <1>6 DEF EndWith, JobFields, WriteSteps
<1>7. Same
  <2>1. CASE DropOld \/ DropTmp
    <3>1. GoTo("drop EE$TMP") \/ GoTo("look") \/ EndWith(2)
      BY <2>1 DEF DropOld, DropTmp, Drop, Fails
    <3>2. "drop EE$TMP" \in WriteSteps /\ "look" \in WriteSteps
      BY DEF WriteSteps
    <3>. QED BY <1>5, <1>6, <3>1, <3>2
  <2>2. CASE Look
    <3>1. CASE EndWith(1) \/ EndWith(3)
      BY <1>6, <3>1
    <3>2. CASE job' = [job EXCEPT !.at = "write", !.existed = job.name \in DOMAIN disk]
      BY <1>3, <3>2 DEF JobFields, WriteSteps
    <3>. QED BY <2>2, <3>1, <3>2 DEF Look, Fails
  <2>3. CASE WriteLine
    <3>1. CASE EndWith(5)
      BY <1>6, <3>1
    <3>2. CASE job' = [job EXCEPT !.lines = @ + 1,
                                  !.at = IF job.lines + 1 = Len(job.text) THEN "hide" ELSE @]
      <4> DEFINE at == IF job.lines + 1 = Len(job.text) THEN "hide" ELSE job.at
      <4>0. "hide" \in WriteSteps /\ job.at \in WriteSteps
        BY <1>3 DEF WriteSteps
      <4>1. at \in WriteSteps /\ job.lines + 1 \in Nat
        BY <1>3, <4>0
      <4>2. job' = [job EXCEPT !.lines = job.lines + 1, !.at = at]
        BY <3>2
      <4> HIDE DEF at
      <4>. QED BY <1>3, <4>1, <4>2 DEF JobFields
    <3>. QED BY <2>3, <3>1, <3>2 DEF WriteLine, Fails
  <2>4. CASE Hide \/ Show \/ EraseOld
    <3>1. GoTo("show") \/ GoTo("erase") \/ EndWith(2) \/ EndWith(0)
      BY <2>4 DEF Hide, Show, EraseOld, Fails
    <3>2. "show" \in WriteSteps /\ "erase" \in WriteSteps
      BY DEF WriteSteps
    <3>. QED BY <1>5, <1>6, <3>1, <3>2
  <2>. QED BY <2>1, <2>2, <2>3, <2>4 DEF WriteStep
<1>8. job' # Idle
  BY <1>7 DEF JobFields, Idle
<1>. QED BY <1>1, <1>3, <1>4, <1>7, <1>8

LEMMA WriteStepEditors == ASSUME Editors, WriteStep PROVE Editors'
<1>1. /\ DOMAIN job' = JobFields /\ job'.at \in WriteSteps /\ job' # Idle
      /\ job'.cmd = job.cmd /\ job'.h = job.h /\ job'.name = job.name
      /\ job'.text = job.text /\ job'.lines \in Nat /\ job # Idle
      /\ job.cmd \in {"SAVE", "FILE", "PUT", "PUTD", "EXIT"}
      /\ job.h \in DOMAIN ee.eds /\ Proper(job.name) /\ IsList(job.text)
      /\ (job.cmd = "EXIT" => ee.count # 0)
      /\ Fewer /\ UNCHANGED <<ee, mode, status, scope>>
  BY WriteStepJob
<1>2. JobSound'
  BY <1>1 DEF JobSound, IsList
<1>3. OnScreen'
  <2>1. Exiting' = Exiting
    BY <1>1 DEF Exiting
  <2>2. status # "cms" /\ mode = NoMode /\ (~Exiting => ee.ed \in DOMAIN ee.eds)
    BY <1>1, AtJob
  <2>. QED BY <1>1, <2>1, <2>2 DEF OnScreen
<1>4. Bounds' /\ Counts(ee, upsets')
  BY <1>1, CountsOn, FewerIsLess DEF Editors
<1>. QED BY <1>1, <1>2, <1>3, <1>4 DEF Editors

LEMMA EndSaveEditors == ASSUME Editors, EndSave PROVE Editors'
<1>1. /\ job # Idle /\ job.at = "end" /\ job.cmd \in {"SAVE", "FILE"} /\ job' = Idle
      /\ UNCHANGED <<mode, scope, upsets>>
  BY DEF EndSave
<1>2. ~Exiting /\ job.at # "next"
  BY <1>1 DEF Exiting
<1>3. /\ Linkage(ee) /\ Counts(ee, upsets) /\ Bounds /\ mode = NoMode
      /\ ee.ed \in DOMAIN ee.eds /\ job.h \in DOMAIN ee.eds /\ Proper(job.name)
  BY <1>1, <1>2, AtJob
<1>4. Fewer /\ mode' = NoMode
  BY <1>1, <1>3 DEF Fewer
<1> DEFINE d == Unmodified(ee, job.h)
           c == Closed(d, job.h)
<1>5. /\ Linkage(d) /\ DOMAIN d.eds = DOMAIN ee.eds /\ d.ed = ee.ed
      /\ d.ring = ee.ring /\ d.count = ee.count
  BY <1>3, Unmodifies
<1>6. /\ Linkage(c) /\ (c.ed = None \/ c.ed \in DOMAIN c.eds)
      /\ c.count = d.count - 1 /\ Len(c.ring) = Len(d.ring) - 1
  BY <1>3, <1>5, Closes
<1>7. Leaves(ee) \/ Leaves(c) \/ Leaves(d)
  BY DEF EndSave
<1> HIDE DEF c, d
<1>8. Counts(ee, upsets') /\ Counts(d, upsets') /\ Counts(c, upsets')
  BY <1>1, <1>3, <1>4, <1>5, <1>6, CountsOn
<1>. QED BY <1>1, <1>3, <1>4, <1>5, <1>6, <1>7, <1>8, Left

LEMMA EndPutEditors == ASSUME Editors, EndPut PROVE Editors'
<1>1. /\ job # Idle /\ job.at = "end" /\ job.cmd \in {"PUT", "PUTD"} /\ job' = Idle
      /\ UNCHANGED <<mode, scope, upsets>>
  BY DEF EndPut
<1>2. ~Exiting /\ job.at # "next"
  BY <1>1 DEF Exiting
<1>3. /\ Linkage(ee) /\ Counts(ee, upsets) /\ Bounds /\ mode = NoMode
      /\ ee.ed \in DOMAIN ee.eds /\ job.h \in DOMAIN ee.eds
  BY <1>1, <1>2, AtJob
<1>4. Fewer /\ mode' = NoMode
  BY <1>1, <1>3 DEF Fewer
<1> DEFINE r == DeleteLineRange(ee.eds[job.h].r, job.range[1], job.range[2])
           d == [ee EXCEPT !.eds[job.h].r = r]
<1>5. Leaves(ee) \/ Leaves(d)
  <2>1. d = [ee EXCEPT !.eds[job.h].r = DeleteLineRange(@, job.range[1], job.range[2])]
    OBVIOUS
  <2>. QED BY <2>1 DEF EndPut
<1> HIDE DEF r
<1>6. /\ Linkage(d) /\ DOMAIN d.eds = DOMAIN ee.eds /\ d.ed = ee.ed
      /\ d.ring = ee.ring /\ d.count = ee.count
  BY <1>3, Changes
<1> HIDE DEF d
<1>7. Counts(ee, upsets') /\ Counts(d, upsets')
  BY <1>1, <1>3, <1>4, <1>6, CountsOn
<1>. QED BY <1>1, <1>3, <1>4, <1>5, <1>6, <1>7, Left

\* EXIT frees an editor and goes on to the next one, if one is left.
LEMMA ExitsOn ==
    ASSUME Bounds, UNCHANGED <<scope, upsets, status, mode>>, status # "cms", mode = NoMode,
           NEW d, Linkage(d), Counts(d, upsets), NEW h \in DOMAIN d.eds, d.count # 0,
           ee' = Freed(d, h), job' = [cmd |-> "EXIT", at |-> "next", h |-> NextEd(d, h)]
    PROVE  Editors'
<1>1. /\ Linkage(ee') /\ DOMAIN ee'.eds = DOMAIN d.eds \ {h}
      /\ ee'.count = d.count - 1 /\ Len(ee'.ring) = Len(d.ring) - 1
  BY Frees
<1>2. DOMAIN job' = {"cmd", "at", "h"} /\ job'.cmd = "EXIT" /\ job'.at = "next" /\ job'.h = NextEd(d, h)
  OBVIOUS
<1>3. job'.h \in DOMAIN ee'.eds \/ ee'.count = 0
  <2>1. NextEd(d, h) \in DOMAIN d.eds /\ (NextEd(d, h) = h => Len(d.ring) = 1)
    BY Neighbours
  <2>2. Len(d.ring) = 1 => d.count = 1
    BY DEF Counts
  <2>. QED BY <1>1, <1>2, <2>1, <2>2
<1>4. job' # Idle
  BY <1>2 DEF Idle
<1>5. Exiting'
  BY <1>2, <1>4 DEF Exiting
<1>6. JobSound' /\ OnScreen'
  BY <1>2, <1>3, <1>5 DEF JobSound, OnScreen
<1>7. Fewer
  BY DEF Fewer
<1>8. Bounds' /\ Counts(ee', upsets')
  BY <1>1, <1>7, CountsOn DEF Bounds
<1>. QED BY <1>1, <1>6, <1>8 DEF Editors

LEMMA EndExitEditors == ASSUME Editors, EndExit PROVE Editors'
<1>1. /\ job # Idle /\ job.at = "end" /\ job.cmd = "EXIT"
      /\ UNCHANGED <<mode, status, scope, upsets>>
  BY DEF EndExit
<1>2. job.at # "next"
  BY <1>1
<1>3. /\ Linkage(ee) /\ Counts(ee, upsets) /\ Bounds /\ mode = NoMode /\ status # "cms"
      /\ job.h \in DOMAIN ee.eds /\ Proper(job.name) /\ ee.count # 0
  BY <1>1, <1>2, AtJob
<1>4. CASE job.result # 0
  <2>1. ee' = [ee EXCEPT !.ed = job.h] /\ job' = Idle
    BY <1>4 DEF EndExit
  <2>2. Linkage(ee') /\ ee'.eds = ee.eds /\ ee'.ed = job.h /\ ee'.ring = ee.ring /\ ee'.count = ee.count
    BY <1>3, <2>1, Turns
  <2>3. JobSound' /\ OnScreen' /\ Bounds'
    BY <1>1, <1>3, <2>1, <2>2 DEF JobSound, OnScreen, Bounds
  <2>4. Counts(ee', upsets')
    BY <1>1, <1>3, <2>2 DEF Counts
  <2>. QED BY <2>2, <2>3, <2>4 DEF Editors
<1>5. CASE job.result = 0
  <2> DEFINE d == Unmodified(ee, job.h)
  <2>1. /\ Linkage(d) /\ DOMAIN d.eds = DOMAIN ee.eds /\ d.ring = ee.ring /\ d.count = ee.count
    BY <1>3, Unmodifies
  <2>2. ee' = Freed(d, job.h) /\ job' = [cmd |-> "EXIT", at |-> "next", h |-> NextEd(ee, job.h)]
    BY <1>5 DEF EndExit
  <2> HIDE DEF d
  <2>3. NextEd(ee, job.h) = NextEd(d, job.h)
    BY <2>1 DEF NextEd, At
  <2>4. Counts(d, upsets)
    BY <1>3, <2>1 DEF Counts
  <2>. QED BY <1>1, <1>3, <2>1, <2>2, <2>3, <2>4, ExitsOn
<1>. QED BY <1>4, <1>5

LEMMA ExitNextEditors == ASSUME Editors, ExitNext PROVE Editors'
<1>1. /\ job # Idle /\ job.at = "next" /\ UNCHANGED <<mode, scope, upsets>>
  BY DEF ExitNext
<1>2. /\ Linkage(ee) /\ Counts(ee, upsets) /\ Bounds /\ mode = NoMode /\ status # "cms"
      /\ DOMAIN job = {"cmd", "at", "h"} /\ job.cmd = "EXIT"
      /\ job.h \in DOMAIN ee.eds \/ ee.count = 0
  BY <1>1, AtJob
<1>3. Fewer
  BY <1>1 DEF Fewer
<1>4. CASE ee.count = 0
  <2> DEFINE d == [ee EXCEPT !.ed = None]
  <2>1. Leaves(d) /\ job' = Idle
    BY <1>4 DEF ExitNext
  <2>2. Linkage(d) /\ d.ed = None /\ d.ring = ee.ring /\ d.count = ee.count
    BY <1>2, Turns
  <2> HIDE DEF d
  <2>3. Counts(d, upsets')
    BY <1>1, <1>2, <2>2 DEF Counts
  <2>. QED BY <1>1, <1>2, <1>3, <2>1, <2>2, <2>3, Left
<1>5. CASE ee.count # 0
  <2> DEFINE e == ee.eds[job.h]
  <2>1. UNCHANGED status /\ job.h \in DOMAIN ee.eds /\ Proper(e.name)
    BY <1>2, <1>5 DEF ExitNext, Linkage
  <2>2. CASE e.r.modified
    <3>1. Write(ee, "EXIT", job.h, e.name, TRUE, Content(e.r), <<>>)
      BY <1>5, <2>2 DEF ExitNext
    <3>2. IsList(Content(e.r)) /\ "EXIT" \in {"SAVE", "FILE", "PUT", "PUTD", "EXIT"}
      BY ContentIsList
    <3> HIDE DEF e
    <3>3. /\ Linkage(ee') /\ ee'.ring = ee.ring /\ ee'.count = ee.count /\ ee'.eds = ee.eds
          /\ JobSound' /\ ((job' # Idle /\ Exiting') \/ (job' = Idle /\ ee'.ed = job.h))
      BY <1>2, <1>5, <2>1, <3>1, <3>2, Writes
    <3>4. OnScreen'
      BY <1>1, <1>2, <2>1, <3>3 DEF OnScreen
    <3>5. Bounds' /\ Counts(ee', upsets')
      BY <1>1, <1>2, <3>3 DEF Bounds, Counts
    <3>. QED BY <3>3, <3>4, <3>5 DEF Editors
  <2>3. CASE ~e.r.modified
    <3>1. ee' = Freed(ee, job.h) /\ job' = [job EXCEPT !.h = NextEd(ee, job.h)]
      BY <1>5, <2>3 DEF ExitNext
    <3>2. job' = [cmd |-> "EXIT", at |-> "next", h |-> NextEd(ee, job.h)]
      BY <1>1, <1>2, <3>1
    <3>. QED BY <1>1, <1>2, <1>5, <2>1, <3>1, <3>2, ExitsOn
  <2>. QED BY <2>2, <2>3
<1>. QED BY <1>4, <1>5

-----------------------------------------------------------------------------
(* The commands *)

LEMMA CommandIs ==
    ASSUME NEW c, NEW where, Command(c, where)
    PROVE  job = Idle /\ mode = NoMode /\ status \in where /\ c \in scope.cmds
           /\ UNCHANGED <<mode, scope, clobbered>>
BY DEF Command

LEMMA EditFileEditors == ASSUME Editors, EditFile PROVE Editors'
<1>1. PICK c \in scope.cmds :
        /\ Command(c, {"edit", "cms"}) /\ c.c = "EDIT" /\ Handles \ DOMAIN ee.eds # {}
        /\ \/ Leaves(Opening(ee, c.f)) /\ UNCHANGED upsets
           \/ /\ upsets > 0 /\ upsets' = upsets - 1
              /\ \E e \in FailedOpenings(ee, c.f) : Leaves(e)
        /\ job' = Idle
  BY DEF EditFile
<1>2. job = Idle /\ mode = NoMode /\ UNCHANGED <<mode, scope>>
  BY <1>1, CommandIs
<1>3. Linkage(ee) /\ Counts(ee, upsets) /\ Bounds
  BY DEF Editors
<1>4. ee.ed = None \/ ee.ed \in DOMAIN ee.eds
  <2>1. CASE status = "cms"
    BY <2>1, NothingOpen DEF Editors, OnScreen
  <2>2. CASE status # "cms"
    BY <1>2, <2>2, AtCommand
  <2>. QED BY <2>1, <2>2
<1>5. Fewer /\ mode' = NoMode
  BY <1>1, <1>2 DEF Fewer
<1>6. Proper(c.f)
  <2>1. scope \in Scopes /\ c \in scope.cmds
    BY <1>1, <1>3 DEF Bounds
  <2>. QED BY <1>1, <2>1, SessionAssumption
<1> DEFINE Fine(e) == Linkage(e) /\ Counts(e, upsets') /\ (e.ed = None \/ e.ed \in DOMAIN e.eds)
<1>7. Fine(ee)
  BY <1>2, <1>3, <1>4, <1>5, CountsOn
<1>8. Fresh \in Handles \ DOMAIN ee.eds
  <2>1. Handles \ DOMAIN ee.eds \subseteq Nat
    BY SessionAssumption
  <2>. QED BY <1>1, <2>1, LeastNumber DEF Fresh
<1>9. ASSUME NEW txts, NEW sound
      PROVE  /\ Fine(Shown(Linked(ee, Fresh, c.f, txts, sound), Fresh))
             /\ upsets' < upsets => Fine(Linked(ee, Fresh, c.f, txts, sound))
  <2> DEFINE l == Linked(ee, Fresh, c.f, txts, sound)
             d == Shown(l, Fresh)
  <2>1. /\ Linkage(l) /\ DOMAIN l.eds = DOMAIN ee.eds \cup {Fresh}
        /\ l.ed = ee.ed /\ l.count = ee.count /\ Len(l.ring) = Len(ee.ring) + 1
    BY <1>3, <1>4, <1>6, <1>8, Links
  <2> HIDE DEF l
  <2>2. Linkage(d) /\ d.eds = l.eds /\ d.ed = Fresh /\ d.ring = l.ring /\ d.count = l.count + 1
    BY <2>1, Shows
  <2> HIDE DEF d
  <2>3. upsets \in {0, 1} /\ upsets' =< upsets /\ (upsets' > 0 => upsets' = upsets) /\ upsets' \in Nat
    BY <1>2, <1>3, <1>5, FewerIsLess DEF Bounds
  <2>4. Len(ee.ring) \in Nat
    BY <1>3, LenProperties DEF Linkage
  <2>5. Counts(d, upsets')
    BY <1>3, <2>1, <2>2, <2>3, <2>4 DEF Counts
  <2>6. upsets' < upsets => Counts(l, upsets')
    BY <1>3, <2>1, <2>3, <2>4 DEF Counts
  <2>. QED BY <1>4, <2>1, <2>2, <2>5, <2>6 DEF l, d
<1>10. \E e : Leaves(e) /\ Fine(e)
  <2>1. CASE Leaves(Opening(ee, c.f))
    <3>1. CASE OpenAs(ee, c.f) # None
      <4>1. OpenAs(ee, c.f) \in DOMAIN ee.eds
        BY <1>3, <1>4, <3>1, FoundOpen
      <4> DEFINE d == [ee EXCEPT !.ed = OpenAs(ee, c.f)]
      <4>2. /\ Linkage(d) /\ d.eds = ee.eds /\ d.ed = OpenAs(ee, c.f)
            /\ d.ring = ee.ring /\ d.count = ee.count
        BY <1>3, Turns
      <4>3. Leaves(d)
        BY <2>1, <3>1 DEF Opening
      <4> HIDE DEF d
      <4>4. Counts(d, upsets')
        BY <1>7, <4>2 DEF Counts
      <4>. QED BY <4>1, <4>2, <4>3, <4>4
    <3>2. CASE OpenAs(ee, c.f) = None
      <4> DEFINE txts == IF c.f \in DOMAIN disk THEN disk[c.f] ELSE <<>>
      <4>1. Leaves(Shown(Linked(ee, Fresh, c.f, txts, TRUE), Fresh))
        BY <2>1, <3>2 DEF Opening
      <4> HIDE DEF txts
      <4>. QED BY <1>9, <4>1
    <3>. QED BY <3>1, <3>2
  <2>2. ASSUME upsets > 0, upsets' = upsets - 1,
               NEW e \in FailedOpenings(ee, c.f), Leaves(e)
        PROVE  Fine(e)
    <3> HIDE DEF Fine
    <3>1. upsets' < upsets
      BY <1>3, <2>2 DEF Bounds
    <3>2. \/ e = ee
          \/ e = Shown(Linked(ee, Fresh, c.f, <<>>, FALSE), Fresh)
          \/ \E n \in 0 .. Len(disk[c.f]) - 1 :
                e = Linked(ee, Fresh, c.f, SubSeq(disk[c.f], 1, n), FALSE)
      <4>1. OpenAs(ee, c.f) = None
        BY <2>2 DEF FailedOpenings
      <4>2. CASE c.f \notin DOMAIN disk
        BY <2>2, <4>1, <4>2 DEF FailedOpenings
      <4>3. CASE c.f \in DOMAIN disk
        BY <2>2, <4>1, <4>3 DEF FailedOpenings
      <4>. QED BY <4>2, <4>3
    <3>. QED BY <1>7, <1>9, <3>1, <3>2
  <2>. QED BY <1>1, <2>1, <2>2
<1>. QED BY <1>1, <1>2, <1>3, <1>5, <1>10, Left

LEMMA RingEditors == ASSUME Editors, Ring PROVE Editors'
<1>1. PICK c \in scope.cmds :
        /\ Command(c, {"edit", "rescue"})
        /\ Leaves([ee EXCEPT !.ed = IF c.c = "RINGNEXT" THEN NextEd(ee, @) ELSE PrevEd(ee, @)])
        /\ job' = Idle /\ UNCHANGED upsets
  BY DEF Ring, Quietly
<1>2. job = Idle /\ status # "cms" /\ UNCHANGED <<mode, scope>>
  BY <1>1, CommandIs
<1>3. Linkage(ee) /\ Counts(ee, upsets) /\ ee.ed \in DOMAIN ee.eds /\ ee.ed # None /\ Bounds
  BY <1>2, AtCommand
<1> DEFINE x == IF c.c = "RINGNEXT" THEN NextEd(ee, ee.ed) ELSE PrevEd(ee, ee.ed)
           d == [ee EXCEPT !.ed = x]
<1>4. Leaves(d)
  BY <1>1
<1>5. x \in DOMAIN ee.eds /\ x # None
  BY <1>3, Neighbours, Places
<1> HIDE DEF x
<1>6. Linkage(d) /\ d.eds = ee.eds /\ d.ed = x /\ d.ring = ee.ring /\ d.count = ee.count
  BY <1>3, Turns
<1> HIDE DEF d
<1>7. Fewer
  BY <1>1 DEF Fewer
<1>8. Counts(d, upsets')
  BY <1>2, <1>3, <1>6, <1>7, CountsOn
<1>. QED BY <1>1, <1>2, <1>3, <1>4, <1>5, <1>6, <1>7, <1>8, Left

\* The lines of the editor on the screen change.
LEMMA ChangedEditors ==
    ASSUME Editors, job = Idle, job' = Idle, status # "cms", Fewer, UNCHANGED scope,
           NEW r, Changed(r)
    PROVE  Editors'
<1> DEFINE d == [ee EXCEPT !.eds[ee.ed].r = r]
<1>1. Linkage(ee) /\ Counts(ee, upsets) /\ ee.ed \in DOMAIN ee.eds /\ ee.ed # None /\ Bounds
  BY AtCommand
<1>2. /\ Linkage(d) /\ DOMAIN d.eds = DOMAIN ee.eds /\ d.ed = ee.ed
      /\ d.ring = ee.ring /\ d.count = ee.count
  BY <1>1, Changes
<1>3. Leaves(d)
  BY DEF Changed
<1> HIDE DEF d
<1>4. Counts(d, upsets')
  BY <1>1, <1>2, CountsOn
<1>. QED BY <1>1, <1>2, <1>3, <1>4, Left

LEMMA EditEditors == ASSUME Editors, Edit PROVE Editors'
<1>1. PICK c \in scope.cmds :
        Command(c, {"edit"}) /\ Changed(Line(c)) /\ job' = Idle /\ UNCHANGED upsets
  BY DEF Edit
<1>2. job = Idle /\ status # "cms" /\ UNCHANGED scope
  BY <1>1, CommandIs
<1>. QED BY <1>1, <1>2, ChangedEditors DEF Fewer

\* A command that writes the file.
LEMMA WriteBegins ==
    ASSUME Editors, job = Idle, mode = NoMode, status # "cms", UNCHANGED <<mode, scope, upsets, status>>,
           NEW e, Linkage(e), e.ed = ee.ed, DOMAIN e.eds = DOMAIN ee.eds, e.ring = ee.ring,
           e.count = ee.count,
           NEW cmd \in {"SAVE", "FILE", "PUT", "PUTD"}, NEW f, Proper(f), NEW force,
           NEW txts, IsList(txts), NEW range, Write(e, cmd, ee.ed, f, force, txts, range)
    PROVE  Editors' /\ ~Under'
<1>1. Counts(ee, upsets) /\ ee.ed \in DOMAIN e.eds /\ Bounds
  BY AtCommand
<1>2. cmd # "EXIT" /\ cmd \in {"SAVE", "FILE", "PUT", "PUTD", "EXIT"}
  OBVIOUS
<1>3. /\ Linkage(ee') /\ ee'.ring = e.ring /\ ee'.count = e.count /\ ee'.eds = e.eds
      /\ JobSound' /\ ~Under' /\ ee'.ed = e.ed
  BY <1>1, <1>2, Writes
<1>4. OnScreen' /\ Bounds' /\ Counts(ee', upsets')
  BY <1>1, <1>3 DEF OnScreen, Bounds, Counts
<1>. QED BY <1>3, <1>4 DEF Editors

LEMMA SaveEditors == ASSUME Editors, Save PROVE Editors' /\ job = Idle /\ ~Under'
<1>1. PICK c \in scope.cmds :
        /\ \/ Command(c, {"edit", "rescue"}) /\ c.c = "FILE"
           \/ Command(c, {"edit"}) /\ c.c = "SAVE"
        /\ Write(ee, c.c, ee.ed, IF c.f = <<>> THEN Here.name ELSE c.f, c.f = <<>> \/ c.n = 1,
                 Content(Here.r), <<>>)
        /\ UNCHANGED <<upsets, status>>
  BY DEF Save
<1>2. job = Idle /\ mode = NoMode /\ status # "cms" /\ UNCHANGED <<mode, scope>>
  BY <1>1, CommandIs
<1>3. c.c \in {"SAVE", "FILE", "PUT", "PUTD"}
  BY <1>1
<1>4. Linkage(ee) /\ ee.ed \in DOMAIN ee.eds /\ Bounds
  BY <1>2, AtCommand
<1>5. Proper(IF c.f = <<>> THEN Here.name ELSE c.f)
  <2>1. scope \in Scopes
    BY <1>4 DEF Bounds
  <2>2. c.f # <<>> => Proper(c.f)
    BY <2>1, SessionAssumption
  <2>3. Proper(Here.name)
    BY <1>4 DEF Here, Linkage
  <2>. QED BY <2>2, <2>3
<1> DEFINE f == IF c.f = <<>> THEN Here.name ELSE c.f
           force == c.f = <<>> \/ c.n = 1
           txts == Content(Here.r)
<1>6. IsList(txts)
  BY ContentIsList
<1>7. Write(ee, c.c, ee.ed, f, force, txts, <<>>)
  BY <1>1
<1>8. Proper(f)
  BY <1>5
<1> HIDE DEF f, force, txts
<1>. QED BY <1>1, <1>2, <1>3, <1>4, <1>6, <1>7, <1>8, WriteBegins

LEMMA PutEditors == ASSUME Editors, Put PROVE Editors' /\ job = Idle /\ ~Under'
<1>1. PICK c \in scope.cmds :
        /\ Command(c, {"edit"}) /\ c.c \in {"PUT", "PUTD"}
        /\ LET r == Reached(Here.r, c.n)
               range == RangeOf(Here.r, c.n)
               e == [ee EXCEPT !.eds[ee.ed].r = r]
               texts == [i \in DOMAIN Between(r, range[1], range[2]) |->
                            r.text[Between(r, range[1], range[2])[i]]]
           IN  IF range = <<>> THEN ee' = e /\ job' = Idle
               ELSE Write(e, c.c, ee.ed, c.f, c.f = Buffer, texts, range)
        /\ UNCHANGED <<upsets, status>>
  BY DEF Put
<1>2. job = Idle /\ mode = NoMode /\ status # "cms" /\ UNCHANGED <<mode, scope>>
  BY <1>1, CommandIs
<1>3. Linkage(ee) /\ Counts(ee, upsets) /\ ee.ed \in DOMAIN ee.eds /\ Bounds
  BY <1>2, AtCommand
<1> DEFINE r == Reached(Here.r, c.n)
           range == RangeOf(Here.r, c.n)
           e == [ee EXCEPT !.eds[ee.ed].r = r]
           texts == [i \in DOMAIN Between(r, range[1], range[2]) |->
                        r.text[Between(r, range[1], range[2])[i]]]
           force == c.f = Buffer
<1>4. \/ ee' = e /\ job' = Idle
      \/ Write(e, c.c, ee.ed, c.f, force, texts, range)
  BY <1>1
<1>5. IsList(texts)
  BY RangeIsList
<1> HIDE DEF r, range, texts, force
<1>6. /\ Linkage(e) /\ DOMAIN e.eds = DOMAIN ee.eds /\ e.ed = ee.ed
      /\ e.ring = ee.ring /\ e.count = ee.count
  BY <1>3, Changes
<1> HIDE DEF e
<1>7. CASE ee' = e /\ job' = Idle
  <2>1. JobSound' /\ ~Under' /\ ~Exiting'
    BY <1>7 DEF JobSound, Under, Exiting
  <2>2. OnScreen' /\ Bounds' /\ Counts(ee', upsets')
    BY <1>1, <1>2, <1>3, <1>6, <1>7, <2>1 DEF OnScreen, Bounds, Counts
  <2>. QED BY <1>2, <1>6, <1>7, <2>1, <2>2 DEF Editors
<1>8. CASE Write(e, c.c, ee.ed, c.f, force, texts, range)
  <2>1. Proper(c.f)
    <3>1. scope \in Scopes /\ c \in scope.cmds
      BY <1>3 DEF Bounds
    <3>2. c.f # <<>>
      BY <1>1, <3>1, SessionAssumption
    <3>. QED BY <3>1, <3>2, SessionAssumption
  <2>2. c.c \in {"SAVE", "FILE", "PUT", "PUTD"}
    BY <1>1
  <2>. QED BY <1>1, <1>2, <1>5, <1>6, <1>8, <2>1, <2>2, WriteBegins
<1>. QED BY <1>4, <1>7, <1>8

LEMMA GetEditors == ASSUME Editors, Get PROVE Editors'
<1>1. PICK c \in scope.cmds :
        /\ Command(c, {"edit"}) /\ c.f \in DOMAIN disk
        /\ LET got(txts) == [ee EXCEPT !.eds[ee.ed] = Inserted(@, txts)]
           IN  \/ UNCHANGED upsets /\ Leaves(got(disk[c.f]))
               \/ /\ upsets > 0 /\ upsets' = upsets - 1
                  /\ \/ Leaves(got(<<>>))
                     \/ \E n \in 0 .. Len(disk[c.f]) - 1 : Leaves(got(SubSeq(disk[c.f], 1, n)))
                     \/ UNCHANGED <<ee, status>>
        /\ job' = Idle
  BY DEF Get
<1>2. job = Idle /\ mode = NoMode /\ status # "cms" /\ UNCHANGED <<mode, scope>>
  BY <1>1, CommandIs
<1>3. Linkage(ee) /\ Counts(ee, upsets) /\ ee.ed \in DOMAIN ee.eds /\ ee.ed # None /\ Bounds
  BY <1>2, AtCommand
<1>4. Fewer
  BY <1>1 DEF Fewer
<1> DEFINE got(txts) == [ee EXCEPT !.eds[ee.ed] = Inserted(@, txts)]
<1>5. UNCHANGED <<ee, status>> \/ \E txts : Leaves(got(txts))
  BY <1>1
<1>6. ASSUME NEW txts, Leaves(got(txts)) PROVE Editors'
  <2> DEFINE d == got(txts)
             h == ee.ed
             x == Inserted(ee.eds[h], txts)
  <2>1. DOMAIN ee.eds[h] = EdFields /\ Proper(ee.eds[h].name)
    BY <1>3 DEF Linkage
  <2>2. DOMAIN x = EdFields /\ x.name = ee.eds[h].name
    BY <2>1 DEF Inserted, EdFields
  <2>3. d = [ee EXCEPT !.eds[h] = x]
    OBVIOUS
  <2> HIDE DEF x
  <2>4. /\ Linkage(d) /\ DOMAIN d.eds = DOMAIN ee.eds /\ d.ed = ee.ed
        /\ d.ring = ee.ring /\ d.count = ee.count
    BY <1>3, <2>1, <2>2, <2>3, Edits
  <2>5. Leaves(d)
    BY <1>6
  <2> HIDE DEF d
  <2>6. Counts(d, upsets')
    BY <1>2, <1>3, <1>4, <2>4, CountsOn
  <2>. QED BY <1>1, <1>2, <1>3, <1>4, <2>4, <2>5, <2>6, Left
<1>7. CASE UNCHANGED <<ee, status>>
  <2>1. JobSound' /\ ~Exiting'
    BY <1>1 DEF JobSound, Exiting
  <2>2. OnScreen' /\ Counts(ee', upsets') /\ Bounds'
    BY <1>2, <1>3, <1>4, <1>7, <2>1, CountsOn, FewerIsLess DEF OnScreen
  <2>. QED BY <1>3, <1>7, <2>1, <2>2 DEF Editors
<1>. QED BY <1>5, <1>6, <1>7

LEMMA QuitEditors == ASSUME Editors, Quit \/ QuitAll PROVE Editors'
<1> DEFINE d == [ee EXCEPT !.ed = None]
<1>1. PICK c \in scope.cmds :
        /\ Command(c, {"edit", "rescue"})
        /\ Leaves(ee) \/ Leaves(Closed(ee, ee.ed)) \/ Leaves(d)
        /\ job' = Idle /\ UNCHANGED upsets
  BY DEF Quit, QuitAll
<1>2. job = Idle /\ mode = NoMode /\ status # "cms" /\ UNCHANGED <<mode, scope>>
  BY <1>1, CommandIs
<1>3. Linkage(ee) /\ Counts(ee, upsets) /\ ee.ed \in DOMAIN ee.eds /\ ee.ed # None /\ Bounds
  BY <1>2, AtCommand
<1>4. Fewer
  BY <1>1 DEF Fewer
<1> DEFINE c2 == Closed(ee, ee.ed)
<1>5. /\ Linkage(c2) /\ (c2.ed = None \/ c2.ed \in DOMAIN c2.eds)
      /\ c2.count = ee.count - 1 /\ Len(c2.ring) = Len(ee.ring) - 1
  BY <1>3, Closes
<1>6. Linkage(d) /\ d.eds = ee.eds /\ d.ed = None /\ d.ring = ee.ring /\ d.count = ee.count
  BY <1>3, Turns
<1>7. Leaves(ee) \/ Leaves(c2) \/ Leaves(d)
  BY <1>1
<1> HIDE DEF c2, d
<1>8. Counts(ee, upsets') /\ Counts(c2, upsets') /\ Counts(d, upsets')
  BY <1>2, <1>3, <1>4, <1>5, <1>6, CountsOn
<1>. QED BY <1>1, <1>2, <1>3, <1>4, <1>5, <1>6, <1>7, <1>8, Left

LEMMA ExitEditors == ASSUME Editors, Exit PROVE Editors'
<1>1. PICK c \in scope.cmds :
        /\ Command(c, {"edit", "rescue"})
        /\ job' = [cmd |-> "EXIT", at |-> "next", h |-> ee.ed]
        /\ UNCHANGED <<upsets, ee, status>>
  BY DEF Exit
<1>2. job = Idle /\ mode = NoMode /\ status # "cms" /\ UNCHANGED <<mode, scope>>
  BY <1>1, CommandIs
<1>3. Linkage(ee) /\ Counts(ee, upsets) /\ ee.ed \in DOMAIN ee.eds /\ Bounds
  BY <1>2, AtCommand
<1>4. DOMAIN job' = {"cmd", "at", "h"} /\ job'.cmd = "EXIT" /\ job'.at = "next" /\ job'.h = ee.ed
  BY <1>1
<1>5. JobSound' /\ Exiting'
  BY <1>1, <1>3, <1>4 DEF JobSound, Exiting, Idle
<1>6. OnScreen' /\ Bounds' /\ Counts(ee', upsets')
  BY <1>1, <1>2, <1>3, <1>5 DEF OnScreen, Bounds, Counts
<1>. QED BY <1>1, <1>3, <1>5, <1>6 DEF Editors

LEMMA ModeEditors == ASSUME Editors, Enter \/ Mode \/ ModeLost PROVE Editors'
<1>1. CASE Enter
  <2>1. /\ job = Idle /\ job' = Idle /\ status # "cms" /\ UNCHANGED <<upsets, scope>>
        /\ \E r : Changed(r)
    BY <1>1 DEF Enter
  <2>. QED BY <2>1, ChangedEditors DEF Fewer
<1>2. CASE Mode
  <2>1. mode # NoMode /\ UNCHANGED <<upsets, scope, job>> /\ \E r : Changed(r)
    BY <1>2 DEF Mode
  <2>2. job = Idle /\ status # "cms"
    BY <2>1 DEF Editors, OnScreen
  <2>. QED BY <2>1, <2>2, ChangedEditors DEF Fewer
<1>3. CASE ModeLost
  <2>1. mode # NoMode /\ mode' = NoMode /\ UNCHANGED <<ee, job, status, scope, upsets>>
    BY <1>3 DEF ModeLost
  <2>. QED BY <2>1 DEF Editors, OnScreen, Exiting, JobSound, Bounds, Counts
<1>. QED BY <1>1, <1>2, <1>3

LEMMA LostEditors == ASSUME Editors, Lost \/ UnknownRescue PROVE Editors'
<1>1. /\ job = Idle /\ status \in {"edit", "rescue"} /\ status' \in {"rescue", "broken"}
      /\ UNCHANGED <<ee, job, mode, scope, upsets>>
  BY DEF Lost, UnknownRescue
<1>2. OnScreen'
  BY <1>1 DEF Editors, OnScreen, Exiting
<1>. QED BY <1>1, <1>2 DEF Editors, JobSound, Bounds

LEMMA CrashEditors == ASSUME Editors, Crash PROVE Editors'
<1>1. /\ upsets > 0 /\ upsets' = upsets - 1 /\ status' = "cms" /\ ee' = NoMemory /\ job' = Idle
      /\ mode' = NoMode /\ UNCHANGED scope
  BY DEF Crash
<1>2. Bounds'
  BY <1>1, FewerIsLess DEF Fewer, Editors
<1>3. JobSound' /\ OnScreen'
  BY <1>1 DEF JobSound, OnScreen
<1>. QED BY <1>1, <1>2, <1>3, NothingOpen DEF Editors

LEMMA NextEditors == ASSUME Editors, Next PROVE Editors'
<1>1. CASE WriteStep \/ EndSave \/ EndPut \/ EndExit \/ ExitNext
  BY <1>1, WriteStepEditors, EndSaveEditors, EndPutEditors, EndExitEditors, ExitNextEditors
<1>2. CASE EditFile \/ Ring \/ Edit \/ Save \/ Put \/ Get \/ Quit \/ QuitAll \/ Exit
  BY <1>2, EditFileEditors, RingEditors, EditEditors, SaveEditors, PutEditors, GetEditors,
     QuitEditors, ExitEditors
<1>3. CASE Enter \/ Mode \/ ModeLost \/ Lost \/ UnknownRescue \/ Crash
  BY <1>3, ModeEditors, LostEditors, CrashEditors
<1>. QED BY <1>1, <1>2, <1>3 DEF Next

-----------------------------------------------------------------------------
(* The disk while nothing is written *)

Resting ==
    /\ Honest
    /\ \A f \in DOMAIN kept \ clobbered : Safe(f, disk)
    /\ upsets > 0 => \A f \in DOMAIN kept : Found(f, disk)

LEMMA AtRest == ASSUME Saved, ~Under PROVE Resting
BY DEF Saved, OthersSafe, Whole, Resting

LEMMA ToRest == ASSUME Resting', ~Under' PROVE Saved'
BY DEF Saved, OthersSafe, OwnSafe, Whole, Resting, Past

LEMMA StaysAtRest ==
    ASSUME Resting, UNCHANGED <<disk, kept, clobbered>>, upsets' > 0 => upsets > 0
    PROVE  Resting'
BY DEF Resting, Honest, Safe, Found, Versions

\* What is safe stays so whatever else is remembered.
LEMMA FoundIs ==
    ASSUME NEW f, NEW files, f \in DOMAIN kept
    PROVE  Found(f, files) <=> f \in DOMAIN files /\ files[f] \in kept[f]
BY DEF Found, Versions

LEMMA QuietSaved ==
    ASSUME Saved, ~Under, ~Under', UNCHANGED <<disk, kept, clobbered>>, upsets' > 0 => upsets > 0
    PROVE  Saved'
BY AtRest, StaysAtRest, ToRest

LEMMA FewerUp == ASSUME Bounds, Fewer PROVE upsets' > 0 => upsets > 0
BY DEF Bounds, Fewer

LEMMA NotUnder == (job = Idle \/ job.at \in {"end", "next"}) => ~Under
BY DEF Under, WriteSteps

LEMMA NotUnderNext == (job' = Idle \/ job'.at \in {"end", "next"}) => ~Under'
BY DEF Under, WriteSteps

LEMMA EndsSaved == ASSUME IInv, EndSave \/ EndPut \/ EndExit \/ ExitNext PROVE Saved'
<1>1. UNCHANGED <<disk, upsets, kept, clobbered>> /\ Bounds
  BY DEF EndSave, EndPut, EndExit, ExitNext, IInv, Editors
<1>2. ~Under
  <2>1. job.at \in {"end", "next"}
    BY DEF EndSave, EndPut, EndExit, ExitNext
  <2>. QED BY <2>1, NotUnder
<1>3. ~Under'
  <2>1. CASE EndSave \/ EndPut
    BY <2>1, NotUnderNext DEF EndSave, EndPut
  <2>2. CASE EndExit
    <3>1. job' = Idle \/ job' = [cmd |-> "EXIT", at |-> "next", h |-> NextEd(ee, job.h)]
      BY <2>2 DEF EndExit
    <3>2. job' = Idle \/ job'.at = "next"
      BY <3>1
    <3>. QED BY <3>2, NotUnderNext
  <2>3. CASE ExitNext
    <3>1. job # Idle /\ job.at = "next"
      BY <2>3 DEF ExitNext
    <3>2. /\ Linkage(ee) /\ DOMAIN job = {"cmd", "at", "h"}
          /\ job.h \in DOMAIN ee.eds \/ ee.count = 0
      BY <3>1, AtJob DEF IInv
    <3>3. CASE ee.count = 0
      BY <2>3, <3>3, NotUnderNext DEF ExitNext
    <3>4. CASE ee.count # 0 /\ ee.eds[job.h].r.modified
      <4> DEFINE e == ee.eds[job.h]
      <4>1. Write(ee, "EXIT", job.h, e.name, TRUE, Content(e.r), <<>>)
        BY <2>3, <3>4 DEF ExitNext
      <4>2. Proper(e.name) /\ job.h \in DOMAIN ee.eds
        BY <3>2, <3>4 DEF Linkage
      <4>3. IsList(Content(e.r)) /\ "EXIT" \in {"SAVE", "FILE", "PUT", "PUTD", "EXIT"}
        BY ContentIsList
      <4> HIDE DEF e
      <4>. QED BY <3>2, <3>4, <4>1, <4>2, <4>3, Writes
    <3>5. CASE ee.count # 0 /\ ~ee.eds[job.h].r.modified
      <4>1. job' = [job EXCEPT !.h = NextEd(ee, job.h)]
        BY <2>3, <3>5 DEF ExitNext
      <4>2. job'.at = "next"
        BY <3>1, <3>2, <4>1
      <4>. QED BY <4>2, NotUnderNext
    <3>. QED BY <3>3, <3>4, <3>5
  <2>. QED BY <2>1, <2>2, <2>3
<1>. QED BY <1>1, <1>2, <1>3, QuietSaved DEF IInv

LEMMA CommandsSaved ==
    ASSUME IInv, EditFile \/ Ring \/ Edit \/ Save \/ Put \/ Quit \/ QuitAll \/ Exit
    PROVE  Saved'
<1>1. UNCHANGED <<disk, kept, clobbered>> /\ job = Idle
  BY DEF EditFile, Ring, Edit, Save, Put, Quit, QuitAll, Exit, Command, Quietly
<1>2. Fewer /\ Bounds
  BY DEF EditFile, Ring, Edit, Save, Put, Quit, QuitAll, Exit, Quietly, Fewer, IInv, Editors
<1>3. ~Under
  BY <1>1, NotUnder
<1>4. ~Under'
  <2>1. CASE EditFile \/ Ring \/ Edit \/ Quit \/ QuitAll
    BY <2>1, NotUnderNext DEF EditFile, Ring, Edit, Quit, QuitAll, Quietly
  <2>2. CASE Save \/ Put
    BY <2>2, SaveEditors, PutEditors DEF IInv
  <2>3. CASE Exit
    <3>1. job' = [cmd |-> "EXIT", at |-> "next", h |-> ee.ed]
      BY <2>3 DEF Exit
    <3>2. job'.at = "next"
      BY <3>1
    <3>. QED BY <3>2, NotUnderNext
  <2>. QED BY <2>1, <2>2, <2>3
<1>. QED BY <1>1, <1>2, <1>3, <1>4, FewerUp, QuietSaved DEF IInv

LEMMA ModesSaved ==
    ASSUME IInv, Enter \/ Mode \/ ModeLost \/ Lost \/ UnknownRescue
    PROVE  Saved'
<1>1. UNCHANGED <<disk, kept, clobbered, upsets>>
  BY DEF Enter, Mode, ModeLost, Lost, UnknownRescue
<1>2. job = Idle /\ job' = Idle
  <2>1. mode # NoMode => job = Idle
    BY DEF IInv, Editors, OnScreen
  <2>. QED BY <2>1 DEF Enter, Mode, ModeLost, Lost, UnknownRescue
<1>. QED BY <1>1, <1>2, NotUnder, NotUnderNext, QuietSaved DEF IInv

\* GETD with the buffer erases a file that is not to be kept.
LEMMA GetSaved == ASSUME IInv, Get PROVE Saved'
<1>1. PICK c \in scope.cmds :
        /\ Command(c, {"edit"})
        /\ \/ UNCHANGED <<disk, kept>>
           \/ disk' = Without(disk, c.f) /\ kept' = Without(kept, c.f) /\ c.f = Buffer
        /\ job' = Idle
  BY DEF Get
<1>2. job = Idle /\ UNCHANGED clobbered
  BY <1>1, CommandIs
<1>3. Bounds /\ Fewer
  BY DEF Get, Fewer, IInv, Editors
<1>4. ~Under /\ ~Under' /\ (upsets' > 0 => upsets > 0)
  BY <1>1, <1>2, <1>3, FewerUp, NotUnder, NotUnderNext
<1>5. CASE UNCHANGED <<disk, kept>>
  BY <1>2, <1>4, <1>5, QuietSaved DEF IInv
<1>6. CASE disk' = Without(disk, Buffer) /\ kept' = Without(kept, Buffer)
  <2>1. Resting
    BY <1>4, AtRest DEF IInv
  <2>2. /\ DOMAIN disk' = DOMAIN disk \ {Buffer} /\ \A f \in DOMAIN disk' : disk'[f] = disk[f]
        /\ DOMAIN kept' = DOMAIN kept \ {Buffer} /\ \A f \in DOMAIN kept' : kept'[f] = kept[f]
    BY <1>6 DEF Without
  <2>3. Proper(Buffer)
    BY SessionAssumption
  <2>4. ASSUME NEW f \in DOMAIN kept'
        PROVE  Proper(f) /\ OldOf(f) # Buffer /\ TmpOf(f) # Buffer /\ f # Buffer
    BY <2>1, <2>2, <2>3, Names DEF Resting, Honest
  <2>5. ASSUME NEW f \in DOMAIN kept', Found(f, disk) PROVE Found(f, disk)'
    BY <2>2, <2>4, <2>5 DEF Found, Versions
  <2>6. ASSUME NEW f \in DOMAIN kept', Safe(f, disk) PROVE Safe(f, disk)'
    BY <2>2, <2>4, <2>5, <2>6 DEF Safe
  <2>7. Resting'
    <3>1. Honest'
      BY <2>1, <2>2, <2>4 DEF Honest, Resting
    <3>2. DOMAIN kept' \subseteq DOMAIN kept
      BY <2>2
    <3>. QED BY <1>2, <1>4, <2>1, <2>5, <2>6, <3>1, <3>2 DEF Resting
  <2>. QED BY <1>4, <2>7, ToRest
<1>. QED BY <1>1, <1>5, <1>6

\* Whatever the step it interrupts, the virtual machine leaves each file safe
\* when it is the first upset.
LEMMA AllSafe ==
    ASSUME Saved, upsets > 0
    PROVE  \A f \in DOMAIN kept : Safe(f, disk)
<1>. SUFFICES ASSUME NEW f \in DOMAIN kept PROVE Safe(f, disk)
  OBVIOUS
<1>1. CASE Found(f, disk)
  BY <1>1 DEF Safe
<1>2. CASE Under /\ job.at = "show" /\ f = job.name
  BY <1>2 DEF Saved, OwnSafe, Safe
<1>. QED BY <1>1, <1>2 DEF Saved, Whole

LEMMA CrashSaved == ASSUME IInv, Crash PROVE Saved'
<1>1. /\ upsets > 0 /\ upsets' = upsets - 1 /\ job' = Idle
      /\ UNCHANGED <<disk, kept, clobbered>>
  BY DEF Crash
<1>2. upsets' = 0
  BY <1>1 DEF IInv, Editors, Bounds
<1>3. \A f \in DOMAIN kept : Safe(f, disk)
  BY <1>1, AllSafe DEF IInv
<1>4. Resting'
  BY <1>1, <1>2, <1>3 DEF Resting, IInv, Saved, Honest, Safe, Found, Versions
<1>. QED BY <1>1, <1>4, NotUnderNext, ToRest

-----------------------------------------------------------------------------
(* The disk while a file is written *)

\* Nothing changes but the file named n and the two names beside it.
OnlyOwn(n) ==
    /\ \A d : d \notin {n, OldOf(n), TmpOf(n)} =>
           /\ d \in DOMAIN disk' <=> d \in DOMAIN disk
           /\ d \in DOMAIN disk => disk'[d] = disk[d]
    /\ \A f : f # n => (f \in DOMAIN kept' <=> f \in DOMAIN kept)
    /\ \A f \in DOMAIN kept : f # n => kept'[f] = kept[f]

LEMMA OtherStays ==
    ASSUME NEW n, Proper(n), OnlyOwn(n), NEW f \in DOMAIN kept, Proper(f), f # n
    PROVE  /\ f \in DOMAIN kept'
           /\ Found(f, disk) => Found(f, disk)'
           /\ f[1] # n[1] /\ Safe(f, disk) => Safe(f, disk)'
<1>1. f \in DOMAIN kept' /\ kept'[f] = kept[f]
  BY DEF OnlyOwn
<1>2. f \notin {n, OldOf(n), TmpOf(n)}
  BY Names
<1>3. (f \in DOMAIN disk' <=> f \in DOMAIN disk) /\ (f \in DOMAIN disk => disk'[f] = disk[f])
  BY <1>2 DEF OnlyOwn
<1>4. Found(f, disk) => Found(f, disk)'
  BY <1>1, <1>3 DEF Found, Versions
<1>5. ASSUME f[1] # n[1], NEW d \in {OldOf(f), TmpOf(f)}
      PROVE  (d \in DOMAIN disk' <=> d \in DOMAIN disk) /\ (d \in DOMAIN disk => disk'[d] = disk[d])
  <2>1. d \notin {n, OldOf(n), TmpOf(n)}
    BY <1>5, Names
  <2>. QED BY <2>1 DEF OnlyOwn
<1>. QED BY <1>1, <1>4, <1>5 DEF Safe

\* The others stay safe from the time both names are the file's own.
LEMMA OthersStay ==
    ASSUME Honest, OthersSafe, Past, Proper(job.name), OnlyOwn(job.name), UNCHANGED clobbered
    PROVE  \A f \in DOMAIN kept' \ clobbered' :
              f # job.name =>
                 Safe(f, disk)' /\ (f[1] = job.name[1] => Found(f, disk)')
<1>. SUFFICES ASSUME NEW f \in DOMAIN kept' \ clobbered', f # job.name
              PROVE  Safe(f, disk)' /\ (f[1] = job.name[1] => Found(f, disk)')
  OBVIOUS
<1>1. f \in DOMAIN kept \ clobbered /\ Proper(f)
  BY DEF OnlyOwn, Honest
<1>2. Safe(f, disk) /\ (f[1] = job.name[1] => Found(f, disk))
  BY <1>1 DEF OthersSafe
<1>3. /\ Found(f, disk) => Found(f, disk)'
      /\ f[1] # job.name[1] /\ Safe(f, disk) => Safe(f, disk)'
  BY <1>1, OtherStays
<1>4. Found(f, disk)' => Safe(f, disk)'
  BY DEF Safe
<1>. QED BY <1>2, <1>3, <1>4

LEMMA HonestStays ==
    ASSUME Honest, NEW n, Proper(n), OnlyOwn(n),
           n \in DOMAIN disk' => n \in DOMAIN kept' /\ disk'[n] \in kept'[n]
    PROVE  Honest'
<1>1. ASSUME NEW f \in DOMAIN kept' PROVE Proper(f)
  BY <1>1 DEF OnlyOwn, Honest
<1>2. ASSUME NEW f \in DOMAIN disk', Proper(f) PROVE f \in DOMAIN kept' /\ disk'[f] \in kept'[f]
  <2>1. CASE f = n
    BY <2>1
  <2>2. CASE f # n
    <3>1. f \notin {n, OldOf(n), TmpOf(n)}
      BY <1>2, <2>2, Names
    <3>. QED BY <1>2, <2>2, <3>1 DEF OnlyOwn, Honest
  <2>. QED BY <2>1, <2>2
<1>. QED BY <1>1, <1>2 DEF Honest

LEMMA WholeStays ==
    ASSUME Saved, upsets > 0, Proper(job.name), OnlyOwn(job.name)
    PROVE  \A f \in DOMAIN kept' : f # job.name => Found(f, disk)'
<1>. SUFFICES ASSUME NEW f \in DOMAIN kept', f # job.name PROVE Found(f, disk)'
  OBVIOUS
<1>1. f \in DOMAIN kept /\ Proper(f)
  BY DEF OnlyOwn, Saved, Honest
<1>2. Found(f, disk)
  BY <1>1 DEF Saved, Whole
<1>. QED BY <1>1, <1>2, OtherStays

\* What the steps do to the disk.
LEMMA Erased ==
    ASSUME NEW d, disk' = Without(disk, d)
    PROVE  DOMAIN disk' = DOMAIN disk \ {d} /\ \A x \in DOMAIN disk' : disk'[x] = disk[x]
BY DEF Without

LEMMA StepIs ==
    ASSUME IInv, WriteStep
    PROVE  /\ job # Idle /\ DOMAIN job = JobFields /\ Proper(job.name) /\ IsList(job.text)
           /\ job.lines \in Nat /\ Saved /\ Honest /\ upsets \in {0, 1}
<1>1. job # Idle
  BY DEF WriteStep
<1>2. job.at # "next"
  BY DEF WriteStep, DropOld, DropTmp, Drop, Look, WriteLine, Hide, Show, EraseOld
<1>. QED BY <1>1, <1>2, AtJob DEF IInv, Editors, Bounds, Saved

LEMMA GoesTo ==
    ASSUME DOMAIN job = JobFields, NEW at, GoTo(at)
    PROVE  /\ DOMAIN job' = JobFields /\ job'.at = at /\ job'.name = job.name
           /\ job'.text = job.text /\ job'.existed = job.existed /\ job' # Idle
           /\ upsets' = upsets
<1>1. job' = [job EXCEPT !.at = at] /\ upsets' = upsets
  BY DEF GoTo
<1>2. /\ DOMAIN job' = JobFields /\ job'.at = at /\ job'.name = job.name
      /\ job'.text = job.text /\ job'.existed = job.existed
  BY <1>1 DEF JobFields
<1>. QED BY <1>1, <1>2 DEF Idle, JobFields

LEMMA EndsAt ==
    ASSUME DOMAIN job = JobFields, NEW result, EndWith(result)
    PROVE  job'.at = "end" /\ ~Under'
<1>1. job'.at = "end"
  BY DEF EndWith, JobFields
<1>. QED BY <1>1, NotUnderNext

\* A call that fails is the first upset: all files are safe then.
LEMMA FailSaved ==
    ASSUME IInv, WriteStep, NEW result, Fails(result), UNCHANGED <<disk, kept, clobbered>>
    PROVE  Saved'
<1>1. DOMAIN job = JobFields /\ upsets \in {0, 1}
  BY StepIs
<1>2. upsets > 0 /\ upsets' = 0 /\ ~Under'
  BY <1>1, EndsAt DEF Fails
<1>3. \A f \in DOMAIN kept : Safe(f, disk)
  BY <1>2, AllSafe DEF IInv
<1>4. Resting'
  BY <1>2, <1>3 DEF Resting, IInv, Saved, Honest, Safe, Found, Versions
<1>. QED BY <1>2, <1>4, ToRest

\* A name beside the file is dropped: the others are as safe as they were, or
\* are clobbered.
LEMMA Drops ==
    ASSUME Honest, Proper(job.name), NEW d \in {OldOf(job.name), TmpOf(job.name)},
           disk' = Without(disk, d), UNCHANGED kept,
           clobbered' = clobbered \cup
               {f \in DOMAIN kept \ {job.name} :
                   /\ d \in DOMAIN disk /\ d \in {OldOf(f), TmpOf(f)}
                   /\ disk[d] \in kept[f] /\ ~Found(f, disk)}
    PROVE  /\ Honest'
           /\ DOMAIN disk' = DOMAIN disk \ {d}
           /\ \A f \in DOMAIN kept : Found(f, disk) => Found(f, disk)'
           /\ \A f \in DOMAIN kept \ clobbered' :
                 f # job.name /\ Safe(f, disk) => Safe(f, disk)'
<1>1. DOMAIN disk' = DOMAIN disk \ {d} /\ \A x \in DOMAIN disk' : disk'[x] = disk[x]
  BY Erased
<1>2. ASSUME NEW f, Proper(f) PROVE f # d
  BY <1>2, Names
<1>3. Honest'
  BY <1>1 DEF Honest
<1>4. ASSUME NEW f \in DOMAIN kept, Found(f, disk) PROVE Found(f, disk)'
  <2>1. f # d
    BY <1>2 DEF Honest
  <2>. QED BY <1>1, <1>4, <2>1 DEF Found, Versions
<1>5. ASSUME NEW f \in DOMAIN kept \ clobbered', f # job.name, Safe(f, disk)
      PROVE  Safe(f, disk)'
  <2>1. CASE Found(f, disk)
    BY <1>4, <2>1 DEF Safe
  <2>2. CASE ~Found(f, disk)
    <3>1. PICK e \in {OldOf(f), TmpOf(f)} : e \in DOMAIN disk /\ disk[e] \in kept[f]
      BY <1>5, <2>2 DEF Safe
    <3>2. e # d
      BY <1>5, <2>2, <3>1
    <3>3. e \in DOMAIN disk' /\ disk'[e] \in kept'[f]
      BY <1>1, <3>1, <3>2
    <3>. QED BY <3>3 DEF Safe
  <2>. QED BY <2>1, <2>2
<1>. QED BY <1>1, <1>3, <1>4, <1>5

LEMMA DropOldSaved == ASSUME IInv, WriteStep, DropOld PROVE Saved'
<1>1. /\ job # Idle /\ DOMAIN job = JobFields /\ Proper(job.name) /\ Saved /\ Honest
      /\ upsets \in {0, 1} /\ job.at = "drop EE$OLD"
  BY StepIs DEF DropOld, Drop
<1>2. Resting
  BY <1>1, AtRest DEF Under
<1>3. CASE Fails(2) /\ UNCHANGED <<disk, clobbered>>
  BY <1>3, FailSaved DEF DropOld, Drop
<1>4. CASE ~(Fails(2) /\ UNCHANGED <<disk, clobbered>>)
  <2> DEFINE d == OldOf(job.name)
  <2>1. GoTo("drop EE$TMP") /\ UNCHANGED kept /\ disk' = Without(disk, d)
    BY <1>4 DEF DropOld, Drop
  <2>2. /\ Honest' /\ DOMAIN disk' = DOMAIN disk \ {d}
        /\ \A f \in DOMAIN kept : Found(f, disk) => Found(f, disk)'
        /\ \A f \in DOMAIN kept \ clobbered' : f # job.name /\ Safe(f, disk) => Safe(f, disk)'
    BY <1>1, <1>4, <2>1, Drops DEF DropOld, Drop
  <2>3. job'.at = "drop EE$TMP" /\ job'.name = job.name /\ upsets' = upsets
    BY <1>1, <2>1, GoesTo
  <2>4. clobbered \subseteq clobbered'
    BY <1>4 DEF DropOld, Drop
  <2>5. OthersSafe'
    <3>1. ~Past'
      BY <2>3 DEF Past
    <3>2. ASSUME NEW f \in DOMAIN kept' \ clobbered', f # job'.name PROVE Safe(f, disk)'
      BY <1>2, <2>1, <2>2, <2>3, <2>4, <3>2 DEF Resting
    <3>3. Under'
      <4>1. job' # Idle
        BY <1>1, <2>1, GoesTo
      <4>. QED BY <2>3, <4>1 DEF Under, WriteSteps
    <3>. QED BY <3>1, <3>2, <3>3 DEF OthersSafe
  <2>6. OwnSafe'
    <3>1. OldOf(job.name)' \notin DOMAIN disk'
      BY <2>2, <2>3 DEF OldOf
    <3>. QED BY <2>3, <3>1 DEF OwnSafe
  <2>7. Whole'
    BY <1>2, <2>1, <2>2, <2>3 DEF Resting, Whole
  <2>. QED BY <2>2, <2>5, <2>6, <2>7 DEF Saved
<1>. QED BY <1>3, <1>4 DEF DropOld, Drop

LEMMA DropTmpSaved == ASSUME IInv, WriteStep, DropTmp PROVE Saved'
<1>1. /\ job # Idle /\ DOMAIN job = JobFields /\ Proper(job.name) /\ Saved /\ Honest
      /\ upsets \in {0, 1} /\ job.at = "drop EE$TMP"
  BY StepIs DEF DropTmp, Drop
<1>2. Under /\ OldOf(job.name) \notin DOMAIN disk
  BY <1>1 DEF Under, WriteSteps, Saved, OwnSafe
<1>3. CASE Fails(2) /\ UNCHANGED <<disk, clobbered>>
  BY <1>3, FailSaved DEF DropTmp, Drop
<1>4. CASE ~(Fails(2) /\ UNCHANGED <<disk, clobbered>>)
  <2> DEFINE d == TmpOf(job.name)
  <2>1. GoTo("look") /\ UNCHANGED kept /\ disk' = Without(disk, d)
    BY <1>4 DEF DropTmp, Drop
  <2>2. /\ Honest' /\ DOMAIN disk' = DOMAIN disk \ {d}
        /\ \A f \in DOMAIN kept : Found(f, disk) => Found(f, disk)'
        /\ \A f \in DOMAIN kept \ clobbered' : f # job.name /\ Safe(f, disk) => Safe(f, disk)'
    BY <1>1, <1>4, <2>1, Drops DEF DropTmp, Drop
  <2>3. job'.at = "look" /\ job'.name = job.name /\ upsets' = upsets
    BY <1>1, <2>1, GoesTo
  <2>4. clobbered \subseteq clobbered'
    BY <1>4 DEF DropTmp, Drop
  <2>5. OthersSafe'
    <3>1. Under'
      <4>1. job' # Idle
        BY <1>1, <2>1, GoesTo
      <4>. QED BY <2>3, <4>1 DEF Under, WriteSteps
    <3>2. ASSUME NEW f \in DOMAIN kept' \ clobbered', f # job'.name
          PROVE  Safe(f, disk)' /\ (f[1] = job'.name[1] => Found(f, disk)')
      <4>1. f \in DOMAIN kept \ clobbered /\ f # job.name
        BY <2>1, <2>3, <2>4, <3>2
      <4>2. Safe(f, disk)'
        BY <1>1, <1>2, <2>1, <2>2, <4>1 DEF Saved, OthersSafe
      <4>3. ASSUME f[1] = job.name[1] PROVE Found(f, disk)'
        <5>1. OldOf(f) = OldOf(job.name) /\ TmpOf(f) = d
          BY <4>3 DEF OldOf, TmpOf
        <5>2. OldOf(f) \notin DOMAIN disk' /\ TmpOf(f) \notin DOMAIN disk'
          BY <1>2, <2>2, <5>1
        <5>. QED BY <4>2, <5>2 DEF Safe
      <4>. QED BY <2>3, <4>2, <4>3
    <3>. QED BY <3>1, <3>2 DEF OthersSafe
  <2>6. OwnSafe'
    BY <2>3 DEF OwnSafe
  <2>7. Whole'
    <3>1. upsets > 0 => \A f \in DOMAIN kept : Found(f, disk)
      BY <1>1 DEF Saved, Whole
    <3>. QED BY <2>1, <2>2, <2>3, <3>1 DEF Whole
  <2>. QED BY <2>2, <2>5, <2>6, <2>7 DEF Saved
<1>. QED BY <1>3, <1>4 DEF DropTmp, Drop

\* The step goes on: of the file being written only the conditions of the step
\* it goes to are left to show.
LEMMA GoesOn ==
    ASSUME IInv, WriteStep, Past, Past', job'.name = job.name, OnlyOwn(job.name),
           UNCHANGED clobbered, upsets' = upsets, OwnSafe',
           job.name \in DOMAIN disk' =>
               job.name \in DOMAIN kept' /\ disk'[job.name] \in kept'[job.name],
           upsets > 0 /\ job.name \in DOMAIN kept' =>
               Found(job.name, disk)' \/ job'.at = "show"
    PROVE  Saved'
<1>1. Saved /\ Honest /\ OthersSafe /\ Proper(job.name)
  BY StepIs DEF Saved
<1>2. Under'
  BY DEF Past
<1>3. Honest'
  BY <1>1, HonestStays
<1>4. OthersSafe'
  <2>1. \A f \in DOMAIN kept' \ clobbered' :
           f # job'.name => Safe(f, disk)' /\ (f[1] = job'.name[1] => Found(f, disk)')
    BY <1>1, OthersStay
  <2>. QED BY <1>2, <2>1 DEF OthersSafe
<1>5. Whole'
  <2>1. ASSUME upsets > 0, NEW f \in DOMAIN kept', f # job.name PROVE Found(f, disk)'
    BY <1>1, <2>1, WholeStays
  <2>3. ASSUME upsets' > 0, NEW f \in DOMAIN kept'
        PROVE  Found(f, disk)' \/ (Under' /\ job'.at = "show" /\ f = job'.name)
    <3>1. CASE f # job.name
      BY <2>1, <2>3, <3>1
    <3>2. CASE f = job.name
      BY <1>2, <2>3, <3>2 DEF Found, Versions
    <3>. QED BY <3>1, <3>2
  <2>. QED BY <2>3 DEF Whole
<1>. QED BY <1>3, <1>4, <1>5 DEF Saved

\* The step is the last: the file must be safe with the others.
LEMMA Stops ==
    ASSUME IInv, WriteStep, Past, ~Under', OnlyOwn(job.name),
           UNCHANGED clobbered, upsets' > 0 => upsets > 0,
           job.name \in DOMAIN disk' =>
               job.name \in DOMAIN kept' /\ disk'[job.name] \in kept'[job.name],
           job.name \in DOMAIN kept' \ clobbered' => job.name \in DOMAIN disk',
           upsets' > 0 /\ job.name \in DOMAIN kept' => job.name \in DOMAIN disk'
    PROVE  Saved'
<1>1. Saved /\ Honest /\ OthersSafe /\ Proper(job.name)
  BY StepIs DEF Saved
<1> DEFINE n == job.name
<1>2. Honest'
  BY <1>1, HonestStays
<1>3. ASSUME NEW f \in DOMAIN kept', f = n, n \in DOMAIN disk' PROVE Found(f, disk)'
  BY <1>3 DEF Found, Versions
<1>4. ASSUME NEW f \in DOMAIN kept' \ clobbered' PROVE Safe(f, disk)'
  <2>1. CASE f # n
    BY <1>1, <1>4, <2>1, OthersStay
  <2>2. CASE f = n
    BY <1>3, <1>4, <2>2 DEF Safe
  <2>. QED BY <2>1, <2>2
<1>5. ASSUME upsets' > 0, NEW f \in DOMAIN kept' PROVE Found(f, disk)'
  <2>1. CASE f # n
    BY <1>1, <1>5, <2>1, WholeStays
  <2>2. CASE f = n
    BY <1>3, <1>5, <2>2
  <2>. QED BY <2>1, <2>2
<1>6. Resting'
  BY <1>2, <1>4, <1>5 DEF Resting
<1>. QED BY <1>6, ToRest

LEMMA PastNow ==
    ASSUME IInv, WriteStep, job.at \in {"look", "write", "hide", "show", "erase"}
    PROVE  Past
BY StepIs DEF Past, Under, WriteSteps

LEMMA PastNext ==
    ASSUME DOMAIN job' = JobFields, job'.at \in {"look", "write", "hide", "show", "erase"}
    PROVE  Past'
<1>1. "at" \in DOMAIN job' /\ "at" \notin DOMAIN Idle
  BY DEF JobFields, Idle
<1>2. job' # Idle
  BY <1>1
<1>. QED BY <1>2 DEF Past, Under, WriteSteps

LEMMA NothingElse == ASSUME NEW n, UNCHANGED <<disk, kept>> PROVE OnlyOwn(n)
BY DEF OnlyOwn

LEMMA LookSaved == ASSUME IInv, WriteStep, Look PROVE Saved'
<1>1. /\ DOMAIN job = JobFields /\ Proper(job.name) /\ Saved /\ Honest
      /\ job.at = "look" /\ Past /\ Under
  BY StepIs, PastNow DEF Look, Past
<1>2. UNCHANGED <<disk, kept, clobbered>> /\ OnlyOwn(job.name)
  BY NothingElse DEF Look
<1>3. job.name \in DOMAIN disk => job.name \in DOMAIN kept /\ disk[job.name] \in kept[job.name]
  BY <1>1 DEF Honest
<1>4. upsets > 0 => \A f \in DOMAIN kept : Found(f, disk)
  BY <1>1 DEF Saved, Whole
<1>5. CASE Fails(3)
  BY <1>2, <1>5, FailSaved
<1>6. CASE upsets' = upsets /\ job.name \in DOMAIN disk /\ EndWith(1)
  BY <1>1, <1>2, <1>3, <1>6, EndsAt, Stops
<1>7. CASE upsets' = upsets
           /\ job' = [job EXCEPT !.at = "write", !.existed = job.name \in DOMAIN disk]
  <2>1. /\ DOMAIN job' = JobFields /\ job'.at = "write" /\ job'.name = job.name
        /\ job'.existed = (job.name \in DOMAIN disk)
    BY <1>1, <1>7 DEF JobFields
  <2>2. Past'
    BY <2>1, PastNext
  <2>3. OwnSafe'
    BY <1>2, <2>1 DEF OwnSafe
  <2>4. upsets > 0 /\ job.name \in DOMAIN kept' => Found(job.name, disk)'
    BY <1>2, <1>4, <2>1 DEF Found, Versions
  <2>. QED BY <1>1, <1>2, <1>3, <1>7, <2>1, <2>2, <2>3, <2>4, GoesOn
<1>. QED BY <1>5, <1>6, <1>7 DEF Look

LEMMA OwnNames ==
    ASSUME NEW n, Proper(n)
    PROVE  n # OldOf(n) /\ n # TmpOf(n) /\ OldOf(n) # TmpOf(n)
BY Names

LEMMA WriteLineSaved == ASSUME IInv, WriteStep, WriteLine PROVE Saved'
<1> DEFINE n == job.name
           t == TmpOf(n)
<1>1. /\ DOMAIN job = JobFields /\ Proper(n) /\ Saved /\ Honest /\ IsList(job.text)
      /\ job.lines \in Nat /\ upsets \in {0, 1} /\ job.at = "write" /\ Past /\ Under
      /\ UNCHANGED <<kept, clobbered>>
  BY StepIs, PastNow DEF WriteLine, Past
<1>2. n # t /\ n # OldOf(n)
  BY <1>1, OwnNames
<1>3. n \in DOMAIN disk => n \in DOMAIN kept /\ disk[n] \in kept[n]
  BY <1>1 DEF Honest
<1>4. upsets > 0 => \A f \in DOMAIN kept : Found(f, disk)
  BY <1>1 DEF Saved, Whole
<1>5. job.existed = (n \in DOMAIN disk)
  BY <1>1 DEF Saved, OwnSafe
<1>6. CASE Fails(5) /\ disk' = Without(disk, t)
  <2>1. DOMAIN disk' = DOMAIN disk \ {t} /\ \A x \in DOMAIN disk' : disk'[x] = disk[x]
    BY <1>6, Erased
  <2>2. upsets > 0 /\ upsets' = 0 /\ ~Under'
    BY <1>1, <1>6, EndsAt DEF Fails
  <2>3. OnlyOwn(n)
    <3>1. ASSUME NEW d, d \notin {n, OldOf(n), t}
          PROVE  (d \in DOMAIN disk' <=> d \in DOMAIN disk) /\ (d \in DOMAIN disk => disk'[d] = disk[d])
      BY <1>6, <2>1, <3>1 DEF Without
    <3>. QED BY <1>1, <3>1 DEF OnlyOwn
  <2>4. n \in DOMAIN kept => n \in DOMAIN disk'
    BY <1>2, <1>4, <2>1, <2>2 DEF Found
  <2>5. n \in DOMAIN disk' => n \in DOMAIN kept' /\ disk'[n] \in kept'[n]
    BY <1>1, <1>3, <2>1
  <2>. QED BY <1>1, <2>2, <2>3, <2>4, <2>5, Stops
<1>7. CASE /\ disk' = With(disk, t, SubSeq(job.text, 1, job.lines + 1))
           /\ job' = [job EXCEPT !.lines = @ + 1,
                                 !.at = IF job.lines + 1 = Len(job.text) THEN "hide" ELSE @]
           /\ UNCHANGED upsets
  <2> DEFINE text == SubSeq(job.text, 1, job.lines + 1)
  <2>1. /\ DOMAIN disk' = DOMAIN disk \cup {t} /\ disk'[t] = text
        /\ \A x \in DOMAIN disk : x # t => disk'[x] = disk[x]
    BY <1>7 DEF With
  <2>2. /\ DOMAIN job' = JobFields /\ job'.name = n /\ job'.text = job.text
        /\ job'.existed = job.existed
        /\ \/ job'.at = "write"
           \/ job'.at = "hide" /\ job.lines + 1 = Len(job.text)
    BY <1>1, <1>7 DEF JobFields
  <2>3. OnlyOwn(n)
    <3>1. ASSUME NEW d, d \notin {n, OldOf(n), t}
          PROVE  (d \in DOMAIN disk' <=> d \in DOMAIN disk) /\ (d \in DOMAIN disk => disk'[d] = disk[d])
      BY <2>1, <3>1
    <3>. QED BY <1>1, <3>1 DEF OnlyOwn
  <2>4. n \in DOMAIN disk' <=> n \in DOMAIN disk
    BY <1>2, <2>1
  <2>5. n \in DOMAIN disk' => n \in DOMAIN kept' /\ disk'[n] \in kept'[n]
    BY <1>1, <1>2, <1>3, <2>1
  <2>6. OwnSafe'
    <3>1. job'.at = "hide" => disk'[t] = job'.text
      <4>1. job.lines + 1 = Len(job.text) => text = job.text
        BY <1>1, Lists
      <4>. QED BY <2>1, <2>2, <4>1
    <3>2. TmpOf(job.name)' = t
      BY <2>2 DEF TmpOf
    <3>3. job'.existed = (job'.name \in DOMAIN disk')
      BY <1>5, <2>2, <2>4
    <3>4. job'.at \in {"write", "hide"}
      BY <2>2
    <3>. QED BY <2>1, <3>1, <3>2, <3>3, <3>4 DEF OwnSafe
  <2>7. Past'
    BY <2>2, PastNext
  <2>8. upsets > 0 /\ n \in DOMAIN kept' => Found(job.name, disk)'
    <3>1. upsets > 0 /\ n \in DOMAIN kept' => n \in DOMAIN disk'
      BY <1>1, <1>4, <2>4 DEF Found
    <3>. QED BY <2>2, <2>5, <3>1 DEF Found, Versions
  <2>. QED BY <1>1, <1>7, <2>2, <2>3, <2>5, <2>6, <2>7, <2>8, GoesOn
<1>. QED BY <1>6, <1>7 DEF WriteLine

LEMMA Moved ==
    ASSUME NEW from, NEW to, from # to, disk' = Renamed(from, to)
    PROVE  /\ DOMAIN disk' = (DOMAIN disk \ {from}) \cup {to} /\ disk'[to] = disk[from]
           /\ \A x \in DOMAIN disk' : x # to => disk'[x] = disk[x]
BY DEF Renamed, With, Without

LEMMA MovedOwn ==
    ASSUME NEW n, NEW from \in {n, OldOf(n), TmpOf(n)}, NEW to \in {n, OldOf(n), TmpOf(n)},
           from # to, disk' = Renamed(from, to)
    PROVE  \A d : d \notin {n, OldOf(n), TmpOf(n)} =>
              (d \in DOMAIN disk' <=> d \in DOMAIN disk) /\ (d \in DOMAIN disk => disk'[d] = disk[d])
<1>. SUFFICES ASSUME NEW d, d \notin {n, OldOf(n), TmpOf(n)}
              PROVE  (d \in DOMAIN disk' <=> d \in DOMAIN disk) /\ (d \in DOMAIN disk => disk'[d] = disk[d])
  OBVIOUS
<1>1. /\ DOMAIN disk' = (DOMAIN disk \ {from}) \cup {to}
      /\ \A x \in DOMAIN disk' : x # to => disk'[x] = disk[x]
  BY Moved
<1>2. d # from /\ d # to
  OBVIOUS
<1>3. d \in DOMAIN disk' <=> d \in DOMAIN disk
  BY <1>1, <1>2
<1>. QED BY <1>1, <1>2, <1>3

LEMMA HideSaved == ASSUME IInv, WriteStep, Hide PROVE Saved'
<1> DEFINE n == job.name
           o == OldOf(n)
           t == TmpOf(n)
<1>1. /\ DOMAIN job = JobFields /\ Proper(n) /\ Saved /\ Honest
      /\ upsets \in {0, 1} /\ job.at = "hide" /\ Past /\ Under
      /\ UNCHANGED clobbered /\ kept' = With(kept, n, Versions(n) \cup {job.text})
  BY StepIs, PastNow DEF Hide, Past
<1>2. n # t /\ n # o /\ o # t
  BY <1>1, OwnNames
<1>3. /\ job.existed = (n \in DOMAIN disk)
      /\ t \in DOMAIN disk /\ disk[t] = job.text
  BY <1>1 DEF Saved, OwnSafe
<1>4. /\ n \in DOMAIN kept' /\ job.text \in kept'[n]
      /\ \A f : f # n => (f \in DOMAIN kept' <=> f \in DOMAIN kept)
      /\ \A f \in DOMAIN kept : f # n => kept'[f] = kept[f]
      /\ n \in DOMAIN disk => disk[n] \in kept'[n]
  <2>1. DOMAIN kept' = DOMAIN kept \cup {n} /\ kept'[n] = Versions(n) \cup {job.text}
        /\ \A f \in DOMAIN kept : f # n => kept'[f] = kept[f]
    BY <1>1 DEF With
  <2>2. n \in DOMAIN disk => disk[n] \in Versions(n)
    BY <1>1 DEF Honest, Versions
  <2>. QED BY <2>1, <2>2
<1>5. CASE job.existed /\ Fails(2) /\ UNCHANGED disk
  <2>1. upsets > 0 /\ upsets' = 0 /\ ~Under'
    BY <1>1, <1>5, EndsAt DEF Fails
  <2>2. OnlyOwn(n)
    BY <1>4, <1>5 DEF OnlyOwn
  <2>3. n \in DOMAIN disk'
    BY <1>3, <1>5
  <2>4. n \in DOMAIN disk' => n \in DOMAIN kept' /\ disk'[n] \in kept'[n]
    BY <1>4, <1>5
  <2>. QED BY <1>1, <2>1, <2>2, <2>3, <2>4, Stops
<1>6. CASE GoTo("show") /\ disk' = IF job.existed THEN Renamed(n, o) ELSE disk
  <2>1. /\ DOMAIN job' = JobFields /\ job'.at = "show" /\ job'.name = n
        /\ job'.text = job.text /\ upsets' = upsets
    BY <1>1, <1>6, GoesTo
  <2>2. /\ n \notin DOMAIN disk' /\ t \in DOMAIN disk' /\ disk'[t] = job.text
        /\ \A d : d \notin {n, o, t} =>
              (d \in DOMAIN disk' <=> d \in DOMAIN disk) /\ (d \in DOMAIN disk => disk'[d] = disk[d])
    <3>1. CASE job.existed
      <4>1. disk' = Renamed(n, o)
        BY <1>6, <3>1
      <4>2. /\ DOMAIN disk' = (DOMAIN disk \ {n}) \cup {o}
            /\ \A x \in DOMAIN disk' : x # o => disk'[x] = disk[x]
        BY <1>2, <4>1 DEF Renamed, With, Without
      <4>3. \A d : d \notin {n, o, t} =>
              (d \in DOMAIN disk' <=> d \in DOMAIN disk) /\ (d \in DOMAIN disk => disk'[d] = disk[d])
        BY <1>2, <4>1, MovedOwn
      <4>. QED BY <1>2, <1>3, <4>2, <4>3
    <3>2. CASE ~job.existed
      BY <1>3, <1>6, <3>2
    <3>. QED BY <3>1, <3>2
  <2>3. OnlyOwn(n)
    BY <1>4, <2>2 DEF OnlyOwn
  <2>4. OwnSafe'
    <3>1. TmpOf(job.name)' = t
      BY <2>1 DEF TmpOf
    <3>. QED BY <1>4, <2>1, <2>2, <3>1 DEF OwnSafe
  <2>5. Past'
    BY <2>1, PastNext
  <2>. QED BY <1>1, <2>1, <2>2, <2>3, <2>4, <2>5, GoesOn
<1>. QED BY <1>5, <1>6 DEF Hide

LEMMA ShowSaved == ASSUME IInv, WriteStep, Show PROVE Saved'
<1> DEFINE n == job.name
           t == TmpOf(n)
<1>1. /\ DOMAIN job = JobFields /\ Proper(n) /\ Saved /\ job.at = "show" /\ Past /\ Under
      /\ UNCHANGED <<kept, clobbered>>
  BY StepIs, PastNow DEF Show, Past
<1>2. n # t
  BY <1>1, OwnNames
<1>3. /\ t \in DOMAIN disk /\ disk[t] = job.text
      /\ n \in DOMAIN kept /\ job.text \in kept[n]
  BY <1>1 DEF Saved, OwnSafe
<1>4. CASE Fails(2) /\ UNCHANGED disk
  BY <1>1, <1>4, FailSaved
<1>5. CASE GoTo("erase") /\ disk' = Renamed(t, n)
  <2>1. /\ DOMAIN job' = JobFields /\ job'.at = "erase" /\ job'.name = n
        /\ job'.text = job.text /\ upsets' = upsets
    BY <1>1, <1>5, GoesTo
  <2>2. n \in DOMAIN disk' /\ disk'[n] = job.text
    BY <1>2, <1>3, <1>5 DEF Renamed, With, Without
  <2>3. \A d : d \notin {n, OldOf(n), t} =>
           (d \in DOMAIN disk' <=> d \in DOMAIN disk) /\ (d \in DOMAIN disk => disk'[d] = disk[d])
    BY <1>2, <1>5, MovedOwn
  <2>4. OnlyOwn(n)
    BY <1>1, <2>3 DEF OnlyOwn
  <2>5. OwnSafe'
    BY <1>1, <1>3, <2>1, <2>2 DEF OwnSafe
  <2>6. Past'
    BY <2>1, PastNext
  <2>7. Found(n, disk)'
    BY <1>1, <1>3, <2>1, <2>2 DEF Found, Versions
  <2>8. n \in DOMAIN kept' /\ disk'[n] \in kept'[n]
    BY <1>1, <1>3, <2>2
  <2>. QED BY <1>1, <2>1, <2>4, <2>5, <2>6, <2>7, <2>8, GoesOn
<1>. QED BY <1>4, <1>5 DEF Show

LEMMA EraseOldSaved == ASSUME IInv, WriteStep, EraseOld PROVE Saved'
<1> DEFINE n == job.name
           o == OldOf(n)
<1>1. /\ DOMAIN job = JobFields /\ Proper(n) /\ Saved /\ upsets \in {0, 1}
      /\ job.at = "erase" /\ Past /\ Under
      /\ UNCHANGED clobbered /\ kept' = With(kept, n, {job.text}) /\ EndWith(0)
      /\ disk' = Without(disk, o) \/ disk' = disk
  BY StepIs, PastNow DEF EraseOld, Past
<1>2. n # o
  BY <1>1, OwnNames
<1>3. n \in DOMAIN disk /\ disk[n] = job.text
  BY <1>1 DEF Saved, OwnSafe
<1>4. upsets' > 0 => upsets > 0
  BY <1>1 DEF EraseOld
<1>5. /\ n \in DOMAIN kept' /\ kept'[n] = {job.text}
      /\ \A f : f # n => (f \in DOMAIN kept' <=> f \in DOMAIN kept)
      /\ \A f \in DOMAIN kept : f # n => kept'[f] = kept[f]
  BY <1>1 DEF With
<1>6. /\ n \in DOMAIN disk' /\ disk'[n] = job.text
      /\ \A d : d # o =>
            (d \in DOMAIN disk' <=> d \in DOMAIN disk) /\ (d \in DOMAIN disk => disk'[d] = disk[d])
  <2>1. CASE disk' = Without(disk, o)
    BY <1>2, <1>3, <2>1 DEF Without
  <2>2. CASE disk' = disk
    BY <1>3, <2>2
  <2>. QED BY <1>1, <2>1, <2>2
<1>7. OnlyOwn(n)
  BY <1>5, <1>6 DEF OnlyOwn
<1>8. ~Under'
  BY <1>1, EndsAt
<1>9. n \in DOMAIN disk' => n \in DOMAIN kept' /\ disk'[n] \in kept'[n]
  BY <1>5, <1>6
<1>. QED BY <1>1, <1>4, <1>6, <1>7, <1>8, <1>9, Stops

LEMMA WriteStepSaved == ASSUME IInv, WriteStep PROVE Saved'
BY DropOldSaved, DropTmpSaved, LookSaved, WriteLineSaved, HideSaved, ShowSaved, EraseOldSaved
   DEF WriteStep

LEMMA NextSaved == ASSUME IInv, Next PROVE Saved'
<1>1. CASE WriteStep \/ EndSave \/ EndPut \/ EndExit \/ ExitNext
  BY <1>1, WriteStepSaved, EndsSaved
<1>2. CASE EditFile \/ Ring \/ Edit \/ Save \/ Put \/ Get \/ Quit \/ QuitAll \/ Exit
  BY <1>2, CommandsSaved, GetSaved
<1>3. CASE Enter \/ Mode \/ ModeLost \/ Lost \/ UnknownRescue \/ Crash
  BY <1>3, ModesSaved, CrashSaved
<1>. QED BY <1>1, <1>2, <1>3 DEF Next

-----------------------------------------------------------------------------
(* The theorem *)

LEMMA InitIInv == ASSUME OneUpset, Init PROVE IInv
<1>1. /\ disk = OnDisk /\ ee = NoMemory /\ job = Idle /\ mode = NoMode /\ status = "cms"
      /\ scope \in Scopes /\ upsets = scope.upsets
      /\ kept = [f \in DOMAIN OnDisk |-> {OnDisk[f]}] /\ clobbered = {}
  BY DEF Init
<1>2. Editors
  <2>1. upsets \in {0, 1}
    BY <1>1 DEF OneUpset
  <2>2. Linkage(ee) /\ Counts(ee, upsets)
    BY <1>1, NothingOpen
  <2>. QED BY <1>1, <2>1, <2>2 DEF Editors, Bounds, OnScreen, JobSound
<1>3. ~Under
  BY <1>1, NotUnder
<1>4. Honest
  BY <1>1, SessionAssumption DEF Honest
<1>5. \A f \in DOMAIN kept : Found(f, disk)
  BY <1>1 DEF Found, Versions
<1>6. Saved
  BY <1>3, <1>4, <1>5 DEF Saved, OthersSafe, OwnSafe, Whole, Safe, Past
<1>. QED BY <1>2, <1>6 DEF IInv

LEMMA StutterIInv == ASSUME IInv, UNCHANGED vars PROVE IInv'
<1>1. UNCHANGED <<disk, ee, job, mode, status, scope, upsets, kept, clobbered>>
  BY DEF vars
<1>2. Editors'
  BY <1>1 DEF IInv, Editors, Bounds, OnScreen, JobSound, Exiting
<1>3. Saved'
  BY <1>1 DEF IInv, Saved, Honest, OthersSafe, OwnSafe, Whole, Safe, Found, Versions, Under, Past,
     OldOf, TmpOf
<1>. QED BY <1>2, <1>3 DEF IInv

\* A file is in reach after one upset, be it a call of CMS that fails or the
\* end of the virtual machine between any two of the steps of writeToFile(),
\* and whatever was opened, edited, put, got and closed before and after it:
\* in the version last written, or a later one, under its own name, EE$OLD or
\* EE$TMP, unless it was left behind there and another file of its filename
\* was written since.
THEOREM SavedIsFound == ASSUME OneUpset PROVE Spec => []SavedSurvives
<1>1. Init => IInv
  BY InitIInv
<1>2. IInv /\ [Next]_vars => IInv'
  BY NextEditors, NextSaved, StutterIInv DEF IInv
<1>3. IInv => SavedSurvives
  <2>1. IInv /\ job = Idle => Resting
    BY NotUnder, AtRest DEF IInv
  <2>. QED BY <2>1 DEF Resting, Safe, SavedSurvives
<1>. QED BY <1>1, <1>2, <1>3, PTL DEF Spec

-----------------------------------------------------------------------------
(* The second theorem: what is closed is saved *)

-----------------------------------------------------------------------------
(* What the functions of the list do to a text that is not modified *)

RFields == {"next", "prev", "mine", "text", "firstFree", "cur", "curNo", "count", "marks",
            "modified", "oom", "broken"}

\* q is r as far as its text goes, or counts as modified.
Follows(r, q) ==
    /\ DOMAIN q = RFields
    /\ q.modified = TRUE \/ (q.next = r.next /\ q.text = r.text /\ q.modified = r.modified)

\* The text is a function of what Follows() compares.
Walked(next, l) ==
    LET walk[i \in 0 .. Cardinality(Lines) + 1] ==
            IF i = 0 THEN <<l>>
            ELSE LET met == walk[i - 1]
                 IN  IF Last(met) \in {EOF, NULL} THEN met ELSE Append(met, next[Last(met)])
    IN  walk[Cardinality(Lines) + 1]
TextsOf(next, text) ==
    LET chain == Front(Walked(next, next[BOF]))
    IN  [i \in DOMAIN chain |-> text[chain[i]]]

LEMMA ContentIs == ASSUME NEW r PROVE Content(r) = TextsOf(r.next, r.text)
<1>1. \A l : Follow(r, l) = Walked(r.next, l)
  BY DEF Follow, Walked
<1>2. Chain(r) = Front(Walked(r.next, r.next[BOF]))
  BY <1>1 DEF Chain
<1>. QED BY <1>2 DEF Content, TextsOf

LEMMA SameContent ==
    ASSUME NEW r, NEW q, q.next = r.next, q.text = r.text
    PROVE  Content(q) = Content(r)
BY ContentIs

LEMMA Moves ==
    ASSUME NEW r, DOMAIN r = RFields
    PROVE  /\ Follows(r, r) /\ Follows(r, MoveToBOF(r)) /\ Follows(r, MoveToLastLine(r))
           /\ \A by : Follows(r, MoveBy(r, by))
           /\ \A n : Follows(r, Reached(r, n))
<1> DEFINE q(x, y) == [r EXCEPT !.cur = x, !.curNo = y]
<1>1. ASSUME NEW x, NEW y PROVE Follows(r, q(x, y))
  BY DEF RFields, Follows
<1>2. Follows(r, r)
  BY DEF Follows
<1>3. Follows(r, MoveToBOF(r)) /\ Follows(r, MoveToLastLine(r))
  BY <1>1 DEF MoveToBOF, MoveToLastLine
<1>4. ASSUME NEW by PROVE Follows(r, MoveBy(r, by))
  <2> DEFINE to == CHOOSE p \in 0 .. Len(Chain(r)) :
                      \/ p = PlaceOf(r, r.cur) + by
                      \/ p = 0 /\ PlaceOf(r, r.cur) + by < 0
                      \/ p = Len(Chain(r)) /\ PlaceOf(r, r.cur) + by > p
             x == Follow(r, BOF)[to + 1]
             y == r.curNo + to - PlaceOf(r, r.cur)
  <2>1. MoveBy(r, by) = [r EXCEPT !.cur = x, !.curNo = y]
    BY DEF MoveBy
  <2> HIDE DEF x, y, to
  <2>. QED BY <2>1 DEF Follows, RFields
<1>5. ASSUME NEW n PROVE Follows(r, Reached(r, n))
  BY <1>2, <1>4 DEF Reached
<1>. QED BY <1>2, <1>3, <1>4, <1>5

LEMMA InsertsAfter ==
    ASSUME NEW r, DOMAIN r = RFields, NEW l, NEW txt
    PROVE  Follows(r, InsertLineAfter(r, l, txt))
<1> DEFINE new == r.firstFree
           at  == IF l = NULL THEN BOF ELSE l
           after == r.next[at]
           d == [r EXCEPT !.firstFree = r.next[new], !.mine[new] = TRUE,
                       !.text[new] = txt, !.modified = TRUE,
                       !.next = [@ EXCEPT ![new] = after, ![at] = new],
                       !.prev = [@ EXCEPT ![after] = new, ![new] = at],
                       !.count = @ + 1,
                       !.curNo = IF Contains(Follow(r, after), r.cur) THEN @ + 1 ELSE @]
<1>1. Follows(r, [r EXCEPT !.oom = TRUE]) /\ Follows(r, [r EXCEPT !.broken = TRUE])
  BY DEF RFields, Follows
<1>2. DOMAIN d = RFields /\ d.modified = TRUE
  BY DEF RFields
<1>3. \/ InsertLineAfter(r, l, txt) = [r EXCEPT !.oom = TRUE]
      \/ InsertLineAfter(r, l, txt) = [r EXCEPT !.broken = TRUE]
      \/ InsertLineAfter(r, l, txt) = d
  BY DEF InsertLineAfter
<1> HIDE DEF d
<1>. QED BY <1>1, <1>2, <1>3 DEF Follows

LEMMA Inserts ==
    ASSUME NEW r, DOMAIN r = RFields, NEW txt
    PROVE  Follows(r, InsertLine(r, txt))
<1> DEFINE new == InsertLineAfter(r, r.cur, txt)
<1>1. Follows(r, new)
  BY InsertsAfter
<1>2. InsertLine(r, txt) = new \/ InsertLine(r, txt) = [new EXCEPT !.cur = r.firstFree]
  BY DEF InsertLine
<1> HIDE DEF new
<1>3. Follows(r, [new EXCEPT !.cur = r.firstFree])
  BY <1>1 DEF Follows, RFields
<1>. QED BY <1>1, <1>2, <1>3

LEMMA FreesLine ==
    ASSUME NEW r, DOMAIN r = RFields, r.modified = TRUE, NEW l
    PROVE  DOMAIN FreeLine(r, l) = RFields /\ FreeLine(r, l).modified = TRUE
BY DEF FreeLine, RFields

\* InTurn() with one function or the other, as a function of the place.
TurnIs(freeing, x, y) == IF freeing THEN FreeLine(x, y) ELSE InsertLine(x, y)
InTurns(freeing, r, s, n, u) ==
    u = [i \in 0 .. n |-> IF i = 0 THEN r ELSE TurnIs(freeing, u[i - 1], s[i])]

LEMMA TurnsExist ==
    ASSUME NEW freeing \in BOOLEAN, NEW r, NEW s, NEW n \in Nat
    PROVE  \E u : InTurns(freeing, r, s, n, u)
<1> DEFINE bad == {k \in Nat : ~\E u : InTurns(freeing, r, s, k, u)}
<1>1. SUFFICES ASSUME bad # {} PROVE FALSE
  OBVIOUS
<1>2. PICK k \in bad : \A x \in bad : k =< x
  BY <1>1, LeastNumber
<1>3. CASE k = 0
  <2> DEFINE w == [i \in 0 .. 0 |-> r]
  <2>1. InTurns(freeing, r, s, 0, w)
    BY DEF InTurns
  <2>. QED BY <1>2, <1>3, <2>1
<1>4. CASE k # 0
  <2>1. k - 1 \in Nat /\ k - 1 \notin bad
    BY <1>2, <1>4
  <2>2. PICK v : InTurns(freeing, r, s, k - 1, v)
    BY <2>1
  <2> DEFINE w == [i \in 0 .. k |-> IF i = k THEN TurnIs(freeing, v[k - 1], s[k]) ELSE v[i]]
             u == [i \in 0 .. k |-> IF i = 0 THEN r ELSE TurnIs(freeing, w[i - 1], s[i])]
  <2>3. ASSUME NEW i \in 0 .. k PROVE w[i] = u[i]
    <3>1. CASE i = k
      <4>1. w[k] = TurnIs(freeing, v[k - 1], s[k]) /\ w[k - 1] = v[k - 1]
        BY <2>1
      <4>. QED BY <1>4, <3>1, <4>1
    <3>2. CASE i # k /\ i = 0
      BY <2>1, <2>2, <3>2 DEF InTurns
    <3>3. CASE i # k /\ i # 0
      <4>1. w[i] = v[i] /\ w[i - 1] = v[i - 1] /\ i \in 0 .. k - 1
        BY <2>1, <3>3
      <4>2. v[i] = TurnIs(freeing, v[i - 1], s[i])
        BY <2>2, <3>3, <4>1 DEF InTurns
      <4>. QED BY <3>3, <4>1, <4>2
    <3>. QED BY <3>1, <3>2, <3>3
  <2>4. w = u
    BY <2>3
  <2>5. InTurns(freeing, r, s, k, w)
    BY <2>4 DEF InTurns
  <2>. QED BY <1>2, <2>5
<1>. QED BY <1>3, <1>4

\* Lines inserted or freed in turn leave an editor's record one, and lines
\* freed in turn leave it modified if it was.
LEMMA AllTurns ==
    ASSUME NEW freeing \in BOOLEAN, NEW r, DOMAIN r = RFields, NEW s, Len(s) \in Nat,
           freeing => r.modified = TRUE,
           NEW d, d = IF freeing THEN InTurn(FreeLine, r, s) ELSE InTurn(InsertLine, r, s)
    PROVE  DOMAIN d = RFields /\ (freeing => d.modified = TRUE)
<1> DEFINE n == Len(s)
           after == CHOOSE u : InTurns(freeing, r, s, n, u)
           good(e) == DOMAIN e = RFields /\ (freeing => e.modified = TRUE)
           bad == {k \in 0 .. n : ~good(after[k])}
<1>1. d = after[n]
  <2>1. CASE freeing
    BY <2>1 DEF InTurn, InTurns, TurnIs
  <2>2. CASE ~freeing
    BY <2>2 DEF InTurn, InTurns, TurnIs
  <2>. QED BY <2>1, <2>2
<1>2. InTurns(freeing, r, s, n, after)
  BY TurnsExist
<1> HIDE DEF after, n
<1>3. n \in Nat
  BY DEF n
<1>4. good(after[0])
  BY <1>2, <1>3 DEF InTurns
<1>5. ASSUME NEW k \in 0 .. n, k # 0, good(after[k - 1]) PROVE good(after[k])
  <2>1. after[k] = TurnIs(freeing, after[k - 1], s[k])
    BY <1>2, <1>3, <1>5 DEF InTurns
  <2> DEFINE e == after[k - 1]
             l == s[k]
  <2>2. DOMAIN e = RFields /\ (freeing => e.modified = TRUE) /\ after[k] = TurnIs(freeing, e, l)
    BY <1>5, <2>1
  <2> HIDE DEF e, l
  <2>3. freeing => DOMAIN FreeLine(e, l) = RFields /\ FreeLine(e, l).modified = TRUE
    BY <2>2, FreesLine
  <2>4. DOMAIN InsertLine(e, l) = RFields
    BY <2>2, Inserts DEF Follows
  <2>. QED BY <2>2, <2>3, <2>4 DEF TurnIs
<1> HIDE DEF good
<1>6. ASSUME bad # {} PROVE FALSE
  <2>1. bad \subseteq Nat
    BY <1>3
  <2>2. PICK k \in bad : \A x \in bad : k =< x
    BY <1>6, <2>1, LeastNumber
  <2>3. k # 0 /\ k \in 0 .. n /\ ~good(after[k])
    BY <1>4, <2>2
  <2>4. k - 1 \in 0 .. n /\ k - 1 \notin bad
    BY <1>3, <2>2, <2>3
  <2>5. good(after[k - 1])
    BY <2>4
  <2>. QED BY <1>5, <2>3, <2>5
<1>7. n \in 0 .. n
  BY <1>3
<1>8. good(d)
  BY <1>1, <1>6, <1>7
<1>. QED BY <1>8 DEF good

LEMMA Recomputes ==
    ASSUME NEW r, DOMAIN r = RFields
    PROVE  Follows(r, RecomputeNo(r))
BY DEF RecomputeNo, Follows, RFields

LEMMA DeletesRange ==
    ASSUME NEW r, DOMAIN r = RFields, NEW a, NEW b
    PROVE  Follows(r, DeleteLineRange(r, a, b))
<1> DEFINE range == OrderLines(r, a, b)
           head  == r.prev[range[1]]
           tail  == r.next[range[2]]
           gone  == Between(r, range[1], range[2])
           cut   == [r EXCEPT !.cur = IF Contains(gone, @) THEN head ELSE @,
                              !.next[head] = tail, !.prev[tail] = head,
                              !.modified = TRUE, !.count = @ - Len(gone)]
           d == InTurn(FreeLine, cut, gone)
<1>1. \/ DeleteLineRange(r, a, b) = r
      \/ DeleteLineRange(r, a, b) = [r EXCEPT !.broken = TRUE]
      \/ DeleteLineRange(r, a, b) = RecomputeNo(d)
  BY DEF DeleteLineRange
<1>2. Follows(r, r) /\ Follows(r, [r EXCEPT !.broken = TRUE])
  BY DEF Follows, RFields
<1>3. DOMAIN cut = RFields /\ cut.modified = TRUE
  BY DEF RFields
<1>4. IsList(gone)
  BY BetweenIsList
<1>5. Len(gone) \in Nat
  BY <1>4, Lists
<1> HIDE DEF cut, gone
<1>6. DOMAIN d = RFields /\ d.modified = TRUE
  <2>1. TRUE \in BOOLEAN
    OBVIOUS
  <2>. QED BY <1>3, <1>5, <2>1, AllTurns
<1> HIDE DEF d
<1>7. Follows(d, RecomputeNo(d))
  BY <1>6, Recomputes
<1>8. Follows(r, RecomputeNo(d))
  BY <1>6, <1>7 DEF Follows
<1>. QED BY <1>1, <1>2, <1>8

LEMMA ReadIsList == ASSUME NEW t, Len(t) \in Nat, DOMAIN t = 1 .. Len(t) PROVE Len(Read(t)) = Len(t)
<1> DEFINE f(i) == [k \in DOMAIN t[i] |-> IF t[i][k] = Binary THEN Binary + 1 ELSE t[i][k]]
           g == [i \in 1 .. Len(t) |-> f(i)]
           S == {f(i) : i \in 1 .. Len(t)}
<1>1. Read(t) = g
  BY DEF Read
<1> HIDE DEF f
<1>2. g \in Seq(S) /\ DOMAIN g = 1 .. Len(t)
  OBVIOUS
<1>. QED BY <1>1, <1>2, LenProperties

-----------------------------------------------------------------------------
(* The texts of the editors and the file being written *)

Modes(s) == \E c \in s.cmds : c.c \in {"INPUTMODE", "PINPUT"}
Closing(s) == \E c \in s.cmds : c.c \in {"FILE", "QUIT", "EXIT"}

\* Programmer's input does not count a split or a join as a change, and QUIT
\* believes it: a session that uses the input modes closes nothing.
ModesCloseNothing == \A s \in Scopes : Modes(s) => ~Closing(s)

\* The text of an editor is as it was read or written last, or counts as
\* modified.
Intact(x) == DOMAIN x.r = RFields /\ (x.r.modified = TRUE \/ Content(x.r) = x.base)
AllIntact(e) == \A h \in DOMAIN e.eds : Intact(e.eds[h])
TextsIntact == ~Modes(scope) => mode = NoMode /\ AllIntact(ee)

NothingCloses == Modes(scope) => job = Idle \/ job.cmd \in {"SAVE", "PUT", "PUTD"}

\* What SAVE, FILE and EXIT write is the text of the editor, and is there when
\* they have succeeded.
Filing ==
    job # Idle /\ job.at \in WriteSteps /\ job.cmd \in {"SAVE", "FILE", "EXIT"} =>
        job.text = Written(Content(ee.eds[job.h].r))
Landed ==
    job # Idle /\ job.at = "end" /\ job.result = 0 =>
        job.name \in DOMAIN disk /\ disk[job.name] = job.text
DiskLists == \A f \in DOMAIN disk : IsList(disk[f])

Filed == TextsIntact /\ NothingCloses /\ Filing /\ Landed /\ DiskLists

\* What ClosedIsSaved says of one step.
ClosedWell ==
    trip'.step # "drop" =>
        \A h \in DOMAIN ee.eds \ DOMAIN ee'.eds :
            LET e == ee.eds[h]
                f == IF job # Idle /\ job.at = "end" THEN job.name ELSE e.name
            IN  \/ Content(e.r) = e.base
                \/ f \in DOMAIN disk' /\ disk'[f] = Written(Content(e.r))
                \/ ~e.sound \/ ee.count # Len(ee.ring)

LEMMA StillOpen == ASSUME DOMAIN ee.eds \subseteq DOMAIN ee'.eds PROVE ClosedWell
BY DEF ClosedWell

LEMMA WasClosed ==
    ASSUME NEW h, \A k \in DOMAIN ee.eds : k # h => k \in DOMAIN ee'.eds,
           job = Idle \/ job.at # "end",
           h \in DOMAIN ee.eds => Content(ee.eds[h].r) = ee.eds[h].base
    PROVE  ClosedWell
BY DEF ClosedWell

LEMMA WasFiled ==
    ASSUME job # Idle, job.at = "end", \A k \in DOMAIN ee.eds : k # job.h => k \in DOMAIN ee'.eds,
           job.name \in DOMAIN disk', disk'[job.name] = Written(Content(ee.eds[job.h].r))
    PROVE  ClosedWell
BY DEF ClosedWell

-----------------------------------------------------------------------------
(* What becomes of the texts *)

LEMMA FollowsIntact ==
    ASSUME NEW x, DOMAIN x = EdFields, Intact(x), NEW r, Follows(x.r, r)
    PROVE  Intact([x EXCEPT !.r = r])
<1> DEFINE y == [x EXCEPT !.r = r]
<1>1. y.r = r /\ y.base = x.base
  BY DEF EdFields
<1> HIDE DEF y
<1>2. CASE r.modified = TRUE
  BY <1>1, <1>2 DEF Intact, Follows
<1>3. CASE r.modified # TRUE
  <2>1. r.next = x.r.next /\ r.text = x.r.text /\ r.modified = x.r.modified
    BY <1>3 DEF Follows
  <2>2. Content(r) = Content(x.r)
    BY <2>1, SameContent
  <2>. QED BY <1>1, <1>3, <2>1, <2>2 DEF Intact, Follows
<1>. QED BY <1>2, <1>3 DEF y

LEMMA ChangesIntact ==
    ASSUME NEW e, Linkage(e), AllIntact(e), NEW h \in DOMAIN e.eds, NEW r, Follows(e.eds[h].r, r)
    PROVE  AllIntact([e EXCEPT !.eds[h].r = r])
<1> DEFINE x == e.eds[h]
           y == [x EXCEPT !.r = r]
           d == [e EXCEPT !.eds[h].r = r]
<1>1. DOMAIN x = EdFields /\ DOMAIN e = EeFields /\ Intact(x)
  BY DEF Linkage, AllIntact
<1>2. Intact(y)
  BY <1>1, FollowsIntact
<1>3. d.eds = [e.eds EXCEPT ![h] = y]
  BY <1>1 DEF EeFields
<1> HIDE DEF d, y
<1>4. DOMAIN d.eds = DOMAIN e.eds /\ \A k \in DOMAIN d.eds : d.eds[k] = IF k = h THEN y ELSE e.eds[k]
  BY <1>3
<1>5. AllIntact(d)
  BY <1>2, <1>4 DEF AllIntact
<1>. QED BY <1>5 DEF d

LEMMA TurnsIntact ==
    ASSUME NEW e, Linkage(e), AllIntact(e), NEW x
    PROVE  AllIntact([e EXCEPT !.ed = x])
BY Turns DEF AllIntact

LEMMA FreesIntact ==
    ASSUME NEW e, Linkage(e), NEW h \in DOMAIN e.eds
    PROVE  /\ AllIntact(e) => AllIntact(Freed(e, h)) /\ AllIntact(Closed(e, h))
           /\ DOMAIN Closed(e, h).eds = DOMAIN e.eds \ {h}
<1> DEFINE f == Freed(e, h)
           c == Closed(e, h)
<1>1. DOMAIN e = EeFields
  BY DEF Linkage
<1>2. f.eds = Without(e.eds, h) /\ DOMAIN f = EeFields
  BY <1>1 DEF Freed, EeFields
<1>3. c.eds = f.eds
  BY <1>2 DEF Closed, EeFields
<1> HIDE DEF f, c
<1>4. DOMAIN f.eds = DOMAIN e.eds \ {h} /\ \A k \in DOMAIN f.eds : f.eds[k] = e.eds[k]
  BY <1>2 DEF Without
<1>5. AllIntact(e) => AllIntact(f) /\ AllIntact(c)
  BY <1>3, <1>4 DEF AllIntact
<1>6. DOMAIN c.eds = DOMAIN e.eds \ {h}
  BY <1>3, <1>4
<1>. QED BY <1>5, <1>6 DEF f, c

\* An editor without a neighbour is the only one.
LEMMA Alone ==
    ASSUME NEW e, Linkage(e), NEW h \in DOMAIN e.eds, NextEd(e, h) = h
    PROVE  \A k \in DOMAIN e.eds : k = h
<1> SUFFICES ASSUME NEW k \in DOMAIN e.eds PROVE k = h
  OBVIOUS
<1>1. Len(e.ring) = 1
  BY Neighbours
<1>2. At(e, h) \in 1 .. 1 /\ At(e, k) \in 1 .. 1 /\ e.ring[At(e, h)] = h /\ e.ring[At(e, k)] = k
  BY <1>1, Places
<1>. QED BY <1>2

LEMMA UnmodifiesIntact ==
    ASSUME NEW e, Linkage(e), AllIntact(e), NEW h \in DOMAIN e.eds
    PROVE  AllIntact(Unmodified(e, h))
<1> DEFINE x == e.eds[h]
           r == x.r
           q == [r EXCEPT !.modified = FALSE]
           y == [x EXCEPT !.name = job.name, !.base = Content(r), !.r = q]
           d == Unmodified(e, h)
<1>1. DOMAIN x = EdFields /\ DOMAIN e = EeFields /\ DOMAIN r = RFields
  BY DEF Linkage, AllIntact, Intact
<1>2. DOMAIN q = RFields /\ q.next = r.next /\ q.text = r.text
  BY <1>1 DEF RFields
<1>3. Content(q) = Content(r)
  BY <1>2, SameContent
<1>4. d.eds = [e.eds EXCEPT ![h] = y]
  BY <1>1 DEF EeFields, EdFields, Unmodified
<1> HIDE DEF q
<1>5. y.r = q /\ y.base = Content(r)
  BY <1>1 DEF EdFields
<1> HIDE DEF y, d
<1>6. Intact(y)
  BY <1>2, <1>3, <1>5 DEF Intact
<1>7. DOMAIN d.eds = DOMAIN e.eds /\ \A k \in DOMAIN d.eds : d.eds[k] = IF k = h THEN y ELSE e.eds[k]
  BY <1>4
<1>8. AllIntact(d)
  BY <1>6, <1>7 DEF AllIntact
<1>. QED BY <1>8 DEF d

LEMMA NoneIntact == AllIntact(NoMemory) /\ DOMAIN NoMemory.eds = {}
<1>1. NoMemory.eds = [h \in {} |-> NoMode]
  BY DEF NoMemory
<1>2. DOMAIN NoMemory.eds = {}
  BY <1>1
<1>. QED BY <1>2 DEF AllIntact

LEMMA LeftIntact == ASSUME NEW e, Leaves(e), AllIntact(e) PROVE AllIntact(ee')
BY NoneIntact DEF Leaves, AllIntact

\* An editor on the screen: EE goes on with it.
LEMMA LeavesIs ==
    ASSUME NEW e, Leaves(e), Linkage(e), e.ed \in DOMAIN e.eds
    PROVE  ee' = e
BY Places DEF Leaves

LEMMA ListsRead ==
    ASSUME NEW t, IsList(t)
    PROVE  Len(Read(t)) \in Nat
<1>1. Len(t) \in Nat /\ DOMAIN t = 1 .. Len(t)
  BY Lists
<1>. QED BY <1>1, ReadIsList

LEMMA OpenedIntact ==
    ASSUME NEW page, NEW txts, Len(txts) \in Nat
    PROVE  DOMAIN Opened(page, txts) = RFields
<1> DEFINE empty == [next |-> [s \in Slots |->
                     IF s = BOF THEN EOF ELSE IF ~Contains(page, s) \/ s = Last(page) THEN NULL
                     ELSE page[SelectInSeq(page, LAMBDA x : x = s) + 1]],
                  prev |-> [s \in Slots |-> IF s = EOF THEN BOF ELSE NULL],
                  mine |-> [s \in Slots |-> s \in {BOF, EOF}],
                  text |-> [l \in Lines |-> <<>>],
                  firstFree |-> page[1], cur |-> BOF, curNo |-> 0, count |-> 0,
                  marks |-> [k \in MarkNos |-> NULL], modified |-> FALSE,
                  oom |-> FALSE, broken |-> FALSE]
           filled == InTurn(InsertLine, empty, txts)
<1>1. Opened(page, txts) = [MoveToBOF(filled) EXCEPT !.modified = FALSE]
  BY DEF Opened
<1>2. DOMAIN empty = RFields
  BY DEF RFields
<1> HIDE DEF empty
<1>3. DOMAIN filled = RFields
  <2>1. FALSE \in BOOLEAN
    OBVIOUS
  <2>. QED BY <1>2, <2>1, AllTurns
<1> HIDE DEF filled
<1>4. DOMAIN MoveToBOF(filled) = RFields
  BY <1>3, Moves DEF Follows
<1>. QED BY <1>1, <1>4

LEMMA LinksIntact ==
    ASSUME NEW e, Linkage(e), AllIntact(e), NEW h, NEW f, NEW txts, IsList(txts), NEW sound
    PROVE  AllIntact(Linked(e, h, f, txts, sound))
<1> DEFINE r == Opened(Page, Read(txts))
           x == [r |-> r, name |-> f, base |-> Content(r), binary |-> IsBinary(txts),
                 sound |-> sound]
           d == Linked(e, h, f, txts, sound)
<1>1. DOMAIN r = RFields
  BY ListsRead, OpenedIntact
<1>2. Intact(x)
  BY <1>1 DEF Intact
<1>3. DOMAIN e = EeFields
  BY DEF Linkage
<1>4. d.eds = With(e.eds, h, x)
  BY <1>3 DEF Linked, EeFields
<1> HIDE DEF x, d, r
<1>5. \A k \in DOMAIN d.eds : d.eds[k] = x \/ (k \in DOMAIN e.eds /\ d.eds[k] = e.eds[k])
  BY <1>4 DEF With
<1>6. AllIntact(d)
  BY <1>2, <1>5 DEF AllIntact
<1>. QED BY <1>6 DEF d

-----------------------------------------------------------------------------
(* The steps of writeToFile() *)

LEMMA PartIsList == ASSUME NEW t, NEW n \in Nat PROVE IsList(SubSeq(t, 1, n))
<1> DEFINE S == {t[i] : i \in 1 .. n}
<1>1. \A i \in 1 .. n : t[i] \in S
  OBVIOUS
<1>2. 1 \in Int /\ n \in Int
  OBVIOUS
<1>3. SubSeq(t, 1, n) \in Seq(S)
  BY <1>1, <1>2, SubSeqProperties
<1>. QED BY <1>3 DEF IsList

LEMMA EndsWith ==
    ASSUME DOMAIN job = JobFields, NEW result, EndWith(result)
    PROVE  job'.at = "end" /\ job'.result = result
BY DEF EndWith, JobFields

LEMMA WriteStepLands == ASSUME IInv, Filed, WriteStep PROVE Landed' /\ DiskLists'
<1>1. /\ DOMAIN job = JobFields /\ job.at \in WriteSteps /\ job # Idle
      /\ Proper(job.name) /\ IsList(job.text) /\ job.lines \in Nat
      /\ DOMAIN job' = JobFields /\ job'.name = job.name /\ job'.text = job.text
  BY WriteStepJob DEF IInv
<1>2. DiskLists
  BY DEF Filed
<1> DEFINE elsewhere == job'.at # "end" \/ job'.result # 0
<1>3. ASSUME NEW at, GoTo(at), at # "end" PROVE elsewhere
  BY <1>1, <1>3, GoesTo
<1>4. ASSUME NEW result, EndWith(result), result # 0 PROVE elsewhere
  BY <1>1, <1>4, EndsWith
<1>5. elsewhere => Landed'
  BY DEF Landed
<1> HIDE DEF elsewhere
<1>6. ASSUME NEW f PROVE \A x \in DOMAIN Without(disk, f) : IsList(Without(disk, f)[x])
  BY <1>2 DEF Without, DiskLists
<1>7. ASSUME NEW f, NEW t, IsList(t), NEW d, \A x \in DOMAIN d : IsList(d[x])
      PROVE  \A x \in DOMAIN With(d, f, t) : IsList(With(d, f, t)[x])
  BY <1>7 DEF With
<1>8. CASE DropOld \/ DropTmp
  <2>1. elsewhere
    <3>1. GoTo("drop EE$TMP") \/ GoTo("look") \/ EndWith(2)
      BY <1>8 DEF DropOld, DropTmp, Drop, Fails
    <3>2. "drop EE$TMP" # "end" /\ "look" # "end" /\ 2 # 0
      OBVIOUS
    <3>. QED BY <1>3, <1>4, <3>1, <3>2
  <2>2. disk' = disk \/ \E f : disk' = Without(disk, f)
    BY <1>8 DEF DropOld, DropTmp, Drop
  <2>3. DiskLists'
    BY <1>2, <1>6, <2>2 DEF DiskLists
  <2>. QED BY <1>5, <2>1, <2>3
<1>9. CASE Look
  <2>1. elsewhere
    <3>1. CASE EndWith(1) \/ EndWith(3)
      BY <1>4, <3>1
    <3>2. CASE job' = [job EXCEPT !.at = "write", !.existed = job.name \in DOMAIN disk]
      BY <1>1, <3>2 DEF JobFields, elsewhere
    <3>. QED BY <1>9, <3>1, <3>2 DEF Look, Fails
  <2>2. disk' = disk
    BY <1>9 DEF Look
  <2>. QED BY <1>2, <1>5, <2>1, <2>2 DEF DiskLists
<1>10. CASE WriteLine
  <2>1. CASE Fails(5) /\ disk' = Without(disk, TmpOf(job.name))
    <3>1. EndWith(5)
      BY <2>1 DEF Fails
    <3>2. DiskLists'
      BY <1>6, <2>1 DEF DiskLists
    <3>. QED BY <1>4, <1>5, <3>1, <3>2
  <2>2. CASE /\ disk' = With(disk, TmpOf(job.name), SubSeq(job.text, 1, job.lines + 1))
             /\ job' = [job EXCEPT !.lines = @ + 1,
                                !.at = IF job.lines + 1 = Len(job.text) THEN "hide" ELSE @]
    <3>1. job.lines + 1 \in Nat
      BY <1>1
    <3>2. IsList(SubSeq(job.text, 1, job.lines + 1))
      BY <3>1, PartIsList
    <3>3. DiskLists'
      BY <1>2, <1>7, <2>2, <3>2 DEF DiskLists
    <3>4. job.at = "write"
      BY <1>10 DEF WriteLine
    <3>5. elsewhere
      BY <1>1, <2>2, <3>4 DEF JobFields, elsewhere
    <3>. QED BY <1>5, <3>3, <3>5
  <2>. QED BY <1>10, <2>1, <2>2 DEF WriteLine
<1>11. CASE Hide \/ Show
  <2>1. elsewhere
    <3>1. GoTo("show") \/ GoTo("erase") \/ EndWith(2)
      BY <1>11 DEF Hide, Show, Fails
    <3>. QED BY <1>3, <1>4, <3>1
  <2>2. \/ disk' = disk
        \/ job.name \in DOMAIN disk /\ disk' = Renamed(job.name, OldOf(job.name))
        \/ TmpOf(job.name) \in DOMAIN disk /\ disk' = Renamed(TmpOf(job.name), job.name)
    <3>1. job.at = "hide" => job.existed = (job.name \in DOMAIN disk)
      BY <1>1 DEF IInv, Saved, OwnSafe, Under
    <3>2. job.at = "show" => TmpOf(job.name) \in DOMAIN disk
      BY <1>1 DEF IInv, Saved, OwnSafe, Under
    <3>. QED BY <1>11, <3>1, <3>2 DEF Hide, Show
  <2>3. ASSUME NEW f \in DOMAIN disk, NEW g, disk' = Renamed(f, g) PROVE DiskLists'
    <3>1. IsList(disk[f])
      BY <1>2 DEF DiskLists
    <3>2. \A x \in DOMAIN Renamed(f, g) : IsList(Renamed(f, g)[x])
      BY <1>6, <1>7, <3>1 DEF Renamed
    <3>. QED BY <2>3, <3>2 DEF DiskLists
  <2>4. DiskLists'
    BY <1>2, <2>2, <2>3 DEF DiskLists
  <2>. QED BY <1>5, <2>1, <2>4
<1>12. CASE EraseOld
  <2>1. disk' = disk \/ disk' = Without(disk, OldOf(job.name))
    BY <1>12 DEF EraseOld
  <2>2. job.name \in DOMAIN disk /\ disk[job.name] = job.text
    <3>1. job.at = "erase"
      BY <1>12 DEF EraseOld
    <3>. QED BY <1>1, <3>1 DEF IInv, Saved, OwnSafe, Under, WriteSteps
  <2>3. OldOf(job.name) # job.name
    BY <1>1, Names
  <2>4. job.name \in DOMAIN disk' /\ disk'[job.name] = job.text
    BY <2>1, <2>2, <2>3 DEF Without
  <2>5. DiskLists'
    BY <1>2, <1>6, <2>1 DEF DiskLists
  <2>. QED BY <1>1, <2>4, <2>5 DEF Landed
<1>. QED BY <1>8, <1>9, <1>10, <1>11, <1>12 DEF WriteStep

LEMMA WriteStepFiled == ASSUME IInv, Filed, WriteStep PROVE Filed' /\ ClosedWell
<1>1. /\ DOMAIN job' = JobFields /\ job'.cmd = job.cmd /\ job'.h = job.h
      /\ job'.text = job.text /\ job # Idle /\ job.at \in WriteSteps
      /\ UNCHANGED <<ee, mode, scope>>
  BY WriteStepJob DEF IInv
<1>2. Landed' /\ DiskLists'
  BY WriteStepLands
<1>3. TextsIntact' /\ NothingCloses' /\ Filing'
  BY <1>1 DEF Filed, TextsIntact, NothingCloses, Filing, AllIntact, Intact
<1>4. ClosedWell
  BY <1>1, StillOpen
<1>. QED BY <1>2, <1>3, <1>4 DEF Filed

-----------------------------------------------------------------------------
(* The ends of writeToFile() *)

\* Nothing is written after the step.
LEMMA IdleFiled ==
    ASSUME job' = Idle, DiskLists', TextsIntact'
    PROVE  Filed'
BY DEF Filed, NothingCloses, Filing, Landed

LEMMA IntactStays ==
    ASSUME Filed, UNCHANGED <<mode, scope>>, ~Modes(scope) => AllIntact(ee')
    PROVE  TextsIntact'
BY DEF Filed, TextsIntact

LEMMA DiskStays == ASSUME Filed, disk' = disk PROVE DiskLists'
BY DEF Filed, DiskLists

LEMMA EndSaveFiled == ASSUME IInv, Filed, EndSave PROVE Filed' /\ ClosedWell
<1>1. /\ job # Idle /\ job.at = "end" /\ job.cmd \in {"SAVE", "FILE"} /\ job' = Idle
      /\ UNCHANGED <<disk, mode, scope>>
  BY DEF EndSave
<1>2. job.at # "next" /\ ~Exiting
  BY <1>1 DEF Exiting
<1>3. /\ Linkage(ee) /\ ee.ed \in DOMAIN ee.eds /\ job.h \in DOMAIN ee.eds /\ Proper(job.name)
      /\ job.at \in WriteSteps
  BY <1>1, <1>2, AtJob DEF IInv
<1> DEFINE d == Unmodified(ee, job.h)
           c == Closed(d, job.h)
<1>4. /\ Linkage(d) /\ DOMAIN d.eds = DOMAIN ee.eds /\ d.ed = ee.ed
      /\ AllIntact(ee) => AllIntact(d)
  BY <1>3, Unmodifies, UnmodifiesIntact
<1>5. /\ Linkage(c) /\ DOMAIN c.eds = DOMAIN ee.eds \ {job.h}
      /\ c.ed = None \/ c.ed \in DOMAIN c.eds
      /\ AllIntact(ee) => AllIntact(c)
  BY <1>3, <1>4, Closes, FreesIntact
<1>6. \/ Leaves(ee) \/ Leaves(d)
      \/ Leaves(c) /\ job.cmd = "FILE" /\ job.result = 0
  BY DEF EndSave
<1> HIDE DEF c, d
<1>7. AllIntact(ee) => AllIntact(ee')
  BY <1>4, <1>5, <1>6, LeftIntact
<1>8. Filed'
  BY <1>1, <1>7, IdleFiled, IntactStays, DiskStays DEF Filed, TextsIntact
<1>9. CASE Leaves(ee) \/ Leaves(d)
  <2>1. DOMAIN ee'.eds = DOMAIN ee.eds
    BY <1>3, <1>4, <1>9, LeavesIs
  <2>. QED BY <1>8, <2>1, StillOpen
<1>10. CASE Leaves(c) /\ job.cmd = "FILE" /\ job.result = 0
  <2>1. job.name \in DOMAIN disk' /\ disk'[job.name] = Written(Content(ee.eds[job.h].r))
    BY <1>1, <1>3, <1>10 DEF Filed, Landed, Filing
  <2>2. CASE c.ed = None
    <3>1. ee' = NoMemory
      BY <1>10, <2>2 DEF Leaves
    <3>2. NextEd(d, job.h) = job.h
      <4>1. c.ed = IF NextEd(d, job.h) = job.h THEN None ELSE NextEd(d, job.h)
        BY <1>3, <1>4, Frees DEF c, Closed, Linkage, EeFields
      <4>2. NextEd(d, job.h) # None
        BY <1>3, <1>4, Neighbours, Places
      <4>. QED BY <2>2, <4>1, <4>2
    <3>3. \A k \in DOMAIN ee.eds : k = job.h
      BY <1>3, <1>4, <3>2, Alone
    <3>. QED BY <1>1, <1>8, <2>1, <3>3, WasFiled
  <2>3. CASE c.ed # None
    <3>1. ee' = c
      BY <1>10, <2>3 DEF Leaves
    <3>. QED BY <1>1, <1>5, <1>8, <2>1, <3>1, WasFiled
  <2>. QED BY <2>2, <2>3
<1>. QED BY <1>6, <1>9, <1>10

LEMMA EndPutFiled == ASSUME IInv, Filed, EndPut PROVE Filed' /\ ClosedWell
<1>1. /\ job # Idle /\ job.at = "end" /\ job.cmd \in {"PUT", "PUTD"} /\ job' = Idle
      /\ UNCHANGED <<disk, mode, scope>>
  BY DEF EndPut
<1>2. job.at # "next" /\ ~Exiting
  BY <1>1 DEF Exiting
<1>3. Linkage(ee) /\ ee.ed \in DOMAIN ee.eds /\ job.h \in DOMAIN ee.eds
  BY <1>1, <1>2, AtJob DEF IInv
<1> DEFINE r == DeleteLineRange(ee.eds[job.h].r, job.range[1], job.range[2])
           d == [ee EXCEPT !.eds[job.h].r = r]
<1>4. Leaves(ee) \/ Leaves(d)
  <2>1. d = [ee EXCEPT !.eds[job.h].r = DeleteLineRange(@, job.range[1], job.range[2])]
    OBVIOUS
  <2>. QED BY <2>1 DEF EndPut
<1>5. AllIntact(ee) => Follows(ee.eds[job.h].r, r)
  <2>1. AllIntact(ee) => DOMAIN ee.eds[job.h].r = RFields
    BY <1>3 DEF AllIntact, Intact
  <2>. QED BY <2>1, DeletesRange
<1> HIDE DEF r
<1>6. Linkage(d) /\ DOMAIN d.eds = DOMAIN ee.eds /\ d.ed = ee.ed
  BY <1>3, Changes
<1>7. AllIntact(ee) => AllIntact(d)
  BY <1>3, <1>5, ChangesIntact
<1> HIDE DEF d
<1>8. DOMAIN ee'.eds = DOMAIN ee.eds /\ (AllIntact(ee) => AllIntact(ee'))
  BY <1>3, <1>4, <1>6, <1>7, LeavesIs
<1>. QED BY <1>1, <1>8, StillOpen, IdleFiled, IntactStays, DiskStays DEF Filed, TextsIntact

\* EXIT is between two files.
LEMMA NextFiled ==
    ASSUME DOMAIN job' = {"cmd", "at", "h"}, job'.at = "next", DiskLists', TextsIntact', ~Modes(scope')
    PROVE  Filed'
<1>1. "next" \notin WriteSteps
  BY DEF WriteSteps
<1>. QED BY <1>1 DEF Filed, NothingCloses, Filing, Landed

LEMMA EndExitFiled == ASSUME IInv, Filed, EndExit PROVE Filed' /\ ClosedWell
<1>1. /\ job # Idle /\ job.at = "end" /\ job.cmd = "EXIT"
      /\ UNCHANGED <<disk, mode, scope>>
  BY DEF EndExit
<1>2. job.at # "next"
  BY <1>1
<1>3. Linkage(ee) /\ job.h \in DOMAIN ee.eds /\ Proper(job.name) /\ job.at \in WriteSteps
  BY <1>1, <1>2, AtJob DEF IInv
<1>4. ~Modes(scope) /\ AllIntact(ee)
  <2>1. ~Modes(scope)
    BY <1>1 DEF Filed, NothingCloses
  <2>. QED BY <2>1 DEF Filed, TextsIntact
<1>5. CASE job.result # 0
  <2>1. ee' = [ee EXCEPT !.ed = job.h] /\ job' = Idle
    BY <1>5 DEF EndExit
  <2>2. AllIntact(ee') /\ ee'.eds = ee.eds
    BY <1>3, <1>4, <2>1, Turns, TurnsIntact
  <2>. QED BY <1>1, <2>1, <2>2, StillOpen, IdleFiled, IntactStays, DiskStays
<1>6. CASE job.result = 0
  <2> DEFINE d == Unmodified(ee, job.h)
  <2>1. Linkage(d) /\ DOMAIN d.eds = DOMAIN ee.eds /\ AllIntact(d)
    BY <1>3, <1>4, Unmodifies, UnmodifiesIntact
  <2>2. ee' = Freed(d, job.h) /\ job' = [cmd |-> "EXIT", at |-> "next", h |-> NextEd(ee, job.h)]
    BY <1>6 DEF EndExit
  <2> HIDE DEF d
  <2>3. AllIntact(ee') /\ DOMAIN ee'.eds = DOMAIN ee.eds \ {job.h}
    BY <1>3, <2>1, <2>2, FreesIntact, Frees
  <2>4. job.name \in DOMAIN disk' /\ disk'[job.name] = Written(Content(ee.eds[job.h].r))
    BY <1>1, <1>3, <1>6 DEF Filed, Landed, Filing
  <2>5. ClosedWell
    BY <1>1, <2>3, <2>4, WasFiled
  <2>6. DOMAIN job' = {"cmd", "at", "h"} /\ job'.at = "next"
    BY <2>2
  <2>. QED BY <1>1, <1>4, <2>3, <2>5, <2>6, NextFiled, IntactStays, DiskStays
<1>. QED BY <1>5, <1>6

\* A file begins to be written.
LEMMA WriteFiled ==
    ASSUME NEW e, NEW cmd, NEW h, NEW f, NEW force, NEW txts, NEW range,
           Write(e, cmd, h, f, force, txts, range), Linkage(e), e.eds[h] = ee'.eds[h],
           cmd \in {"SAVE", "FILE", "EXIT"} => txts = Content(e.eds[h].r),
           Modes(scope') => cmd \in {"SAVE", "PUT", "PUTD"}, DiskLists', TextsIntact'
    PROVE  Filed'
<1>1. CASE job' = Idle
  BY <1>1, IdleFiled
<1>2. CASE job' # Idle
  <2>1. job' = [cmd |-> cmd, h |-> h, name |-> f, force |-> force, text |-> Written(txts),
                range |-> range, at |-> "drop EE$OLD", lines |-> 0, existed |-> FALSE,
                result |-> 0]
    BY <1>2 DEF Write
  <2>2. job'.cmd = cmd /\ job'.h = h /\ job'.text = Written(txts) /\ job'.at = "drop EE$OLD"
    BY <2>1
  <2>3. "drop EE$OLD" # "end"
    OBVIOUS
  <2>4. Filing' /\ Landed' /\ NothingCloses'
    BY <2>2, <2>3 DEF Filing, Landed, NothingCloses
  <2>. QED BY <2>4 DEF Filed
<1>. QED BY <1>1, <1>2

LEMMA ExitNextFiled == ASSUME IInv, Filed, ExitNext PROVE Filed' /\ ClosedWell
<1>1. /\ job # Idle /\ job.at = "next" /\ UNCHANGED <<disk, mode, scope>>
  BY DEF ExitNext
<1>2. /\ Linkage(ee) /\ job.cmd = "EXIT" /\ DOMAIN job = {"cmd", "at", "h"}
      /\ job.h \in DOMAIN ee.eds \/ ee.count = 0
  BY <1>1, AtJob DEF IInv
<1>3. ~Modes(scope) /\ AllIntact(ee)
  <2>1. ~Modes(scope)
    BY <1>1, <1>2 DEF Filed, NothingCloses
  <2>. QED BY <2>1 DEF Filed, TextsIntact
<1>4. CASE ee.count = 0
  <2> DEFINE d == [ee EXCEPT !.ed = None]
  <2>1. Leaves(d) /\ job' = Idle
    BY <1>4 DEF ExitNext
  <2>2. AllIntact(d)
    BY <1>2, <1>3, TurnsIntact
  <2> HIDE DEF d
  <2>3. AllIntact(ee')
    BY <2>1, <2>2, LeftIntact
  <2>4. ClosedWell
    <3>1. ASSUME NEW h \in DOMAIN ee.eds PROVE ee.count # Len(ee.ring)
      BY <1>2, <1>4, Places
    <3>. QED BY <3>1 DEF ClosedWell
  <2>. QED BY <1>1, <2>1, <2>3, <2>4, IdleFiled, IntactStays, DiskStays
<1>5. CASE ee.count # 0
  <2> DEFINE e == ee.eds[job.h]
  <2>1. job.h \in DOMAIN ee.eds /\ Intact(e)
    BY <1>2, <1>3, <1>5 DEF AllIntact
  <2>2. CASE e.r.modified
    <3>1. Write(ee, "EXIT", job.h, e.name, TRUE, Content(e.r), <<>>)
      BY <1>5, <2>2 DEF ExitNext
    <3>2. IsList(Content(e.r)) /\ "EXIT" \in {"SAVE", "FILE", "PUT", "PUTD", "EXIT"} /\ Proper(e.name)
      BY <1>2, <2>1, ContentIsList DEF Linkage
    <3>3. ee'.eds = ee.eds
      BY <1>2, <1>5, <2>1, <3>1, <3>2, Writes
    <3>4. TextsIntact' /\ DiskLists' /\ ClosedWell
      BY <1>1, <1>3, <3>3, IntactStays, DiskStays, StillOpen DEF AllIntact
    <3>5. Filed'
      BY <1>1, <1>2, <1>3, <3>1, <3>3, <3>4, WriteFiled
    <3>. QED BY <3>4, <3>5
  <2>3. CASE ~e.r.modified
    <3>1. ee' = Freed(ee, job.h) /\ job' = [job EXCEPT !.h = NextEd(ee, job.h)]
      BY <1>5, <2>3 DEF ExitNext
    <3>2. DOMAIN job' = {"cmd", "at", "h"} /\ job'.at = "next"
      BY <1>1, <1>2, <3>1
    <3>3. AllIntact(ee') /\ DOMAIN ee'.eds = DOMAIN ee.eds \ {job.h}
      BY <1>2, <1>3, <2>1, <3>1, FreesIntact, Frees
    <3>4. Content(e.r) = e.base
      BY <2>1, <2>3 DEF Intact
    <3>5. ClosedWell
      BY <1>1, <3>3, <3>4, WasClosed
    <3>. QED BY <1>1, <1>3, <3>2, <3>3, <3>5, NextFiled, IntactStays, DiskStays
  <2>. QED BY <2>2, <2>3
<1>. QED BY <1>4, <1>5

-----------------------------------------------------------------------------
(* The commands *)

\* A command leaves the files alone and works on the texts.
LEMMA CommandFiled ==
    ASSUME Filed, job' = Idle, UNCHANGED <<mode, scope, disk>>,
           ~Modes(scope) => AllIntact(ee')
    PROVE  Filed'
BY IdleFiled, IntactStays, DiskStays

LEMMA TextsAt == ASSUME Filed, ~Modes(scope) PROVE AllIntact(ee)
BY DEF Filed, TextsIntact

LEMMA NothingThere ==
    ASSUME Editors, job = Idle
    PROVE  /\ ee.ed = None \/ ee.ed \in DOMAIN ee.eds
           /\ ee.ed = None => DOMAIN ee.eds = {}
<1>1. CASE status = "cms"
  BY <1>1, NothingOpen, NoneIntact DEF Editors, OnScreen
<1>2. CASE status # "cms"
  BY <1>2, AtCommand
<1>. QED BY <1>1, <1>2

LEMMA EditFileFiled == ASSUME IInv, Filed, EditFile PROVE Filed' /\ ClosedWell
<1>1. PICK c \in scope.cmds :
        /\ Command(c, {"edit", "cms"}) /\ c.c = "EDIT" /\ Handles \ DOMAIN ee.eds # {}
        /\ \/ Leaves(Opening(ee, c.f)) /\ UNCHANGED upsets
           \/ /\ upsets > 0 /\ upsets' = upsets - 1
              /\ \E e \in FailedOpenings(ee, c.f) : Leaves(e)
        /\ job' = Idle /\ UNCHANGED disk
  BY DEF EditFile
<1>2. job = Idle /\ UNCHANGED <<mode, scope>>
  BY <1>1, CommandIs
<1>3. Linkage(ee) /\ Bounds /\ DiskLists
  BY DEF IInv, Editors, Filed
<1>4. (ee.ed = None \/ ee.ed \in DOMAIN ee.eds) /\ (ee.ed = None => DOMAIN ee.eds = {})
  BY <1>2, NothingThere DEF IInv
<1>5. Proper(c.f)
  <2>1. scope \in Scopes /\ c \in scope.cmds
    BY <1>1, <1>3 DEF Bounds
  <2>. QED BY <1>1, <2>1, SessionAssumption
<1>6. Fresh \in Handles \ DOMAIN ee.eds
  <2>1. Handles \ DOMAIN ee.eds \subseteq Nat
    BY SessionAssumption
  <2>. QED BY <1>1, <2>1, LeastNumber DEF Fresh
<1> DEFINE Fine(e) == /\ DOMAIN ee.eds \subseteq DOMAIN e.eds
                      /\ e.ed = None => DOMAIN ee.eds = {}
                      /\ AllIntact(ee) => AllIntact(e)
<1>7. Fine(ee)
  BY <1>4
<1>8. ASSUME NEW txts, IsList(txts), NEW sound
      PROVE  /\ Fine(Linked(ee, Fresh, c.f, txts, sound))
             /\ Fine(Shown(Linked(ee, Fresh, c.f, txts, sound), Fresh))
  <2> DEFINE l == Linked(ee, Fresh, c.f, txts, sound)
             d == Shown(l, Fresh)
  <2>1. Linkage(l) /\ DOMAIN l.eds = DOMAIN ee.eds \cup {Fresh} /\ l.ed = ee.ed
    BY <1>3, <1>4, <1>5, <1>6, Links
  <2>2. AllIntact(ee) => AllIntact(l)
    BY <1>3, <1>8, LinksIntact
  <2> HIDE DEF l
  <2>3. d.eds = l.eds /\ d.ed = Fresh
    BY <2>1, Shows
  <2> HIDE DEF d
  <2>4. Fresh # None
    BY <1>6, SessionAssumption DEF None
  <2>5. AllIntact(l) => AllIntact(d)
    BY <2>3 DEF AllIntact
  <2>. QED BY <1>4, <2>1, <2>2, <2>3, <2>4, <2>5 DEF l, d
<1>9. IsList(<<>>)
  BY EmptySeq DEF IsList
<1>10. \E e : Leaves(e) /\ Fine(e)
  <2>1. CASE Leaves(Opening(ee, c.f))
    <3>1. CASE OpenAs(ee, c.f) # None
      <4> DEFINE d == [ee EXCEPT !.ed = OpenAs(ee, c.f)]
      <4>1. d.eds = ee.eds /\ d.ed = OpenAs(ee, c.f)
        BY <1>3, Turns
      <4>2. Leaves(d)
        BY <2>1, <3>1 DEF Opening
      <4>3. AllIntact(ee) => AllIntact(d)
        BY <1>3, TurnsIntact
      <4> HIDE DEF d
      <4>. QED BY <3>1, <4>1, <4>2, <4>3
    <3>2. CASE OpenAs(ee, c.f) = None
      <4> DEFINE txts == IF c.f \in DOMAIN disk THEN disk[c.f] ELSE <<>>
      <4>1. Leaves(Shown(Linked(ee, Fresh, c.f, txts, TRUE), Fresh))
        BY <2>1, <3>2 DEF Opening
      <4>2. IsList(txts)
        BY <1>3, <1>9 DEF DiskLists
      <4> HIDE DEF txts
      <4>. QED BY <1>8, <4>1, <4>2
    <3>. QED BY <3>1, <3>2
  <2>2. ASSUME NEW e \in FailedOpenings(ee, c.f), Leaves(e) PROVE Fine(e)
    <3> HIDE DEF Fine
    <3>1. \/ e = ee
          \/ e = Shown(Linked(ee, Fresh, c.f, <<>>, FALSE), Fresh)
          \/ \E n \in 0 .. Len(disk[c.f]) - 1 :
                /\ c.f \in DOMAIN disk
                /\ e = Linked(ee, Fresh, c.f, SubSeq(disk[c.f], 1, n), FALSE)
      <4>1. OpenAs(ee, c.f) = None
        BY <2>2 DEF FailedOpenings
      <4>2. CASE c.f \notin DOMAIN disk
        BY <2>2, <4>1, <4>2 DEF FailedOpenings
      <4>3. CASE c.f \in DOMAIN disk
        BY <2>2, <4>1, <4>3 DEF FailedOpenings
      <4>. QED BY <4>2, <4>3
    <3>2. ASSUME NEW n \in 0 .. Len(disk[c.f]) - 1, c.f \in DOMAIN disk
          PROVE  IsList(SubSeq(disk[c.f], 1, n))
      <4>1. Len(disk[c.f]) \in Nat
        BY <1>3, <3>2, Lists DEF DiskLists
      <4>2. n \in Nat
        BY <4>1
      <4>. QED BY <4>2, PartIsList
    <3>. QED BY <1>7, <1>8, <1>9, <3>1, <3>2
  <2>. QED BY <1>1, <2>1, <2>2
<1>11. PICK e : Leaves(e) /\ Fine(e)
  BY <1>10
<1>12. AllIntact(ee) => AllIntact(ee')
  BY <1>11, LeftIntact
<1>13. DOMAIN ee.eds \subseteq DOMAIN ee'.eds
  BY <1>11 DEF Leaves
<1>. QED BY <1>1, <1>2, <1>12, <1>13, CommandFiled, TextsAt, StillOpen

\* Something becomes of the editor on the screen, or of the ring.
LEMMA StepFiled ==
    ASSUME Filed, job' = Idle, UNCHANGED <<mode, scope, disk>>,
           NEW e, Leaves(e), Linkage(e), e.ed \in DOMAIN e.eds, DOMAIN e.eds = DOMAIN ee.eds,
           ~Modes(scope) => AllIntact(e)
    PROVE  Filed' /\ ClosedWell
<1>1. ee' = e
  BY LeavesIs
<1>. QED BY <1>1, CommandFiled, StillOpen

LEMMA RingFiled == ASSUME IInv, Filed, Ring PROVE Filed' /\ ClosedWell
<1>1. PICK c \in scope.cmds :
        /\ Command(c, {"edit", "rescue"})
        /\ Leaves([ee EXCEPT !.ed = IF c.c = "RINGNEXT" THEN NextEd(ee, @) ELSE PrevEd(ee, @)])
        /\ job' = Idle /\ UNCHANGED disk
  BY DEF Ring, Quietly
<1>2. job = Idle /\ status # "cms" /\ UNCHANGED <<mode, scope>>
  BY <1>1, CommandIs
<1>3. Linkage(ee) /\ ee.ed \in DOMAIN ee.eds
  BY <1>2, AtCommand DEF IInv
<1> DEFINE x == IF c.c = "RINGNEXT" THEN NextEd(ee, ee.ed) ELSE PrevEd(ee, ee.ed)
           d == [ee EXCEPT !.ed = x]
<1>4. Leaves(d)
  BY <1>1
<1>5. x \in DOMAIN ee.eds
  BY <1>3, Neighbours
<1> HIDE DEF x
<1>6. Linkage(d) /\ d.eds = ee.eds /\ d.ed = x
  BY <1>3, Turns
<1>7. ~Modes(scope) => AllIntact(d)
  BY <1>3, TextsAt, TurnsIntact
<1> HIDE DEF d
<1>. QED BY <1>1, <1>2, <1>4, <1>5, <1>6, <1>7, StepFiled

LEMMA ChangedFiled ==
    ASSUME IInv, Filed, job = Idle, job' = Idle, status # "cms", UNCHANGED <<mode, scope, disk>>,
           NEW r, Changed(r), ~Modes(scope) => Follows(Here.r, r)
    PROVE  Filed' /\ ClosedWell
<1> DEFINE d == [ee EXCEPT !.eds[ee.ed].r = r]
<1>1. Linkage(ee) /\ ee.ed \in DOMAIN ee.eds
  BY AtCommand DEF IInv
<1>2. Linkage(d) /\ DOMAIN d.eds = DOMAIN ee.eds /\ d.ed = ee.ed
  BY <1>1, Changes
<1>3. Leaves(d)
  BY DEF Changed
<1>4. ~Modes(scope) => AllIntact(d)
  BY <1>1, TextsAt, ChangesIntact DEF Here
<1> HIDE DEF d
<1>. QED BY <1>1, <1>2, <1>3, <1>4, StepFiled

LEMMA HereIs ==
    ASSUME IInv, Filed, job = Idle, status # "cms", ~Modes(scope)
    PROVE  Here = ee.eds[ee.ed] /\ DOMAIN Here = EdFields /\ Intact(Here) /\ DOMAIN Here.r = RFields
<1>1. Linkage(ee) /\ ee.ed \in DOMAIN ee.eds
  BY AtCommand DEF IInv
<1>. QED BY <1>1, TextsAt DEF Here, AllIntact, Intact, Linkage

LEMMA LineFollows ==
    ASSUME NEW c, DOMAIN Here.r = RFields, c.c \in {"INPUT", "TOP", "BOTTOM", "DELETE"}
    PROVE  Follows(Here.r, Line(c))
<1> DEFINE r == Here.r
           q == Reached(r, c.n)
           range == RangeOf(r, c.n)
<1>1. CASE c.c = "INPUT"
  <2>1. Line(c) = InsertLine(r, <<10 * entered + 10>>)
    BY <1>1 DEF Line
  <2>. QED BY <2>1, Inserts
<1>2. CASE c.c = "TOP"
  <2>1. Line(c) = MoveToBOF(r)
    BY <1>2 DEF Line
  <2>. QED BY <2>1, Moves
<1>3. CASE c.c = "BOTTOM"
  <2>1. Line(c) = MoveToLastLine(r)
    BY <1>3 DEF Line
  <2>. QED BY <2>1, Moves
<1>4. CASE c.c = "DELETE"
  <2>1. Line(c) = q \/ Line(c) = DeleteLineRange(q, range[1], range[2])
    BY <1>4 DEF Line
  <2>2. Follows(r, q)
    BY Moves
  <2>3. DOMAIN q = RFields
    BY <2>2 DEF Follows
  <2> HIDE DEF q, range, r
  <2>4. Follows(q, DeleteLineRange(q, range[1], range[2]))
    BY <2>3, DeletesRange
  <2>5. Follows(r, DeleteLineRange(q, range[1], range[2]))
    BY <2>2, <2>4 DEF Follows
  <2>. QED BY <2>1, <2>2, <2>5 DEF r
<1>. QED BY <1>1, <1>2, <1>3, <1>4

LEMMA EditFiled == ASSUME IInv, Filed, Edit PROVE Filed' /\ ClosedWell
<1>1. PICK c \in scope.cmds :
        /\ Command(c, {"edit"}) /\ c.c \in {"INPUT", "TOP", "BOTTOM", "DELETE"}
        /\ Changed(Line(c)) /\ job' = Idle /\ UNCHANGED disk
  BY DEF Edit
<1>2. job = Idle /\ status # "cms" /\ UNCHANGED <<mode, scope>>
  BY <1>1, CommandIs
<1>3. ~Modes(scope) => Follows(Here.r, Line(c))
  BY <1>1, <1>2, HereIs, LineFollows
<1>. QED BY <1>1, <1>2, <1>3, ChangedFiled

LEMMA NoModes ==
    ASSUME IInv, ModesCloseNothing, NEW c \in scope.cmds, c.c \in {"FILE", "QUIT", "EXIT"}
    PROVE  ~Modes(scope)
<1>1. scope \in Scopes
  BY DEF IInv, Editors, Bounds
<1>2. Closing(scope)
  BY DEF Closing
<1>. QED BY <1>1, <1>2 DEF ModesCloseNothing

LEMMA SaveFiled == ASSUME IInv, Filed, ModesCloseNothing, Save PROVE Filed' /\ ClosedWell
<1>1. PICK c \in scope.cmds :
        /\ \/ Command(c, {"edit", "rescue"}) /\ c.c = "FILE"
           \/ Command(c, {"edit"}) /\ c.c = "SAVE"
        /\ Write(ee, c.c, ee.ed, IF c.f = <<>> THEN Here.name ELSE c.f, c.f = <<>> \/ c.n = 1,
                 Content(Here.r), <<>>)
        /\ UNCHANGED disk
  BY DEF Save
<1>2. job = Idle /\ status # "cms" /\ UNCHANGED <<mode, scope>>
  BY <1>1, CommandIs
<1>3. Linkage(ee) /\ ee.ed \in DOMAIN ee.eds /\ Bounds
  BY <1>2, AtCommand DEF IInv
<1> DEFINE f == IF c.f = <<>> THEN Here.name ELSE c.f
           force == c.f = <<>> \/ c.n = 1
           txts == Content(Here.r)
<1>4. IsList(txts)
  BY ContentIsList
<1>5. Proper(f)
  <2>1. scope \in Scopes
    BY <1>3 DEF Bounds
  <2>2. c.f # <<>> => Proper(c.f)
    BY <2>1, SessionAssumption
  <2>3. Proper(Here.name)
    BY <1>3 DEF Here, Linkage
  <2>. QED BY <2>2, <2>3
<1>6. Write(ee, c.c, ee.ed, f, force, txts, <<>>)
  BY <1>1
<1>7. c.c \in {"SAVE", "FILE", "PUT", "PUTD", "EXIT"} /\ c.c # "EXIT"
  BY <1>1
<1> HIDE DEF f, force
<1>8. ee'.eds = ee.eds
  BY <1>3, <1>4, <1>5, <1>6, <1>7, Writes
<1>9. Modes(scope') => c.c \in {"SAVE", "PUT", "PUTD"}
  BY <1>1, <1>2, NoModes
<1>10. TextsIntact' /\ DiskLists' /\ ClosedWell
  BY <1>1, <1>2, <1>8, TextsAt, IntactStays, DiskStays, StillOpen DEF AllIntact
<1>11. Filed'
  <2>1. txts = Content(ee.eds[ee.ed].r) /\ ee.eds[ee.ed] = ee'.eds[ee.ed]
    BY <1>8 DEF Here
  <2> HIDE DEF txts
  <2>. QED BY <1>3, <1>6, <1>9, <1>10, <2>1, WriteFiled
<1>. QED BY <1>10, <1>11

LEMMA PutFiled == ASSUME IInv, Filed, Put PROVE Filed' /\ ClosedWell
<1>1. PICK c \in scope.cmds :
        /\ Command(c, {"edit"}) /\ c.c \in {"PUT", "PUTD"}
        /\ LET r == Reached(Here.r, c.n)
               range == RangeOf(Here.r, c.n)
               e == [ee EXCEPT !.eds[ee.ed].r = r]
               texts == [i \in DOMAIN Between(r, range[1], range[2]) |->
                            r.text[Between(r, range[1], range[2])[i]]]
           IN  IF range = <<>> THEN ee' = e /\ job' = Idle
               ELSE Write(e, c.c, ee.ed, c.f, c.f = Buffer, texts, range)
        /\ UNCHANGED disk
  BY DEF Put
<1>2. job = Idle /\ status # "cms" /\ UNCHANGED <<mode, scope>>
  BY <1>1, CommandIs
<1>3. Linkage(ee) /\ ee.ed \in DOMAIN ee.eds /\ Bounds
  BY <1>2, AtCommand DEF IInv
<1> DEFINE r == Reached(Here.r, c.n)
           range == RangeOf(Here.r, c.n)
           e == [ee EXCEPT !.eds[ee.ed].r = r]
           texts == [i \in DOMAIN Between(r, range[1], range[2]) |->
                        r.text[Between(r, range[1], range[2])[i]]]
           force == c.f = Buffer
<1>4. \/ ee' = e /\ job' = Idle
      \/ Write(e, c.c, ee.ed, c.f, force, texts, range)
  BY <1>1
<1>5. IsList(texts)
  BY RangeIsList
<1>6. ~Modes(scope) => Follows(Here.r, r)
  BY <1>2, HereIs, Moves
<1> HIDE DEF r, range, texts, force
<1>7. /\ Linkage(e) /\ DOMAIN e.eds = DOMAIN ee.eds /\ e.ed = ee.ed
      /\ ~Modes(scope) => AllIntact(e)
  BY <1>3, <1>6, Changes, TextsAt, ChangesIntact DEF Here
<1> HIDE DEF e
<1>8. CASE ee' = e /\ job' = Idle
  BY <1>1, <1>2, <1>7, <1>8, CommandFiled, StillOpen
<1>9. CASE Write(e, c.c, ee.ed, c.f, force, texts, range)
  <2>1. Proper(c.f)
    <3>1. scope \in Scopes /\ c \in scope.cmds
      BY <1>3 DEF Bounds
    <3>2. c.f # <<>>
      BY <1>1, <3>1, SessionAssumption
    <3>. QED BY <3>1, <3>2, SessionAssumption
  <2>2. /\ c.c \in {"SAVE", "FILE", "PUT", "PUTD", "EXIT"} /\ c.c \notin {"SAVE", "FILE", "EXIT"}
        /\ c.c \in {"SAVE", "PUT", "PUTD"} /\ c.c # "EXIT"
    BY <1>1
  <2>3. ee'.eds = e.eds
    BY <1>3, <1>5, <1>7, <1>9, <2>1, <2>2, Writes
  <2>4. TextsIntact' /\ DiskLists' /\ ClosedWell
    BY <1>1, <1>2, <1>7, <2>3, IntactStays, DiskStays, StillOpen DEF AllIntact
  <2>5. Filed'
    BY <1>7, <1>9, <2>2, <2>3, <2>4, WriteFiled
  <2>. QED BY <2>4, <2>5
<1>. QED BY <1>4, <1>8, <1>9

LEMMA InsertedIntact ==
    ASSUME NEW e, Linkage(e), AllIntact(e), NEW h \in DOMAIN e.eds, NEW txts, IsList(txts)
    PROVE  AllIntact([e EXCEPT !.eds[h] = Inserted(@, txts)])
<1> DEFINE x == e.eds[h]
           r == InTurn(InsertLine, x.r, Read(txts))
           q == [r EXCEPT !.modified = TRUE]
           y == Inserted(x, txts)
           d == [e EXCEPT !.eds[h] = Inserted(@, txts)]
<1>1. DOMAIN x = EdFields /\ DOMAIN e = EeFields /\ DOMAIN x.r = RFields
  BY DEF Linkage, AllIntact, Intact
<1>2. Len(Read(txts)) \in Nat
  BY ListsRead
<1>3. DOMAIN r = RFields
  <2>1. FALSE \in BOOLEAN
    OBVIOUS
  <2>. QED BY <1>1, <1>2, <2>1, AllTurns
<1>4. y = [x EXCEPT !.binary = @ \/ IsBinary(txts), !.r = q]
  BY DEF Inserted
<1> HIDE DEF r
<1>5. DOMAIN q = RFields /\ q.modified = TRUE
  BY <1>3 DEF RFields
<1> HIDE DEF q, y
<1>6. y.r = q
  BY <1>1, <1>4 DEF EdFields
<1>7. Intact(y)
  BY <1>5, <1>6 DEF Intact
<1>8. d.eds = [e.eds EXCEPT ![h] = y]
  BY <1>1 DEF EeFields, y
<1> HIDE DEF d
<1>9. DOMAIN d.eds = DOMAIN e.eds /\ \A k \in DOMAIN d.eds : d.eds[k] = IF k = h THEN y ELSE e.eds[k]
  BY <1>8
<1>10. AllIntact(d)
  BY <1>7, <1>9 DEF AllIntact
<1>. QED BY <1>10 DEF d

LEMMA GetFiled == ASSUME IInv, Filed, Get PROVE Filed' /\ ClosedWell
<1> DEFINE got(txts) == [ee EXCEPT !.eds[ee.ed] = Inserted(@, txts)]
<1>1. PICK c \in scope.cmds :
        /\ Command(c, {"edit"}) /\ c.f \in DOMAIN disk
        /\ disk' = disk \/ disk' = Without(disk, c.f)
        /\ \/ Leaves(got(disk[c.f])) \/ Leaves(got(<<>>))
           \/ \E n \in 0 .. Len(disk[c.f]) - 1 : Leaves(got(SubSeq(disk[c.f], 1, n)))
           \/ UNCHANGED <<ee, status>>
        /\ job' = Idle
  BY DEF Get
<1>2. job = Idle /\ status # "cms" /\ UNCHANGED <<mode, scope>>
  BY <1>1, CommandIs
<1>3. Linkage(ee) /\ ee.ed \in DOMAIN ee.eds
  BY <1>2, AtCommand DEF IInv
<1>4. DiskLists'
  BY <1>1 DEF Filed, DiskLists, Without
<1>5. IsList(disk[c.f])
  BY <1>1 DEF Filed, DiskLists
<1>6. UNCHANGED ee \/ \E txts : IsList(txts) /\ Leaves(got(txts))
  <2>1. IsList(<<>>)
    BY EmptySeq DEF IsList
  <2>2. ASSUME NEW n \in 0 .. Len(disk[c.f]) - 1 PROVE IsList(SubSeq(disk[c.f], 1, n))
    <3>1. Len(disk[c.f]) \in Nat
      BY <1>5, Lists
    <3>2. n \in Nat
      BY <3>1
    <3>. QED BY <3>2, PartIsList
  <2> HIDE DEF got
  <2>. QED BY <1>1, <1>5, <2>1, <2>2
<1>7. CASE UNCHANGED ee
  <2>1. TextsIntact' /\ ClosedWell
    BY <1>2, <1>7, TextsAt, IntactStays, StillOpen
  <2>. QED BY <1>1, <1>4, <2>1, IdleFiled
<1>8. ASSUME NEW txts, IsList(txts), Leaves(got(txts)) PROVE Filed' /\ ClosedWell
  <2> DEFINE d == got(txts)
             h == ee.ed
             x == Inserted(ee.eds[h], txts)
  <2>1. DOMAIN ee.eds[h] = EdFields /\ Proper(ee.eds[h].name)
    BY <1>3 DEF Linkage
  <2>2. DOMAIN x = EdFields /\ x.name = ee.eds[h].name
    BY <2>1 DEF Inserted, EdFields
  <2>3. d = [ee EXCEPT !.eds[h] = x]
    OBVIOUS
  <2>4. ~Modes(scope) => AllIntact(d)
    BY <1>3, <1>8, TextsAt, InsertedIntact
  <2> HIDE DEF x
  <2>5. Linkage(d) /\ DOMAIN d.eds = DOMAIN ee.eds /\ d.ed = ee.ed
    BY <1>3, <2>1, <2>2, <2>3, Edits
  <2>6. Leaves(d)
    BY <1>8
  <2> HIDE DEF d
  <2>7. ee' = d
    BY <1>3, <2>5, <2>6, LeavesIs
  <2>8. TextsIntact' /\ ClosedWell
    BY <1>2, <2>4, <2>5, <2>7, IntactStays, StillOpen
  <2>. QED BY <1>1, <1>4, <2>8, IdleFiled
<1>. QED BY <1>6, <1>7, <1>8

\* The other editors stay when one is closed.
LEMMA OthersOpen ==
    ASSUME NEW e, Linkage(e), NEW h \in DOMAIN e.eds, Leaves(Closed(e, h)), NEW k \in DOMAIN e.eds, k # h
    PROVE  k \in DOMAIN ee'.eds
<1> DEFINE c == Closed(e, h)
           next == NextEd(e, h)
<1>1. DOMAIN c.eds = DOMAIN e.eds \ {h}
  BY FreesIntact
<1>2. c.ed = IF next = h THEN None ELSE next
  BY Frees DEF Closed, Linkage, EeFields
<1>3. next # h /\ next # None
  BY Alone, Neighbours, Places
<1>4. Leaves(c)
  OBVIOUS
<1> HIDE DEF c, next
<1>5. ee' = c
  BY <1>2, <1>3, <1>4 DEF Leaves
<1>. QED BY <1>1, <1>5

LEMMA QuitFiled == ASSUME IInv, Filed, ModesCloseNothing, Quit PROVE Filed' /\ ClosedWell
<1>1. PICK c \in scope.cmds :
        /\ Command(c, {"edit", "rescue"}) /\ c.c \in {"QUIT", "QQUIT"}
        /\ Leaves(IF c.c = "QUIT" /\ Here.r.modified THEN ee ELSE Closed(ee, ee.ed))
        /\ job' = Idle /\ UNCHANGED disk
        /\ trip' = IF c.c = "QUIT" THEN Nothing ELSE [step |-> "drop", gone |-> {}]
  BY DEF Quit
<1>2. job = Idle /\ status # "cms" /\ UNCHANGED <<mode, scope>>
  BY <1>1, CommandIs
<1>3. Linkage(ee) /\ ee.ed \in DOMAIN ee.eds
  BY <1>2, AtCommand DEF IInv
<1>4. CASE c.c = "QUIT" /\ Here.r.modified
  <2>1. Leaves(ee)
    BY <1>1, <1>4
  <2>. QED BY <1>1, <1>2, <1>3, <2>1, TextsAt, StepFiled
<1>5. CASE ~(c.c = "QUIT" /\ Here.r.modified)
  <2> DEFINE d == Closed(ee, ee.ed)
  <2>1. Leaves(d)
    BY <1>1, <1>5
  <2>2. ~Modes(scope) => AllIntact(d)
    BY <1>3, TextsAt, FreesIntact
  <2>3. \A k \in DOMAIN ee.eds : k # ee.ed => k \in DOMAIN ee'.eds
    BY <1>3, <2>1, OthersOpen
  <2> HIDE DEF d
  <2>4. ~Modes(scope) => AllIntact(ee')
    BY <2>1, <2>2, LeftIntact
  <2>5. Filed'
    BY <1>1, <1>2, <2>4, CommandFiled
  <2>6. CASE c.c = "QUIT"
    <3>1. ~Modes(scope)
      BY <2>6, NoModes
    <3>2. Content(ee.eds[ee.ed].r) = ee.eds[ee.ed].base
      BY <1>2, <1>5, <2>6, <3>1, HereIs DEF Intact
    <3>. QED BY <1>2, <2>3, <2>5, <3>2, WasClosed
  <2>7. CASE c.c = "QQUIT"
    <3>1. trip' = [step |-> "drop", gone |-> {}]
      BY <1>1, <2>7
    <3>2. trip'.step = "drop"
      BY <3>1
    <3>. QED BY <2>5, <3>2 DEF ClosedWell
  <2>. QED BY <1>1, <2>6, <2>7
<1>. QED BY <1>4, <1>5

LEMMA QuitAllFiled == ASSUME IInv, Filed, QuitAll PROVE Filed' /\ ClosedWell
<1> DEFINE d == [ee EXCEPT !.ed = None]
<1>1. PICK c \in scope.cmds :
        /\ Command(c, {"edit", "rescue"}) /\ Leaves(d)
        /\ job' = Idle /\ UNCHANGED disk
        /\ trip' = [step |-> "drop", gone |-> {}]
  BY DEF QuitAll
<1>2. job = Idle /\ status # "cms" /\ UNCHANGED <<mode, scope>>
  BY <1>1, CommandIs
<1>3. Linkage(ee)
  BY <1>2, AtCommand DEF IInv
<1>4. ~Modes(scope) => AllIntact(d)
  BY <1>3, TextsAt, TurnsIntact
<1> HIDE DEF d
<1>5. Filed'
  BY <1>1, <1>2, <1>4, LeftIntact, CommandFiled
<1>6. trip'.step = "drop"
  BY <1>1
<1>. QED BY <1>5, <1>6 DEF ClosedWell

LEMMA ExitFiled == ASSUME IInv, Filed, ModesCloseNothing, Exit PROVE Filed' /\ ClosedWell
<1>1. PICK c \in scope.cmds :
        /\ Command(c, {"edit", "rescue"}) /\ c.c = "EXIT"
        /\ job' = [cmd |-> "EXIT", at |-> "next", h |-> ee.ed]
        /\ UNCHANGED <<disk, ee>>
  BY DEF Exit
<1>2. UNCHANGED <<mode, scope>>
  BY <1>1, CommandIs
<1>3. ~Modes(scope)
  BY <1>1, NoModes
<1>4. TextsIntact' /\ DiskLists' /\ ClosedWell
  BY <1>1, <1>2, TextsAt, IntactStays, DiskStays, StillOpen
<1>5. DOMAIN job' = {"cmd", "at", "h"} /\ job'.at = "next"
  BY <1>1
<1>. QED BY <1>2, <1>3, <1>4, <1>5, NextFiled

LEMMA ModesFiled == ASSUME IInv, Filed, Enter \/ Mode \/ ModeLost PROVE Filed' /\ ClosedWell
<1>1. CASE Enter \/ Mode
  <2>1. job = Idle /\ job' = Idle /\ status # "cms" /\ UNCHANGED <<disk, scope>> /\ \E r : Changed(r)
    <3>1. CASE Enter
      BY <3>1 DEF Enter
    <3>2. CASE Mode
      <4>1. mode # NoMode /\ UNCHANGED <<disk, scope, job>> /\ \E r : Changed(r)
        BY <3>2 DEF Mode
      <4>. QED BY <4>1 DEF IInv, Editors, OnScreen
    <3>. QED BY <1>1, <3>1, <3>2
  <2>2. Modes(scope)
    <3>1. CASE Enter
      BY <3>1 DEF Enter, Modes
    <3>2. CASE Mode
      BY <3>2 DEF Mode, Filed, TextsIntact
    <3>. QED BY <1>1, <3>1, <3>2
  <2>3. PICK r : Changed(r)
    BY <2>1
  <2> DEFINE d == [ee EXCEPT !.eds[ee.ed].r = r]
  <2>4. Linkage(ee) /\ ee.ed \in DOMAIN ee.eds
    BY <2>1, AtCommand DEF IInv
  <2>5. Linkage(d) /\ DOMAIN d.eds = DOMAIN ee.eds /\ d.ed = ee.ed
    BY <2>4, Changes
  <2>6. Leaves(d)
    BY <2>3 DEF Changed
  <2> HIDE DEF d
  <2>7. ee' = d
    BY <2>4, <2>5, <2>6, LeavesIs
  <2>8. TextsIntact'
    BY <2>1, <2>2 DEF TextsIntact
  <2>. QED BY <2>1, <2>5, <2>7, <2>8, IdleFiled, DiskStays, StillOpen
<1>2. CASE ModeLost
  <2>1. mode # NoMode /\ mode' = NoMode /\ UNCHANGED <<disk, ee, job, scope>>
    BY <1>2 DEF ModeLost
  <2>2. Modes(scope) /\ job = Idle
    BY <2>1 DEF Filed, TextsIntact, IInv, Editors, OnScreen
  <2>3. TextsIntact'
    BY <2>1, <2>2 DEF TextsIntact
  <2>. QED BY <2>1, <2>2, <2>3, IdleFiled, DiskStays, StillOpen
<1>. QED BY <1>1, <1>2

LEMMA CrashFiled == ASSUME IInv, Filed, Crash PROVE Filed' /\ ClosedWell
<1>1. /\ ee' = NoMemory /\ job' = Idle /\ mode' = NoMode /\ UNCHANGED <<disk, scope>>
      /\ trip' = [step |-> "drop", gone |-> {}]
  BY DEF Crash
<1>2. TextsIntact'
  BY <1>1, NoneIntact DEF TextsIntact
<1>3. trip'.step = "drop"
  BY <1>1
<1>. QED BY <1>1, <1>2, <1>3, IdleFiled, DiskStays DEF ClosedWell

LEMMA SameFiled == ASSUME Filed, UNCHANGED <<disk, ee, job, mode, scope>> PROVE Filed' /\ ClosedWell
<1>1. Filed'
  BY DEF Filed, TextsIntact, NothingCloses, Filing, Landed, DiskLists, AllIntact, Intact
<1>. QED BY <1>1, StillOpen

LEMMA NextStepFiled == ASSUME IInv, Filed, ModesCloseNothing, Next PROVE Filed' /\ ClosedWell
<1>1. CASE WriteStep \/ EndSave \/ EndPut \/ EndExit \/ ExitNext
  BY <1>1, WriteStepFiled, EndSaveFiled, EndPutFiled, EndExitFiled, ExitNextFiled
<1>2. CASE EditFile \/ Ring \/ Edit \/ Save \/ Put \/ Get \/ Quit \/ QuitAll \/ Exit
  BY <1>2, EditFileFiled, RingFiled, EditFiled, SaveFiled, PutFiled, GetFiled, QuitFiled,
     QuitAllFiled, ExitFiled
<1>3. CASE Enter \/ Mode \/ ModeLost \/ Crash
  BY <1>3, ModesFiled, CrashFiled
<1>4. CASE Lost \/ UnknownRescue
  <2>1. UNCHANGED <<disk, ee, job, mode, scope>>
    BY <1>4 DEF Lost, UnknownRescue
  <2>. QED BY <2>1, SameFiled
<1>. QED BY <1>1, <1>2, <1>3, <1>4 DEF Next

LEMMA InitFiled == ASSUME Init PROVE Filed
<1>1. disk = OnDisk /\ ee = NoMemory /\ job = Idle /\ mode = NoMode
  BY DEF Init
<1>2. \A f \in DOMAIN OnDisk : IsList(OnDisk[f])
  BY SessionAssumption DEF IsList
<1>3. DiskLists
  BY <1>1, <1>2 DEF DiskLists
<1>4. TextsIntact
  BY <1>1, NoneIntact DEF TextsIntact
<1>. QED BY <1>1, <1>3, <1>4 DEF Filed, NothingCloses, Filing, Landed

\* What FILE, QUIT or EXIT close is on disk as it is written, or as it was
\* read or written last, through every step of writeToFile() and whatever fails
\* in it.  The input modes change a text by a split or a join that does not
\* count as a change, so a session with them closes nothing here.
THEOREM ClosedStaysSaved == ASSUME OneUpset, ModesCloseNothing PROVE Spec => ClosedIsSaved
<1>1. Init => IInv /\ Filed
  BY InitIInv, InitFiled
<1>2. IInv /\ Filed /\ [Next]_vars => (IInv /\ Filed)'
  <2>1. IInv /\ [Next]_vars => IInv'
    BY NextEditors, NextSaved, StutterIInv DEF IInv
  <2>2. IInv /\ Filed /\ Next => Filed'
    BY NextStepFiled
  <2>3. Filed /\ UNCHANGED vars => Filed'
    <3>1. UNCHANGED vars => UNCHANGED <<disk, ee, job, mode, scope>>
      BY DEF vars
    <3>. QED BY <3>1, SameFiled
  <2>. QED BY <2>1, <2>2, <2>3
<1>3. IInv /\ Filed /\ [Next]_vars => [ClosedWell]_vars
  BY NextStepFiled
<1>4. ClosedIsSaved <=> [][ClosedWell]_vars
  BY DEF ClosedIsSaved, ClosedWell
<1>. QED BY <1>1, <1>2, <1>3, <1>4, PTL DEF Spec
===============================================================================
