------------------------ MODULE TextPipeline_proofs ------------------------
(***************************************************************************)
(* Proofs about EbcdicTextPipeline for every set of lines and nodes and    *)
(* every bound: its lists stay disjoint, the line in flight is the head of *)
(* the queue, and the pipeline implements a FIFO queue.                    *)
(***************************************************************************)
EXTENDS TextPipeline, SequenceTheorems, TLAPS

\* The queue holds what was appended and not yet removed.
Contents ==
    /\ Len(appended) = dequeued + Len(queue)
    /\ \A i \in 1 .. Len(queue) : text[queue[i]] = appended[dequeued + i]
    /\ Len(delivered) = IF pc = "dequeue" THEN dequeued + 1 ELSE dequeued

Counters ==
    /\ pc = "poll" => counter =< IdlePolls
    /\ ask.at = "wait" => ask.tries > 0

\* What hasBacklog() knows between two looks: the node it saw is still the
\* head, or it left the queue for good, since only the caller itself appends.
Looks ==
    /\ ask.at = "wait" =>
         /\ ask.seen \in Node /\ ask.look =< dequeued
         /\ ask.same > BacklogTries - ask.tries
         /\ IF ask.look = dequeued THEN ask.seen = QueueHead
                                   ELSE ask.seen \notin Range(queue)
    /\ BacklogVerdict

IInv == TypeOK /\ Counters /\ NodesSafe /\ Contents /\ Looks

-----------------------------------------------------------------------------
(* The sequence operators the actions are built from *)

LEMMA TailProps ==
    ASSUME NEW S, NEW s \in Seq(S), s # <<>>
    PROVE  /\ Tail(s) \in Seq(S)
           /\ Len(Tail(s)) = Len(s) - 1
           /\ \A i \in 1 .. Len(s) - 1 : Tail(s)[i] = s[i + 1]
           /\ Head(s) \in S /\ Head(s) = s[1]
  BY EmptySeq, HeadTailProperties

LEMMA ConsProps ==
    ASSUME NEW S, NEW e \in S, NEW s \in Seq(S)
    PROVE  /\ <<e>> \o s \in Seq(S)
           /\ Len(<<e>> \o s) = Len(s) + 1
           /\ (<<e>> \o s)[1] = e
           /\ \A i \in 2 .. Len(s) + 1 : (<<e>> \o s)[i] = s[i - 1]
  OBVIOUS

LEMMA RangeProps ==
    ASSUME NEW S, NEW s \in Seq(S)
    PROVE  /\ Range(s) \subseteq S
           /\ \A x : x \in Range(s) <=> \E i \in 1 .. Len(s) : s[i] = x
  BY DEF Range

-----------------------------------------------------------------------------
(* The inductive invariant *)

LEMMA InitIInv == Init => IInv
<1> SUFFICES ASSUME Init PROVE IInv
  OBVIOUS
<1> USE BoundsAssumption DEF Init
<1>1. TypeOK
  <2>1. <<>> \in Seq(Node) /\ <<>> \in Seq(Line)
    BY EmptySeq
  <2>2. <<>> \in Seq(Seq(Line))
    BY EmptySeq
  <2>3. NoAsk \in [at : {"idle", "wait", "empty", "stuck"},
                   seen : Node \cup {NoNode}, tries : 0 .. BacklogTries,
                   look : Nat, same : Nat]
    BY DEF NoAsk
  <2>4. text \in [Node -> Seq(Line)]
    BY <2>1
  <2>5. queue \in Seq(Node) /\ free \in Seq(Node)
    BY <2>1
  <2>6. appended \in Seq(Seq(Line)) /\ delivered \in Seq(Seq(Line))
    BY <2>2
  <2>7. pc \in Labels /\ counter \in 0 .. IdlePolls + 1 /\ dequeued \in Nat
    BY DEF Labels
  <2>. QED BY <2>3, <2>4, <2>5, <2>6, <2>7 DEF TypeOK
<1>2. Counters /\ InFlightIsHead
  BY DEF Counters, InFlightIsHead, NoAsk
<1>3. ListsDisjoint
  BY EmptySeq DEF ListsDisjoint, Range
<1>4. Contents
  BY EmptySeq DEF Contents
<1>5. Looks
  BY DEF Looks, BacklogVerdict, NoAsk
<1>. QED BY <1>1, <1>2, <1>3, <1>4, <1>5 DEF IInv, NodesSafe

LEMMA AppendLineStep ==
    ASSUME IInv, NEW l \in Line, AppendLine(l)
    PROVE  IInv'
<1> USE BoundsAssumption, NoNodeAssumption
<1>0. /\ TypeOK /\ Counters /\ ListsDisjoint /\ InFlightIsHead /\ Contents
      /\ Len(queue) \in Nat /\ Len(free) \in Nat /\ Len(appended) \in Nat
  BY LenProperties DEF IInv, NodesSafe, TypeOK
<1>1. PICK n \in Node : /\ FillsNode(n)
                        /\ queue' = Append(queue, n)
                        /\ text' = [text EXCEPT ![n] = Append(@, l)]
  BY DEF AppendLine
<1>2. /\ queue' \in Seq(Node) /\ Len(queue') = Len(queue) + 1
      /\ \A i \in 1 .. Len(queue) : queue'[i] = queue[i]
      /\ queue'[Len(queue) + 1] = n
  BY <1>0, <1>1, AppendProperties DEF TypeOK
<1>3. /\ appended' \in Seq(Seq(Line)) /\ Len(appended') = Len(appended) + 1
      /\ \A i \in 1 .. Len(appended) : appended'[i] = appended[i]
      /\ appended'[Len(appended) + 1] = <<l>>
  <2> DEFINE Text == Seq(Line)
  <2>1. <<l>> \in Text /\ appended \in Seq(Text) /\ appended' = Append(appended, <<l>>)
    BY <1>0 DEF TypeOK, AppendLine
  <2>2. /\ appended' \in Seq(Text)
        /\ Len(appended') = Len(appended) + 1
        /\ \A i \in 1 .. Len(appended) : appended'[i] = appended[i]
        /\ appended'[Len(appended) + 1] = <<l>>
    <3> HIDE DEF Text
    <3>. QED BY <2>1, AppendProperties
  <2>. QED BY <2>2
<1>4. /\ n \notin Range(queue) /\ n \notin Range(free')
      /\ free' \in Seq(Node) /\ Range(free') \subseteq Range(free)
      /\ \A i, j \in 1 .. Len(free') : free'[i] = free'[j] => i = j
  <2>1. CASE free = <<>>
    BY <1>0, <1>1, <2>1 DEF AppendLine, FillsNode, FreeAfterFill, TypeOK, Range
  <2>2. CASE free # <<>>
    <3>1. /\ free' = Tail(free) /\ n = free[1] /\ 1 \in 1 .. Len(free)
          /\ Len(free') = Len(free) - 1 /\ free' \in Seq(Node)
          /\ \A i \in 1 .. Len(free') : free'[i] = free[i + 1]
      BY <1>0, <1>1, <2>2, TailProps, EmptySeq
         DEF AppendLine, FillsNode, FreeAfterFill, TypeOK
    <3>2. /\ n \in Range(free)
          /\ \A x : x \in Range(free') <=> \E i \in 1 .. Len(free') : free'[i] = x
      BY <1>0, <3>1, RangeProps DEF TypeOK
    <3>3. \A i \in 1 .. Len(free') : i + 1 \in 1 .. Len(free)
      BY <1>0, <3>1
    <3>4. \A i, j \in 1 .. Len(free') : free'[i] = free'[j] => i = j
      BY <1>0, <3>1, <3>3 DEF ListsDisjoint
    <3>5. Range(free') \subseteq Range(free)
      BY <1>0, <3>1, <3>2, <3>3, RangeProps DEF TypeOK
    <3>6. n \notin Range(free')
      BY <1>0, <3>1, <3>2, <3>3 DEF ListsDisjoint
    <3>. QED BY <1>0, <3>1, <3>2, <3>4, <3>5, <3>6 DEF ListsDisjoint
  <2>. QED BY <2>1, <2>2
<1>5. \A x : x \in Range(queue') <=> x = n \/ x \in Range(queue)
  <2>1. \A x : x \in Range(queue') <=> \E i \in 1 .. Len(queue) + 1 : queue'[i] = x
    BY <1>2, RangeProps
  <2>2. \A x : x \in Range(queue) <=> \E i \in 1 .. Len(queue) : queue[i] = x
    BY <1>0, RangeProps DEF TypeOK
  <2>3. \A i : i \in 1 .. Len(queue) + 1 <=> i \in 1 .. Len(queue) \/ i = Len(queue) + 1
    BY <1>0
  <2>. QED BY <1>2, <2>1, <2>2, <2>3
<1>6. text[n] = <<>> /\ text'[n] = <<l>> /\ text' \in [Node -> Seq(Line)]
      /\ \A m \in Node \ {n} : text'[m] = text[m]
  <2>1. text[n] = <<>>
    BY <1>0, <1>4 DEF ListsDisjoint
  <2>2. Append(<<>>, l) = <<l>> /\ <<l>> \in Seq(Line)
    OBVIOUS
  <2>. QED BY <1>0, <1>1, <2>1, <2>2 DEF TypeOK
<1>7. TypeOK'
  BY <1>0, <1>2, <1>3, <1>4, <1>6 DEF TypeOK, AppendLine, thread
<1>8. Counters'
  BY <1>0 DEF Counters, AppendLine, thread
<1>9. ListsDisjoint'
  <2>1. \A i \in 1 .. Len(queue) : queue[i] # n
    BY <1>0, <1>4, RangeProps DEF TypeOK
  <2>2. \A i, j \in 1 .. Len(queue') : queue'[i] = queue'[j] => i = j
    BY <1>0, <1>2, <2>1 DEF ListsDisjoint
  <2>3. Range(queue') \cap Range(free') = {}
    BY <1>0, <1>4, <1>5 DEF ListsDisjoint
  <2>4. \A m \in Node \ Range(queue') : text'[m] = <<>>
    BY <1>0, <1>5, <1>6 DEF ListsDisjoint
  <2>. QED BY <1>4, <2>2, <2>3, <2>4 DEF ListsDisjoint
<1>10. InFlightIsHead'
  <2>1. queue # <<>> => queue' # <<>> /\ Head(queue') = Head(queue)
    BY <1>0, <1>2, TailProps, EmptySeq DEF TypeOK
  <2>. QED BY <1>0, <2>1 DEF InFlightIsHead, AppendLine, thread
<1>11. Contents'
  <2>1. \A i \in 1 .. Len(queue) : text'[queue'[i]] = appended'[dequeued + i]
    <3> SUFFICES ASSUME NEW i \in 1 .. Len(queue)
                 PROVE  text'[queue'[i]] = appended'[dequeued + i]
      OBVIOUS
    <3>1. queue[i] \in Node \ {n}
      BY <1>0, <1>4, RangeProps, ElementOfSeq DEF TypeOK
    <3>2. text[queue[i]] = appended[dequeued + i]
      BY <1>0 DEF Contents
    <3>3. dequeued \in Nat /\ Len(appended) = dequeued + Len(queue)
      BY <1>0 DEF TypeOK, Contents
    <3>4. dequeued + i \in 1 .. Len(appended)
      BY <1>0, <3>3
    <3>. QED BY <1>2, <1>3, <1>6, <3>1, <3>2, <3>4
  <2>2. text'[queue'[Len(queue) + 1]] = appended'[dequeued + Len(queue) + 1]
    BY <1>0, <1>2, <1>3, <1>6 DEF TypeOK, Contents
  <2>3. /\ Len(appended') = dequeued' + Len(queue')
        /\ Len(delivered') = IF pc' = "dequeue" THEN dequeued' + 1 ELSE dequeued'
        /\ dequeued' = dequeued
    BY <1>0, <1>2, <1>3 DEF TypeOK, Contents, AppendLine, thread
  <2>4. \A i \in 1 .. Len(queue') : i \in 1 .. Len(queue) \/ i = Len(queue) + 1
    BY <1>0, <1>2
  <2>5. dequeued + (Len(queue) + 1) = dequeued + Len(queue) + 1
    BY <1>0 DEF TypeOK
  <2>. QED BY <2>1, <2>2, <2>3, <2>4, <2>5 DEF Contents
<1>12. Looks'
  BY DEF Looks, BacklogVerdict, AppendLine
<1>. QED BY <1>7, <1>8, <1>9, <1>10, <1>11, <1>12 DEF IInv, NodesSafe
LEMMA HeadProps ==
    ASSUME TypeOK, queue # <<>>
    PROVE  QueueHead = queue[1] /\ QueueHead \in Node /\ QueueHead \in Range(queue)
  BY TailProps, RangeProps, EmptySeq DEF QueueHead, TypeOK

\* Taking a verdict or a look changes nothing but the producer's locals.
LEMMA HasBacklogStep ==
    ASSUME IInv, HasBacklogStart \/ HasBacklogTurn \/ HasBacklogReturn
    PROVE  IInv'
<1> USE BoundsAssumption, NoNodeAssumption
<1>0. TypeOK /\ Looks /\ Counters
  BY DEF IInv
<1>1. UNCHANGED <<queue, free, text, running, pc, currLine, counter,
                  appended, delivered, dequeued>>
  BY DEF HasBacklogStart, HasBacklogTurn, HasBacklogReturn, lists, thread, history
<1>2. QueueHead # NoNode => queue # <<>> /\ QueueHead \in Node /\ QueueHead \in Range(queue)
  BY <1>0, HeadProps DEF QueueHead
<1>3. CASE HasBacklogStart
  <2>1. ask' \in [at : {"idle", "wait", "empty", "stuck"}, seen : Node \cup {NoNode},
                  tries : 0 .. BacklogTries, look : Nat, same : Nat]
    <3>1. CASE queue = <<>>
      <4>1. ask' = [at |-> "empty", seen |-> NoNode, tries |-> 0, look |-> 0, same |-> 0]
        BY <1>3, <3>1 DEF HasBacklogStart, NoAsk
      <4>. QED BY <4>1
    <3>2. CASE queue # <<>>
      <4>1. QueueHead \in Node /\ dequeued \in Nat /\ BacklogTries \in 0 .. BacklogTries
        BY <1>0, <3>2, HeadProps DEF TypeOK
      <4>2. ask' = [at |-> "wait", seen |-> QueueHead, tries |-> BacklogTries,
                    look |-> dequeued, same |-> 1]
        BY <1>3, <3>2 DEF HasBacklogStart
      <4>. QED BY <4>1, <4>2
    <3>. QED BY <3>1, <3>2
  <2>2. Looks'
    BY <1>0, <1>1, <1>3, HeadProps
       DEF HasBacklogStart, NoAsk, Looks, BacklogVerdict, TypeOK, QueueHead
  <2>3. ask'.at = "wait" => ask'.tries > 0
    BY <1>3 DEF HasBacklogStart, NoAsk
  <2>. QED BY <1>1, <2>1, <2>2, <2>3 DEF IInv, TypeOK, Counters, NodesSafe,
              ListsDisjoint, InFlightIsHead, Contents
<1>4. CASE HasBacklogTurn
  <2>1. /\ TriesAfterLook \in 0 .. BacklogTries
        /\ QueueHead # NoNode /\ TriesAfterLook = 0
             => ask.look = dequeued /\ ask.same + 1 > BacklogTries
        /\ QueueHead # NoNode /\ QueueHead = ask.seen
             => ask.look = dequeued /\ ask.same + 1 > BacklogTries - TriesAfterLook
    <3>1. /\ ask.at = "wait" /\ ask.tries \in 1 .. BacklogTries
          /\ ask.same \in Nat /\ ask.look \in Nat /\ dequeued \in Nat
          /\ ask.same > BacklogTries - ask.tries
      BY <1>0, <1>4 DEF HasBacklogTurn, TypeOK, Looks, Counters
    <3>2. QueueHead # NoNode /\ QueueHead = ask.seen => ask.look = dequeued
      BY <1>0, <1>2, <3>1 DEF Looks
    <3>. QED BY <3>1, <3>2 DEF TriesAfterLook
  <2>2. ask' \in [at : {"idle", "wait", "empty", "stuck"}, seen : Node \cup {NoNode},
                  tries : 0 .. BacklogTries, look : Nat, same : Nat]
    BY <1>0, <1>2, <1>4, <2>1 DEF HasBacklogTurn, TypeOK
  <2>3. QueueHead' = QueueHead
    BY <1>1 DEF QueueHead
  <2>4. Looks'
    BY <1>0, <1>1, <1>2, <1>4, <2>1, <2>3
       DEF HasBacklogTurn, Looks, BacklogVerdict, TypeOK, TriesAfterLook
  <2>5. ask'.at = "wait" => ask'.tries > 0
    BY <1>4, <2>1 DEF HasBacklogTurn
  <2>. QED BY <1>1, <2>2, <2>4, <2>5 DEF IInv, TypeOK, Counters, NodesSafe,
              ListsDisjoint, InFlightIsHead, Contents
<1>5. CASE HasBacklogReturn
  <2>1. ask' \in [at : {"idle", "wait", "empty", "stuck"}, seen : Node \cup {NoNode},
                  tries : 0 .. BacklogTries, look : Nat, same : Nat]
    BY <1>5 DEF HasBacklogReturn, NoAsk
  <2>. QED BY <1>1, <1>5, <2>1 DEF HasBacklogReturn, NoAsk, IInv, TypeOK, Counters,
              NodesSafe, ListsDisjoint, InFlightIsHead, Contents, Looks, BacklogVerdict
<1>. QED BY <1>3, <1>4, <1>5

\* The steps of run() that leave the lists alone.
LEMMA ThreadStep ==
    ASSUME IInv, Start \/ Loop \/ Poll \/ Drained \/ Fail \/ Shutdown
    PROVE  IInv'
<1> USE BoundsAssumption, NoNodeAssumption
<1>0. TypeOK /\ Counters /\ InFlightIsHead
  BY DEF IInv, NodesSafe
<1>1. UNCHANGED <<queue, free, text, ask, appended, delivered, dequeued>>
  BY DEF Start, Loop, Poll, Drained, Fail, Shutdown, lists, thread, history
<1>2. Looks' /\ ListsDisjoint'
  BY <1>1 DEF IInv, NodesSafe, Looks, BacklogVerdict, ListsDisjoint, QueueHead
<1>3. QueueHead \in Node \cup {NoNode} /\ (QueueHead # NoNode => queue # <<>>)
  BY <1>0, HeadProps DEF QueueHead
<1>4. TypeOK' /\ Counters'
  <2>1. /\ pc' \in Labels /\ running' \in BOOLEAN
        /\ currLine' \in Node \cup {NoNode}
    BY <1>0, <1>3 DEF TypeOK, Start, Loop, Poll, Drained, Fail, Shutdown, Goto,
       thread, Labels
  <2>2. counter' \in 0 .. IdlePolls + 1 /\ (pc' = "poll" => counter' =< IdlePolls)
    BY <1>0 DEF TypeOK, Counters, Start, Loop, Poll, Drained, Fail, Shutdown, Goto, thread
  <2>. QED BY <1>0, <1>1, <2>1, <2>2 DEF TypeOK, Counters
<1>5. InFlightIsHead'
  BY <1>0, <1>1, <1>3 DEF InFlightIsHead, Start, Loop, Poll, Drained, Fail,
     Shutdown, Goto, thread, QueueHead
<1>6. Contents'
  BY <1>1 DEF IInv, Contents, Start, Loop, Poll, Drained, Fail, Shutdown, Goto, thread
<1>. QED BY <1>2, <1>4, <1>5, <1>6 DEF IInv, NodesSafe
\* What the target gets is the next line that was appended.
LEMMA DeliveredIsNext ==
    ASSUME IInv, Deliver
    PROVE  /\ Len(delivered) < Len(appended)
           /\ text[currLine] = appended[Len(delivered) + 1]
           /\ text[currLine] \in Seq(Line)
<1>1. /\ pc = "deliver" /\ queue # <<>> /\ currLine = queue[1]
      /\ 1 \in 1 .. Len(queue) /\ Len(queue) \in Nat /\ dequeued \in Nat
      /\ currLine \in Node
  BY TailProps, EmptySeq, LenProperties
     DEF IInv, Deliver, NodesSafe, InFlightIsHead, TypeOK
<1>2. Len(delivered) = dequeued /\ Len(appended) = dequeued + Len(queue)
  BY <1>1 DEF IInv, Contents
<1>3. text[queue[1]] = appended[dequeued + 1]
  BY <1>1 DEF IInv, Contents
<1>. QED BY <1>1, <1>2, <1>3 DEF IInv, TypeOK

LEMMA DeliverStep ==
    ASSUME IInv, Deliver
    PROVE  IInv'
<1>0. TypeOK /\ NodesSafe /\ Counters /\ Contents /\ Looks
  BY DEF IInv
<1>1. /\ UNCHANGED <<queue, free, text, running, currLine, counter, ask,
                     appended, dequeued>>
      /\ pc = "deliver" /\ pc' = "dequeue"
      /\ delivered' = Append(delivered, text[currLine])
  BY DEF Deliver, lists, Goto
<1>2. delivered' \in Seq(Seq(Line)) /\ Len(delivered') = Len(delivered) + 1
  <2> DEFINE Text == Seq(Line)
  <2>1. delivered \in Seq(Text) /\ text[currLine] \in Text
    BY <1>0, DeliveredIsNext DEF TypeOK
  <2>2. delivered' \in Seq(Text) /\ Len(delivered') = Len(delivered) + 1
    <3> HIDE DEF Text
    <3>. QED BY <1>1, <2>1, AppendProperties
  <2>. QED BY <2>2
<1>3. TypeOK' /\ Counters'
  BY <1>0, <1>1, <1>2 DEF TypeOK, Counters, Labels
<1>4. NodesSafe' /\ Looks'
  BY <1>0, <1>1 DEF NodesSafe, ListsDisjoint, InFlightIsHead, Looks, BacklogVerdict,
     QueueHead
<1>5. Contents'
  BY <1>0, <1>1, <1>2 DEF Contents
<1>. QED BY <1>3, <1>4, <1>5 DEF IInv

LEMMA DequeueHeadStep ==
    ASSUME IInv, DequeueHead
    PROVE  IInv'
<1> USE NoNodeAssumption
<1>0. /\ TypeOK /\ ListsDisjoint /\ InFlightIsHead /\ Counters /\ Contents /\ Looks
      /\ Len(queue) \in Nat /\ Len(free) \in Nat /\ dequeued \in Nat
  BY LenProperties DEF IInv, NodesSafe, TypeOK
<1>1. queue # <<>> /\ pc = "dequeue"
  BY <1>0 DEF DequeueHead, InFlightIsHead
<1> DEFINE n == queue[1]
<1>2. /\ queue' = Tail(queue) /\ free' = <<n>> \o free
      /\ text' = [text EXCEPT ![n] = <<>>] /\ dequeued' = dequeued + 1
      /\ n \in Node /\ n = QueueHead /\ n \in Range(queue)
      /\ 1 \in 1 .. Len(queue)
      /\ UNCHANGED <<running, counter, ask, appended, delivered>>
  <2>1. n = Head(queue) /\ n \in Node /\ 1 \in 1 .. Len(queue)
    BY <1>0, <1>1, TailProps, EmptySeq DEF TypeOK
  <2>2. n = QueueHead /\ n \in Range(queue)
    BY <1>0, <1>1, HeadProps
  <2>3. /\ queue' = Tail(queue) /\ free' = <<n>> \o free
        /\ text' = [text EXCEPT ![n] = <<>>] /\ dequeued' = dequeued + 1
        /\ UNCHANGED <<running, counter, ask, appended, delivered>>
    BY <1>1, <2>1 DEF DequeueHead, Reset
  <2>. QED BY <2>1, <2>2, <2>3
<1>3. /\ queue' \in Seq(Node) /\ Len(queue') = Len(queue) - 1
      /\ \A i \in 1 .. Len(queue) - 1 : queue'[i] = queue[i + 1]
  BY <1>0, <1>1, <1>2, TailProps DEF TypeOK
<1>4. /\ free' \in Seq(Node) /\ Len(free') = Len(free) + 1 /\ free'[1] = n
      /\ \A i \in 2 .. Len(free) + 1 : free'[i] = free[i - 1]
  BY <1>0, <1>2, ConsProps DEF TypeOK
<1>5. \A x : x \in Range(queue') <=> x \in Range(queue) /\ x # n
  <2>1. \A x : x \in Range(queue') <=> \E i \in 1 .. Len(queue') : queue'[i] = x
    BY <1>3, RangeProps
  <2>2. \A x : x \in Range(queue) <=> \E i \in 1 .. Len(queue) : queue[i] = x
    BY <1>0, RangeProps DEF TypeOK
  <2>3. \A i \in 1 .. Len(queue') : i + 1 \in 1 .. Len(queue) /\ queue[i + 1] # n
    BY <1>0, <1>2, <1>3 DEF ListsDisjoint
  <2>4. ASSUME NEW x, x \in Range(queue), x # n PROVE x \in Range(queue')
    <3>1. PICK i \in 1 .. Len(queue) : queue[i] = x
      BY <2>2, <2>4
    <3>2. i - 1 \in 1 .. Len(queue') /\ (i - 1) + 1 = i
      BY <1>0, <1>3, <2>4, <3>1
    <3>. QED BY <1>3, <2>1, <3>1, <3>2
  <2>5. ASSUME NEW x, x \in Range(queue') PROVE x \in Range(queue) /\ x # n
    <3>1. PICK i \in 1 .. Len(queue') : queue'[i] = x
      BY <2>1, <2>5
    <3>. QED BY <1>3, <2>2, <2>3, <3>1
  <2>. QED BY <2>4, <2>5
<1>6. \A x : x \in Range(free') <=> x \in Range(free) \/ x = n
  <2>1. \A x : x \in Range(free') <=> \E i \in 1 .. Len(free) + 1 : free'[i] = x
    BY <1>4, RangeProps
  <2>2. \A x : x \in Range(free) <=> \E i \in 1 .. Len(free) : free[i] = x
    BY <1>0, RangeProps DEF TypeOK
  <2>3. \A i \in 1 .. Len(free) : i + 1 \in 2 .. Len(free) + 1 /\ free'[i + 1] = free[i]
    BY <1>0, <1>4
  <2>4. ASSUME NEW i \in 1 .. Len(free) + 1, i # 1
        PROVE  i - 1 \in 1 .. Len(free) /\ i \in 2 .. Len(free) + 1
    BY <1>0, <2>4
  <2>5. ASSUME NEW x, x \in Range(free') PROVE x \in Range(free) \/ x = n
    BY <1>4, <2>1, <2>2, <2>4, <2>5
  <2>6. n \in Range(free')
    BY <1>0, <1>4, <2>1
  <2>7. ASSUME NEW x \in Range(free) PROVE x \in Range(free')
    <3>1. PICK i \in 1 .. Len(free) : free[i] = x
      BY <2>2
    <3>2. i + 1 \in 1 .. Len(free) + 1
      BY <1>0
    <3>. QED BY <2>1, <2>3, <3>1, <3>2
  <2>. QED BY <2>5, <2>6, <2>7
<1>7. text' \in [Node -> Seq(Line)] /\ text'[n] = <<>>
      /\ \A m \in Node \ {n} : text'[m] = text[m]
  <2>1. <<>> \in Seq(Line)
    BY EmptySeq
  <2>. QED BY <1>0, <1>2, <2>1 DEF TypeOK
<1>8. /\ currLine' = IF Len(queue) < 2 THEN NoNode ELSE queue'[1]
      /\ pc' = IF Len(queue) < 2 THEN "drained" ELSE "loop"
      /\ currLine' \in Node \cup {NoNode}
      /\ Len(queue) >= 2 => queue' # <<>> /\ Head(queue') = queue'[1]
  <2>1. CASE Len(queue) < 2
    BY <2>1 DEF DequeueHead, Goto
  <2>2. CASE Len(queue) >= 2
    <3>1. queue'[1] = queue[2] /\ 2 \in 1 .. Len(queue) /\ Len(queue') >= 1
      BY <1>0, <1>3, <2>2
    <3>2. queue' # <<>>
      BY <3>1, EmptySeq
    <3>3. Head(queue') = queue'[1]
      BY <1>3, <3>2, TailProps
    <3>4. currLine' = queue[2] /\ pc' = "loop"
      BY <1>0, <2>2 DEF DequeueHead, Goto
    <3>5. queue[2] \in Node
      BY <1>0, <3>1, ElementOfSeq DEF TypeOK
    <3>. QED BY <1>0, <2>2, <3>1, <3>2, <3>3, <3>4, <3>5
  <2>. QED BY <1>0, <2>1, <2>2
<1>9. TypeOK' /\ Counters'
  <2>1. pc' \in Labels /\ dequeued' \in Nat
    BY <1>0, <1>2, <1>8 DEF Labels
  <2>. QED BY <1>0, <1>2, <1>3, <1>4, <1>7, <1>8, <2>1 DEF TypeOK, Counters
<1>10. ListsDisjoint'
  <2>1. \A i, j \in 1 .. Len(queue') : queue'[i] = queue'[j] => i = j
    <3> SUFFICES ASSUME NEW i \in 1 .. Len(queue'), NEW j \in 1 .. Len(queue'),
                        queue'[i] = queue'[j]
                 PROVE  i = j
      OBVIOUS
    <3>1. i + 1 \in 1 .. Len(queue) /\ j + 1 \in 1 .. Len(queue)
          /\ queue[i + 1] = queue[j + 1]
      BY <1>0, <1>3
    <3>. QED BY <1>0, <3>1 DEF ListsDisjoint
  <2>2. n \notin Range(free)
    BY <1>0, <1>2 DEF ListsDisjoint
  <2>3. \A i, j \in 1 .. Len(free') : free'[i] = free'[j] => i = j
    <3>1. \A i \in 2 .. Len(free) + 1 :
            i - 1 \in 1 .. Len(free) /\ free'[i] = free[i - 1] /\ free[i - 1] # n
      <4> SUFFICES ASSUME NEW i \in 2 .. Len(free) + 1
                   PROVE  i - 1 \in 1 .. Len(free) /\ free'[i] = free[i - 1]
                          /\ free[i - 1] # n
        OBVIOUS
      <4>1. i - 1 \in 1 .. Len(free) /\ free'[i] = free[i - 1]
        BY <1>0, <1>4
      <4>2. free[i - 1] \in Range(free)
        BY <1>0, <4>1, RangeProps DEF TypeOK
      <4>. QED BY <2>2, <4>1, <4>2
    <3>2. \A i, j \in 2 .. Len(free) + 1 : free'[i] = free'[j] => i = j
      BY <1>0, <3>1 DEF ListsDisjoint
    <3>3. \A i \in 1 .. Len(free') : i = 1 \/ i \in 2 .. Len(free) + 1
      BY <1>0, <1>4
    <3>. QED BY <1>4, <3>1, <3>2, <3>3
  <2>4. Range(queue') \cap Range(free') = {}
    BY <1>0, <1>5, <1>6 DEF ListsDisjoint
  <2>5. \A m \in Node \ Range(queue') : text'[m] = <<>>
    BY <1>0, <1>5, <1>7 DEF ListsDisjoint
  <2>. QED BY <2>1, <2>3, <2>4, <2>5 DEF ListsDisjoint
<1>11. InFlightIsHead'
  BY <1>0, <1>8 DEF InFlightIsHead
<1>12. Contents'
  <2>1. \A i \in 1 .. Len(queue') : text'[queue'[i]] = appended'[dequeued' + i]
    <3> SUFFICES ASSUME NEW i \in 1 .. Len(queue')
                 PROVE  text'[queue'[i]] = appended'[dequeued' + i]
      OBVIOUS
    <3>1. i + 1 \in 1 .. Len(queue) /\ queue'[i] = queue[i + 1] /\ i \in Nat
      BY <1>0, <1>3
    <3>2. queue[i + 1] \in Node \ {n}
      BY <1>0, <1>2, <3>1, ElementOfSeq DEF TypeOK, ListsDisjoint
    <3>3. text[queue[i + 1]] = appended[dequeued + (i + 1)]
      BY <1>0, <3>1 DEF Contents
    <3>4. dequeued' + i = dequeued + (i + 1)
      BY <1>0, <1>2, <3>1
    <3>. QED BY <1>2, <1>7, <3>1, <3>2, <3>3, <3>4
  <2>2. /\ Len(appended') = dequeued' + Len(queue')
        /\ Len(delivered') = dequeued'
    <3>1. Len(appended) = dequeued + Len(queue) /\ Len(delivered) = dequeued + 1
      BY <1>0, <1>1 DEF Contents
    <3>. QED BY <1>0, <1>2, <1>3, <3>1
  <2>. QED BY <1>8, <2>1, <2>2 DEF Contents
<1>13. Looks'
  <2>1. BacklogVerdict'
    BY <1>0, <1>2 DEF Looks, BacklogVerdict
  <2>2. ASSUME ask.at = "wait"
        PROVE  ask.look < dequeued' /\ ask.seen \notin Range(queue')
    BY <1>0, <1>2, <1>5, <2>2 DEF Looks, TypeOK
  <2>. QED BY <1>0, <1>2, <2>1, <2>2 DEF Looks, TypeOK
<1>. QED BY <1>9, <1>10, <1>11, <1>12, <1>13 DEF IInv, NodesSafe

LEMMA NextIInv == IInv /\ [Next]_vars => IInv'
<1>1. ASSUME IInv, UNCHANGED vars PROVE IInv'
  BY <1>1 DEF vars, IInv, TypeOK, Counters, NodesSafe, ListsDisjoint, InFlightIsHead,
     Contents, Looks, BacklogVerdict, QueueHead
<1>. QED BY <1>1, AppendLineStep, HasBacklogStep, ThreadStep, DeliverStep,
            DequeueHeadStep DEF Next, Run, Producer

-----------------------------------------------------------------------------
(* The results *)

\* Every value of every variable has its type, and the idle counter of run()
\* never passes its limit.
THEOREM TypeCorrect == Spec => []TypeOK
  BY InitIInv, NextIInv, PTL DEF Spec, IInv

\* The nodes that appendLine fills, that the pipeline thread hands out and
\* that dequeueHead frees are never confused.
THEOREM NodesAreSafe == Spec => []NodesSafe
  BY InitIInv, NextIInv, PTL DEF Spec, IInv

\* hasBacklog() never calls a queue stuck that moved while it was looking.
THEOREM VerdictIsSound == Spec => []BacklogVerdict
<1>1. IInv => BacklogVerdict
  BY DEF IInv, Looks
<1>. QED BY <1>1, InitIInv, NextIInv, PTL DEF Spec

\* The pipeline implements a FIFO queue of lines.
THEOREM ImplementsFifo == Spec => FifoSpec
<1>1. Init => Fifo!Init
  BY DEF Init, Fifo!Init
<1>2. IInv /\ [Next]_vars => [Fifo!Next]_<<appended, delivered>>
  <2> SUFFICES ASSUME IInv, [Next]_vars
               PROVE  Fifo!Next \/ UNCHANGED <<appended, delivered>>
    OBVIOUS
  <2>1. CASE \E l \in Line : AppendLine(l)
    BY <2>1 DEF AppendLine, Fifo!Next, Fifo!Put
  <2>2. CASE Deliver
    BY <2>2, DeliveredIsNext DEF Deliver, Fifo!Next, Fifo!Take
  <2>3. CASE HasBacklogStart \/ HasBacklogTurn \/ HasBacklogReturn
    BY <2>3 DEF HasBacklogStart, HasBacklogTurn, HasBacklogReturn, history
  <2>4. CASE Start \/ Loop \/ Poll \/ Drained \/ Fail \/ Shutdown
    BY <2>4 DEF Start, Loop, Poll, Drained, Fail, Shutdown, history
  <2>5. CASE DequeueHead
    BY <2>5 DEF DequeueHead
  <2>6. CASE UNCHANGED vars
    BY <2>6 DEF vars
  <2>. QED BY <2>1, <2>2, <2>3, <2>4, <2>5, <2>6 DEF Next, Run, Producer
<1>. QED BY <1>1, <1>2, InitIInv, NextIInv, PTL
         DEF Spec, FifoSpec, Fifo!Spec, Fifo!vars
=============================================================================
