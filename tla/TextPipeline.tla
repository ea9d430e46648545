---------------------------- MODULE TextPipeline ----------------------------
(***************************************************************************)
(* ebcdic/EbcdicTextPipeline.java: the queue and the thread that decouple  *)
(* the reader of one side (the host) from the writer of the other side     *)
(* (the console).  The linked list of EbcdicLine nodes is a sequence of    *)
(* node identities, the free list a second one, used as a stack: the code  *)
(* compares and reuses nodes by identity, and a node keeps its text until  *)
(* it is dequeued, so identity and text are kept apart here.               *)
(*                                                                         *)
(* The producer is the one thread that calls appendLine and hasBacklog     *)
(* (the host drain of Tn3270StreamFilter); the consumer is the pipeline's  *)
(* own thread.  Every synchronized block is one step.  appendLine appends  *)
(* to whatever the node holds, so a node holds a sequence of texts, which  *)
(* is a single one as long as dequeueHead resets the nodes it frees.       *)
(***************************************************************************)
EXTENDS Integers, Sequences, Functions

CONSTANTS
    Line,         \* the texts of lines
    Node,         \* identities of EbcdicLine objects
    NoNode,       \* null
    MaxLines,     \* bound on the lines one behaviour appends
    IdlePolls,    \* 100 in the code: empty polls before pipelineDrained()
    BacklogTries  \* 8 in the code: unchanged heads before hasBacklog() is true

ASSUME NoNodeAssumption == NoNode \notin Node
ASSUME BoundsAssumption == /\ MaxLines \in Nat
                           /\ IdlePolls \in Nat
                           /\ BacklogTries \in Nat \ {0}

VARIABLES
    queue,      \* queuedLines .. queuedTail
    free,       \* freeLines, the first one is taken next
    text,       \* the content of each node
    running,    \* the volatile flag
    pc,         \* where the pipeline thread is in run()
    currLine,   \* its local variable
    counter,    \* its local variable, empty polls since the last event
    ask,        \* the producer in hasBacklog(): its locals, or its verdict
    appended,   \* history: the lines handed in
    delivered,  \* history: the lines handed to the target
    dequeued    \* history: how many nodes left the queue

vars == <<queue, free, text, running, pc, currLine, counter, ask,
          appended, delivered, dequeued>>
lists == <<queue, free, text>>
thread == <<pc, currLine, counter>>
history == <<appended, delivered, dequeued>>

Labels == {"start", "loop", "poll", "deliver", "dequeue", "drained",
           "idleDrained", "ended", "aborted"}

\* look and same are history: the value of dequeued at the last look at the
\* head, and how many looks in a row found that value.
NoAsk == [at |-> "idle", seen |-> NoNode, tries |-> 0, look |-> 0, same |-> 0]

Init == /\ queue = <<>> /\ free = <<>>
        /\ text = [n \in Node |-> <<>>]
        /\ running = FALSE
        /\ pc = "start" /\ currLine = NoNode /\ counter = 0
        /\ ask = NoAsk
        /\ appended = <<>> /\ delivered = <<>> /\ dequeued = 0

-----------------------------------------------------------------------------
(* The producer *)

QueueHead == IF queue = <<>> THEN NoNode ELSE Head(queue)

\* The node appendLine fills: the first free one, else a new object.
FillsNode(n) == IF free = <<>> THEN n \in Node \ Range(queue)
                               ELSE n = Head(free)

\* What is left of the free list once appendLine has its node.
FreeNotPopped == free
FreeAfterFill == IF free = <<>> THEN <<>> ELSE Tail(free)

AppendLine(l) ==
    /\ ask.at = "idle"
    /\ Len(appended) < MaxLines
    /\ \E n \in Node :
         /\ FillsNode(n)
         /\ queue' = Append(queue, n)
         /\ text' = [text EXCEPT ![n] = Append(@, l)]
    /\ free' = FreeAfterFill
    /\ appended' = Append(appended, <<l>>)
    /\ UNCHANGED <<running, thread, ask, delivered, dequeued>>

\* hasBacklog(): the first look at the head.
HasBacklogStart ==
    /\ ask.at = "idle"
    /\ ask' = IF queue = <<>>
                THEN [NoAsk EXCEPT !.at = "empty"]
                ELSE [at |-> "wait", seen |-> QueueHead,
                      tries |-> BacklogTries, look |-> dequeued, same |-> 1]
    /\ UNCHANGED <<lists, running, thread, history>>

\* One turn of its loop: 5 ms later the head is compared with the last one
\* seen; a different one restores the number of tries.
TriesNeverRestored == ask.tries - 1
TriesAfterLook == IF QueueHead # ask.seen THEN BacklogTries ELSE ask.tries - 1

HasBacklogTurn ==
    /\ ask.at = "wait"
    /\ ask' = [at    |-> IF QueueHead = NoNode THEN "empty"
                         ELSE IF TriesAfterLook = 0 THEN "stuck" ELSE "wait",
               seen  |-> QueueHead,
               tries |-> TriesAfterLook,
               look  |-> dequeued,
               same  |-> IF dequeued = ask.look THEN ask.same + 1 ELSE 1]
    /\ UNCHANGED <<lists, running, thread, history>>

\* The caller takes the verdict, FALSE for "empty" and TRUE for "stuck".
HasBacklogReturn ==
    /\ ask.at \in {"empty", "stuck"}
    /\ ask' = NoAsk
    /\ UNCHANGED <<lists, running, thread, history>>

Shutdown ==
    /\ running' = FALSE
    /\ UNCHANGED <<lists, thread, ask, history>>

-----------------------------------------------------------------------------
(* run(): the pipeline's thread *)

Goto(label) == pc' = label

\* Lines 215-216; the flag is still clear when the new thread gets here,
\* so a shutdown() before this step is forgotten.
Start ==
    /\ pc = "start"
    /\ running' = TRUE
    /\ Goto("loop")
    /\ UNCHANGED <<lists, currLine, counter, ask, history>>

\* The test of the outer loop and of the waiting loop.
Loop ==
    /\ pc = "loop"
    /\ Goto(IF ~running THEN "ended"
            ELSE IF currLine = NoNode THEN "poll" ELSE "deliver")
    /\ counter' = 0
    /\ UNCHANGED <<lists, running, currLine, ask, history>>

Poll ==
    /\ pc = "poll"
    /\ IF ~running
         THEN Goto("ended") /\ UNCHANGED <<currLine, counter>>
         ELSE /\ currLine' = QueueHead
              /\ counter' = counter + 1
              /\ Goto(IF QueueHead # NoNode THEN "deliver"
                      ELSE IF counter + 1 > IdlePolls THEN "idleDrained"
                      ELSE "poll")
    /\ UNCHANGED <<lists, running, ask, history>>

\* target.appendTextLine(currLine): reads the node without any lock, the
\* node is still the head of the queue.
Deliver ==
    /\ pc = "deliver"
    /\ delivered' = Append(delivered, text[currLine])
    /\ Goto("dequeue")
    /\ UNCHANGED <<lists, running, currLine, counter, ask, appended, dequeued>>

\* What dequeueHead leaves in the node it frees.
NotReset(n) == text[n]
Reset(n) == <<>>

DequeueHead ==
    /\ pc = "dequeue"
    /\ queue' = IF queue = <<>> THEN <<>> ELSE Tail(queue)
    /\ text' = IF queue = <<>> THEN text
                               ELSE [text EXCEPT ![Head(queue)] = Reset(Head(queue))]
    /\ free' = IF queue = <<>> THEN free ELSE <<Head(queue)>> \o free
    /\ dequeued' = IF queue = <<>> THEN dequeued ELSE dequeued + 1
    /\ currLine' = IF Len(queue) < 2 THEN NoNode ELSE queue[2]
    /\ Goto(IF Len(queue) < 2 THEN "drained" ELSE "loop")
    /\ UNCHANGED <<running, counter, ask, appended, delivered>>

\* source.pipelineDrained() after the last line, and after IdlePolls empty polls.
EndsWhenIdle ==
    /\ \/ pc = "drained" /\ Goto("loop")
       \/ pc = "idleDrained" /\ Goto("ended")
    /\ UNCHANGED <<lists, running, currLine, counter, ask, history>>

Drained ==
    /\ \/ pc = "drained" /\ Goto("loop") /\ UNCHANGED counter
       \/ pc = "idleDrained" /\ Goto("poll") /\ counter' = 0
    /\ UNCHANGED <<lists, running, currLine, ask, history>>

\* An IOException of the target or of the source ends the thread.
Fail ==
    /\ pc \in {"deliver", "drained", "idleDrained"}
    /\ Goto("aborted")
    /\ UNCHANGED <<lists, running, currLine, counter, ask, history>>

Run == Start \/ Loop \/ Poll \/ Deliver \/ DequeueHead \/ Drained

Producer == \/ \E l \in Line : AppendLine(l)
            \/ HasBacklogStart \/ HasBacklogTurn \/ HasBacklogReturn

Next == Run \/ Fail \/ Producer \/ Shutdown

\* The JVM schedules the pipeline's thread and the thread inside
\* hasBacklog(), which has nothing to wait for but its own sleeps.
Fairness == WF_vars(Run) /\ WF_vars(HasBacklogTurn)

Spec == Init /\ [][Next]_vars
FairSpec == Spec /\ Fairness
-----------------------------------------------------------------------------
(* Properties *)

\* Types and ranges; in particular the idle counter of run() never passes
\* the limit at which pipelineDrained() is called.
TypeOK ==
    /\ queue \in Seq(Node) /\ free \in Seq(Node)
    /\ text \in [Node -> Seq(Line)]
    /\ running \in BOOLEAN
    /\ pc \in Labels
    /\ currLine \in Node \cup {NoNode}
    /\ counter \in 0 .. IdlePolls + 1
    /\ ask \in [at : {"idle", "wait", "empty", "stuck"},
               seen : Node \cup {NoNode},
               tries : 0 .. BacklogTries,
               look : Nat, same : Nat]
    /\ appended \in Seq(Seq(Line)) /\ delivered \in Seq(Seq(Line))
    /\ dequeued \in Nat

\* No node is in both lists or twice in one: appendLine never reuses a node
\* the console is still reading.
ListsDisjoint ==
    /\ \A i, j \in 1 .. Len(queue) : queue[i] = queue[j] => i = j
    /\ \A i, j \in 1 .. Len(free) : free[i] = free[j] => i = j
    /\ Range(queue) \cap Range(free) = {}
    /\ \A n \in Node \ Range(queue) : text[n] = <<>>

\* The node the pipeline thread hands out without holding the lock stays
\* the head of the queue until that thread itself removes it.
InFlightIsHead ==
    /\ pc \in {"deliver", "dequeue"} => currLine # NoNode
    /\ pc \in {"start", "drained"} => currLine = NoNode
    /\ currLine # NoNode /\ pc \in {"loop", "deliver", "dequeue"}
         => queue # <<>> /\ Head(queue) = currLine

\* The nodes the two threads share are never confused: lines 123-186.
NodesSafe == ListsDisjoint /\ InFlightIsHead

\* hasBacklog() answers TRUE only if the same line headed the queue, and
\* nothing left the queue, over BacklogTries + 1 looks in a row: a node that
\* was freed, refilled and queued again in between is never taken for it.
BacklogVerdict ==
    ask.at = "stuck" => ask.same > BacklogTries

\* Lines come out in the order they went in, none lost, doubled or mixed.
Fifo == INSTANCE LineFifo WITH Line <- {<<l>> : l \in Line}
FifoSpec == Fifo!Spec

\* Every line handed in is delivered, unless the target or the source threw
\* or shutdown() was called: the queue never goes to sleep on a line.
EveryLineDelivered ==
    \A k \in 1 .. MaxLines :
        Len(appended) >= k ~> \/ Len(delivered) >= k
                             \/ pc = "aborted"
                             \/ ~running
=============================================================================
