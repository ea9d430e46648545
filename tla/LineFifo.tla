------------------------------ MODULE LineFifo ------------------------------
(***************************************************************************)
(* What EbcdicTextPipeline promises to the two threads it decouples: the   *)
(* lines handed in by the producer reach the consumer one at a time, in    *)
(* the order they were handed in, none lost, none twice.                   *)
(***************************************************************************)
EXTENDS Naturals, Sequences

CONSTANT Line

VARIABLES
    appended,   \* every line ever handed to the pipeline, in order
    delivered   \* every line ever handed to the target, in order

vars == <<appended, delivered>>

Init == appended = <<>> /\ delivered = <<>>

Put == \E l \in Line :
         /\ appended' = Append(appended, l)
         /\ UNCHANGED delivered

Take == /\ Len(delivered) < Len(appended)
        /\ delivered' = Append(delivered, appended[Len(delivered) + 1])
        /\ UNCHANGED appended

Next == Put \/ Take

Spec == Init /\ [][Next]_vars
=============================================================================
