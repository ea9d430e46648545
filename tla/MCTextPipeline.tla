--------------------------- MODULE MCTextPipeline ---------------------------
(***************************************************************************)
(* TextPipeline for TLC.  Three nodes are as many as three lines can need, *)
(* so nodes are freed and refilled while hasBacklog() is looking; two      *)
(* different texts show a swap; IdlePolls = 1 and BacklogTries = 2 let     *)
(* both counters pass their limits.                                        *)
(***************************************************************************)
EXTENDS TextPipeline
=============================================================================
