---------------------------- MODULE MCFilter3270 ----------------------------
(***************************************************************************)
(* Filter3270 for TLC.  Four pages of two lines: the pipeline may be on    *)
(* one page while CP writes the next and stops again, and a stop that was  *)
(* answered twice shows in the page after the next; CP locks the screen    *)
(* once by itself and the user sends one line at any moment.               *)
(***************************************************************************)
EXTENDS Filter3270
=============================================================================
