------------------------------ MODULE MCConsole ------------------------------
(***************************************************************************)
(* Console for TLC.  MCConsole3270.cfg: lines have a thread of their own;  *)
(* OutZoneRows = 3 is the smallest page on which a line can be written     *)
(* with and without entering the More state, and two lines reach the       *)
(* screen directly, through the backlog, or one each way.  Timeouts has a  *)
(* timeout that runs (1) and FsRcvNOTIMEOUT (99); the lock timeout is one  *)
(* of them or 0, so a read is locked or not.  One session ends, and both   *)
(* threads may then wait at once.                                          *)
(* MCConsole3215.cfg: one host thread, drained output, inputs in two       *)
(* packets.  On a page of two rows every line enters the More state.       *)
(***************************************************************************)
EXTENDS Console
=============================================================================
