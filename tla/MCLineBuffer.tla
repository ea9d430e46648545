---------------------------- MODULE MCLineBuffer ----------------------------
(***************************************************************************)
(* LineBuffer for TLC.  The smallest page the constructor admits (4 rows)  *)
(* and a buffer of 5 lines: lines of every height, frames at the top, at   *)
(* the bottom and in between, and a full buffer that drops its oldest      *)
(* line.  The display attribute steers no operation but the last, so only  *)
(* one-row lines come with two attributes.                                 *)
(***************************************************************************)
EXTENDS LineBuffer

MCAppend == \/ \E rows \in 1 .. RowsInPage : AppendLine([rows |-> rows, flag |-> HostOutput])
            \/ AppendLine([rows |-> 1, flag |-> FScreenBg])

MCNext == MCAppend \/ ClearUplines \/ Page \/ UpdateLastLineFlags

MCSpec == Init /\ [][MCNext]_vars
=============================================================================
