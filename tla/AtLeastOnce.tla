------------------------------ MODULE AtLeastOnce ------------------------------
(***************************************************************************)
(* What a worker promises its source: every change is looked at before the *)
(* stored checkpoint passes it, what was looked at stays so, and the       *)
(* checkpoint never moves back.  How changes are fetched, sent, retried or *)
(* queued, and how a worker dies and restarts, is left to the worker.      *)
(***************************************************************************)
EXTENDS Naturals

VARIABLES
  length,    \* number of changes the source has made
  handled,   \* those looked at, or overwritten by a newer change
  cursor     \* the stored checkpoint

vars == <<length, handled, cursor>>

Init == length = 0 /\ handled = {} /\ cursor = 0

\* The source makes a change; the change it overwrites needs no more work.
Write ==
  /\ length' = length + 1
  /\ handled \subseteq handled' /\ handled' \subseteq 1..length'
  /\ UNCHANGED cursor

\* The worker looks at changes, and may move the checkpoint over them.
Work ==
  /\ UNCHANGED length
  /\ handled \subseteq handled' /\ handled' \subseteq 1..length
  /\ cursor <= cursor' /\ 1..cursor' \subseteq handled'

Next == Write \/ Work
Spec == Init /\ [][Next]_vars
=============================================================================
