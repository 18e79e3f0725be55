---------------------------- MODULE MCDeadLetter ----------------------------
(***************************************************************************)
(* Instances of DeadLetter for TLC.                                        *)
(***************************************************************************)
EXTENDS DeadLetter, TLC

CONSTANTS j1, j2, a, s1, s2

\* The second pipeline has no failures of its own, but replays the queue too.
OneFeed == a :> j1

\* Both deliver to one output, or each to its own.
OneOutput == j1 :> s1 @@ j2 :> s1
TwoOutputs == j1 :> s1 @@ j2 :> s2
=============================================================================
