----------------------------- MODULE MCStartUp -----------------------------
(***************************************************************************)
(* Instances of StartUp for TLC.                                           *)
(***************************************************************************)
EXTENDS StartUp

CONSTANTS m1, m2
=============================================================================
