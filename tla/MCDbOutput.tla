----------------------------- MODULE MCDbOutput -----------------------------
(***************************************************************************)
(* Instances of DbOutput for TLC.                                          *)
(***************************************************************************)
EXTENDS DbOutput

CONSTANTS a, b, c
=============================================================================
