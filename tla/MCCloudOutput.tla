--------------------------- MODULE MCCloudOutput ---------------------------
(***************************************************************************)
(* Instances of CloudOutput for TLC.                                       *)
(***************************************************************************)
EXTENDS CloudOutput

CONSTANTS a, b
=============================================================================
