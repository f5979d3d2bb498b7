--------------------------- MODULE MCClientProxy ---------------------------
(***************************************************************************)
(* Three calls of send() and one of emit() over a circuit that opens after *)
(* two failures in a row and lets one probe through: two of them open it,  *)
(* the third is the probe, and the fourth an outcome that arrives late.    *)
(***************************************************************************)
EXTENDS ClientProxy

=============================================================================
