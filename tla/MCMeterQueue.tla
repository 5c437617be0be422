---------------------------- MODULE MCMeterQueue ----------------------------
(***************************************************************************)
(* Checking MeterQueue: no symmetry, which liveness does not allow.        *)
(***************************************************************************)
EXTENDS MeterQueue
=============================================================================
