----------------------- MODULE MCFunctionObservation ------------------------
(* Instances of FunctionObservation for TLC.                               *)
EXTENDS FunctionObservation
=============================================================================
