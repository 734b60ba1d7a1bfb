-------------------------- MODULE MCAdvisoryRuntime -------------------------
(* Instances of AdvisoryRuntime for TLC.                                   *)
EXTENDS AdvisoryRuntime
=============================================================================
