---------------------------- MODULE MCEventSpool ----------------------------
(* EventSpool with small windows: chunks of two samples.                   *)
EXTENDS EventSpool

=============================================================================
