--------------------------- MODULE MCKuksaSession ---------------------------
(* Instances of the telemetry session for model checking.                  *)
EXTENDS KuksaSession

\* An event that was kept across a renewal and whose closing then fails, in
\* update_metadata() or in main()'s handler: only V1 closes by storing.
AfterRenewal == {"V1"} \X {"publish", "transport"}
=============================================================================
