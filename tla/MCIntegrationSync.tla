-------------------------- MODULE MCIntegrationSync --------------------------
(***************************************************************************)
(* Small instances of IntegrationSync under its schedules.                 *)
(***************************************************************************)
EXTENDS SyncSchedule, TLC
=============================================================================
