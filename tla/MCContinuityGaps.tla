-------------------------- MODULE MCContinuityGaps --------------------------
(***************************************************************************)
(* One session, one request at a time, overlapping runs.                   *)
(***************************************************************************)
EXTENDS ContinuityGaps
=============================================================================
