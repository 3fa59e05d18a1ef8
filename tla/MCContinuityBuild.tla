-------------------------- MODULE MCContinuityBuild --------------------------
(* Small instances of ContinuityBuild for TLC *)
EXTENDS ContinuityBuild
=============================================================================
