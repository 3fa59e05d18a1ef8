----------------------------- MODULE MCDedupSweep -----------------------------
(* Small instances of DedupSweep for TLC *)
EXTENDS DedupSweep
=============================================================================
