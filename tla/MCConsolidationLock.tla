------------------------ MODULE MCConsolidationLock ------------------------
(***************************************************************************)
(* Instances of ConsolidationLock for TLC. "run" is a consolidation run,   *)
(* which renews its lease, "pass" a staleness pass, which does not; "next" *)
(* is a second consolidation run (another server, or an admin trigger).    *)
(***************************************************************************)
EXTENDS ConsolidationLock

CONSTANTS run, pass, next

MCTtl == [p \in Procs |-> IF p = pass THEN 1 ELSE 2]
=============================================================================
