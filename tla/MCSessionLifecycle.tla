------------------------- MODULE MCSessionLifecycle -------------------------
(***************************************************************************)
(* One session, two requests at a time and the janitor of one run.         *)
(***************************************************************************)
EXTENDS SessionLifecycle, TLC

Symmetric == Permutations(Callers)
=============================================================================
