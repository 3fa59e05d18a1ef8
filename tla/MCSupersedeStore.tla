--------------------------- MODULE MCSupersedeStore ---------------------------
(* Model-checking instances of SupersedeStore. *)
EXTENDS SupersedeStore, TLC

Symmetric == Permutations(Writers)
=============================================================================
