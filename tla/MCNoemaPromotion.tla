-------------------------- MODULE MCNoemaPromotion --------------------------
(* Two memories of one claim, a consolidation run and a feedback request *)
EXTENDS NoemaPromotion, TLC

CONSTANTS m1, m2, n1

MCClaimOf == (m1 :> n1) @@ (m2 :> n1)
=============================================================================
