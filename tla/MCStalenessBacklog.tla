------------------------- MODULE MCStalenessBacklog -------------------------
(***************************************************************************)
(* The staleness backlog on a small instance: the scopes of one user.      *)
(***************************************************************************)
EXTENDS StalenessBacklog

CONSTANTS u1, session, user_, e1

MCUsers   == {u1}
MCScopes  == <<session, user_>>
MCEntries == {e1}
=============================================================================
