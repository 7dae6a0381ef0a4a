-------------------------- MODULE MCRefreshSessions --------------------------
(* Small instances of RefreshSessions for TLC. *)
EXTENDS RefreshSessions
CONSTANTS t1, t2, t3, f1, f2, r1, r2
=============================================================================
