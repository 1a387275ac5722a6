---------------------------- MODULE MCAuthority ----------------------------
(***************************************************************************)
(* Authority for TLC: two clients, so that publications race each other,    *)
(* queries and prunes; two ordinals, so that a failed or crashed commit     *)
(* leaves debris on top of a committed head; two openings, so that a stamp  *)
(* and debris outlive a process.                                            *)
(***************************************************************************)
EXTENDS Authority

CONSTANTS c1, c2, d1, d2
=============================================================================
