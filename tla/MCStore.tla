------------------------------ MODULE MCStore ------------------------------
(***************************************************************************)
(* Store for TLC.  p1 runs two writers, p2 a third one and a reader: both   *)
(* the process-wide writer registry and the byte-range lock are needed to   *)
(* keep two of the three writers out.                                       *)
(***************************************************************************)
EXTENDS Store

CONSTANTS w1, w2, w3, r1, p1, p2

MCProcOf == [h \in Handles |-> IF h \in {w1, w2} THEN p1 ELSE p2]
=============================================================================
