------------------------------ MODULE MCLogin ------------------------------
(***************************************************************************)
(* Login for TLC.                                                          *)
(***************************************************************************)
EXTENDS Login

CONSTANTS k1, c1, c2, e1, e2, e3, s1
=============================================================================
