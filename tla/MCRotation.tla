----------------------------- MODULE MCRotation -----------------------------
(***************************************************************************)
(* Rotation for TLC.  Requests and addresses are interchangeable, which    *)
(* the safety runs use.                                                    *)
(***************************************************************************)
EXTENDS Rotation, TLC

CONSTANTS m1, m2, i1, i2, r1, r2

Interchangeable == Permutations(Request) \cup Permutations(IP)
=============================================================================
