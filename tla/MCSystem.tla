------------------------------ MODULE MCSystem ------------------------------
(***************************************************************************)
(* System for TLC: one modem with one worker, and one request.             *)
(***************************************************************************)
EXTENDS System, TLC

CONSTANTS m1, w1

OneHome == w1 :> m1
=============================================================================
