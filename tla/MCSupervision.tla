--------------------------- MODULE MCSupervision ---------------------------
(***************************************************************************)
(* Supervision for TLC: one modem index whose worker is started twice.     *)
(***************************************************************************)
EXTENDS Supervision, TLC

CONSTANTS m1, w1, w2

OneHome == (w1 :> m1) @@ (w2 :> m1)
=============================================================================
