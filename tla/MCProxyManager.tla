--------------------------- MODULE MCProxyManager ---------------------------
(***************************************************************************)
(* ProxyManager for TLC: two modems, or one, and a few starts.             *)
(***************************************************************************)
EXTENDS ProxyManager

CONSTANTS m1, m2, i1, i2, p1, p2, p3
=============================================================================
