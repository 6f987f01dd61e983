------------------------------ MODULE MCHistory ------------------------------
(***************************************************************************)
(* Two modems' rotations, one client of the API and the dashboard.  A      *)
(* client may ask for more than a page may have, or for no limit.          *)
(***************************************************************************)
EXTENDS History

MCLimit == {-1, 1, 3}
=============================================================================
