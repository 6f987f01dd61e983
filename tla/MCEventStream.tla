--------------------------- MODULE MCEventStream ---------------------------
(***************************************************************************)
(* EventStream for TLC: two clients and two publishers.                    *)
(***************************************************************************)
EXTENDS EventStream
=============================================================================
