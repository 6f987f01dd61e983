----------------------------- MODULE ModemTypes -----------------------------
(***************************************************************************)
(* The values shared by the modules: modem indices, addresses and the      *)
(* placeholder for an empty one.                                           *)
(***************************************************************************)
CONSTANTS
    Modem,      \* the modem indices of ModemManager
    IP,         \* the addresses the carrier hands out
    None        \* no address, no proxy, no worker

ASSUME NoneAssumption == None \notin IP /\ None \notin Modem
=============================================================================
