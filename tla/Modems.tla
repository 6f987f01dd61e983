------------------------------- MODULE Modems -------------------------------
(***************************************************************************)
(* The USB modems and ModemManager, as modemux sees them through the       *)
(* modem.Controller interface (internal/modem/controller.go).  They are    *)
(* external: the hardware, the carrier and the mmcli program.  Only what   *)
(* the callers tell apart is kept: whether Detect can list a modem and     *)
(* Status can answer for it, and the address Status would report.          *)
(***************************************************************************)
EXTENDS ModemTypes

VARIABLES
    present,    \* the modems ModemManager knows
    addr        \* what Status reports: an address when the modem is connected

modemVars == <<present, addr>>

ModemsTypeOK ==
    /\ present \in SUBSET Modem
    /\ addr \in [Modem -> IP \cup {None}]

(***************************************************************************)
(* A modem that is not present has no address.                             *)
(***************************************************************************)
ModemsInit ==
    /\ present \in SUBSET Modem
    /\ addr \in {a \in [Modem -> IP \cup {None}] :
                    \A m \in Modem \ present : a[m] = None}

(***************************************************************************)
(* A modem is plugged in, possibly connected already by ModemManager.      *)
(***************************************************************************)
Plug(m) ==
    /\ m \notin present
    /\ present' = present \cup {m}
    /\ \E a \in IP \cup {None} : addr' = [addr EXCEPT ![m] = a]

Unplug(m) ==
    /\ m \in present
    /\ present' = present \ {m}
    /\ addr' = [addr EXCEPT ![m] = None]

(***************************************************************************)
(* The connection is lost, comes back or is renumbered: by the carrier, or *)
(* by the AT+CGATT commands of a rotation.                                 *)
(***************************************************************************)
ChangeAddress(m) ==
    /\ m \in present
    /\ \E a \in (IP \cup {None}) \ {addr[m]} : addr' = [addr EXCEPT ![m] = a]
    /\ UNCHANGED present

(***************************************************************************)
(* A successful Controller.Connect: ModemManager attaches the bearer and   *)
(* the modem holds some address.                                           *)
(***************************************************************************)
ConnectModem(m) ==
    /\ m \in present
    /\ \E a \in IP : addr' = [addr EXCEPT ![m] = a]
    /\ UNCHANGED present

ModemsNext == \E m \in Modem : Plug(m) \/ Unplug(m) \/ ChangeAddress(m)
=============================================================================
