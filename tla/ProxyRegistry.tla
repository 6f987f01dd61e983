--------------------------- MODULE ProxyRegistry ---------------------------
(***************************************************************************)
(* What the proxy manager promises its callers: a table from modems to the *)
(* source address their proxies dial from.  Each operation runs under the  *)
(* manager's mutex, so a caller sees it as one step.  The listeners and    *)
(* goroutines behind the table are in ProxyManager.                        *)
(***************************************************************************)
EXTENDS ModemTypes

VARIABLE proxies    \* Manager.proxies: modem -> source address, or None

RegistryTypeOK == proxies \in [Modem -> IP \cup {None}]

RegistryInit == proxies = [m \in Modem |-> None]

(***************************************************************************)
(* Starting the proxy of a modem that has one already is an error, and the *)
(* running proxy keeps its source address.                                 *)
(***************************************************************************)
StartProxy(m, ip) ==
    proxies' = IF proxies[m] = None THEN [proxies EXCEPT ![m] = ip] ELSE proxies

StopProxy(m) == proxies' = [proxies EXCEPT ![m] = None]

StopAll == proxies' = [m \in Modem |-> None]

RegistryNext ==
    \/ \E m \in Modem :
          \/ \E ip \in IP : StartProxy(m, ip)
          \/ StopProxy(m)
    \/ StopAll

RegistrySpec == RegistryInit /\ [][RegistryNext]_proxies
=============================================================================
