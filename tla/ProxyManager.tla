---------------------------- MODULE ProxyManager ----------------------------
(***************************************************************************)
(* The proxy manager with what ProxyRegistry leaves out: each entry of its *)
(* table stands for an HTTP and a SOCKS5 proxy, each with a goroutine that *)
(* takes a port and serves it (internal/proxy/manager.go, http.go and      *)
(* socks5.go; net/http, net and go-socks5 are modelled as they are used).  *)
(*                                                                         *)
(* An Instance is one ModemProxy value, that is one HTTPProxy and one      *)
(* SOCKS5Proxy.  The manager's operations hold its mutex, and of their     *)
(* parts only the two Close calls touch what a goroutine sees; they touch  *)
(* different goroutines, so an operation is one step.  Ports are           *)
(* portStart+index: of all proxies those of the same modem compete for the *)
(* same ports.  Whoever else has a port, another process or a range that   *)
(* overlaps, makes net.Listen fail from outside, as does anything else     *)
(* that keeps a listener from opening or accepting.                        *)
(***************************************************************************)
EXTENDS ModemTypes

CONSTANT Instance       \* a bound on how many proxies may be started

ASSUME InstanceAssumption == None \notin Instance

VARIABLES
    proxies,    \* Manager.proxies: modem -> instance, or None
    owner,      \* ModemProxy.ModemIndex, None before the instance exists
    source,     \* ModemProxy.SourceIP
    http,       \* control point of the goroutine running HTTPProxy.Start
    shutdown,   \* instances whose http.Server was closed (inShutdown)
    httpClosed, \* instances whose HTTP listener was closed
    socks,      \* control point of the goroutine running SOCKS5Proxy.Start
    socksClosed \* instances whose SOCKS5 listener was closed

httpVars == <<http, shutdown, httpClosed>>
socksVars == <<socks, socksClosed>>
vars == <<proxies, owner, source, httpVars, socksVars>>

HTTPState == {"none",       \* no goroutine yet
              "starting",   \* before the inShutdown test of ListenAndServe
              "binding",    \* before net.Listen
              "bound",      \* listening, not yet tracked by the server
              "serving",    \* in the accept loop
              "ended",      \* by a stop, or its port is an earlier proxy's
              "failed"}     \* by an error from outside

SOCKS5State == {"none",
                "starting", \* before net.Listen
                "bound",    \* listening, p.listener not yet assigned
                "serving",  \* p.listener assigned, in the accept loop
                "ended",
                "failed"}

TypeOK ==
    /\ proxies \in [Modem -> Instance \cup {None}]
    /\ owner \in [Instance -> Modem \cup {None}]
    /\ source \in [Instance -> IP \cup {None}]
    /\ http \in [Instance -> HTTPState]
    /\ shutdown \in SUBSET Instance
    /\ httpClosed \in SUBSET Instance
    /\ socks \in [Instance -> SOCKS5State]
    /\ socksClosed \in SUBSET Instance
    /\ \A i \in Instance : owner[i] = None <=> http[i] = "none"
    /\ \A i \in Instance : owner[i] = None <=> socks[i] = "none"

Init ==
    /\ proxies = [m \in Modem |-> None]
    /\ owner = [i \in Instance |-> None]
    /\ source = [i \in Instance |-> None]
    /\ http = [i \in Instance |-> "none"]
    /\ shutdown = {}
    /\ httpClosed = {}
    /\ socks = [i \in Instance |-> "none"]
    /\ socksClosed = {}

-----------------------------------------------------------------------------
\* The instance holds its port.  Closing a listener gives the port back at
\* once; a server shut down before it tracks its listener holds on to it.
HTTPListening(i) == http[i] \in {"bound", "serving"} /\ i \notin httpClosed
SOCKS5Listening(i) == socks[i] \in {"bound", "serving"} /\ i \notin socksClosed

SameModem(i) == {j \in Instance : owner[j] = owner[i]}
HTTPPortFree(i) == \A j \in SameModem(i) : ~HTTPListening(j)
SOCKS5PortFree(i) == \A j \in SameModem(i) : ~SOCKS5Listening(j)

\* Instances a start may still use: a bound of the model, not of the code.
Fresh == {i \in Instance : owner[i] = None}
NextInstance == CHOOSE i \in Fresh : TRUE

-----------------------------------------------------------------------------
(***************************************************************************)
(* Manager.StartProxy.  It reports success before anything is bound.       *)
(***************************************************************************)
\* Mutant of Spawn: the goroutine of the SOCKS5 proxy is not started.
SpawnHTTPOnly(m, ip, i) ==
    /\ owner' = [owner EXCEPT ![i] = m]
    /\ source' = [source EXCEPT ![i] = ip]
    /\ http' = [http EXCEPT ![i] = "starting"]
    /\ proxies' = [proxies EXCEPT ![m] = i]
    /\ UNCHANGED <<shutdown, httpClosed, socksVars>>

Spawn(m, ip, i) ==
    /\ owner' = [owner EXCEPT ![i] = m]
    /\ source' = [source EXCEPT ![i] = ip]
    /\ http' = [http EXCEPT ![i] = "starting"]
    /\ socks' = [socks EXCEPT ![i] = "starting"]
    /\ proxies' = [proxies EXCEPT ![m] = i]
    /\ UNCHANGED <<shutdown, httpClosed, socksClosed>>

\* Mutant of StartProxy: without the test for a running proxy.
StartProxyAnyway(m, ip) == Fresh # {} /\ Spawn(m, ip, NextInstance)

StartProxy(m, ip) ==
    \/ proxies[m] = None /\ Fresh # {} /\ Spawn(m, ip, NextInstance)
    \/ proxies[m] # None /\ UNCHANGED vars

(***************************************************************************)
(* HTTPProxy.Close marks the server as shut down, whatever its goroutine   *)
(* has reached, and closes the listener it tracks.  SOCKS5Proxy.Close      *)
(* closes the listener, or does nothing when there is none yet; it reads   *)
(* p.listener without a lock, and "bound" is where it misses it.           *)
(***************************************************************************)
Close(I) ==
    /\ shutdown' = shutdown \cup I
    /\ httpClosed' = httpClosed \cup {i \in I : http[i] = "serving"}
    /\ socksClosed' = socksClosed \cup {i \in I : socks[i] = "serving"}
    /\ UNCHANGED <<owner, source, http, socks>>

StopProxy(m) ==
    /\ Close({proxies[m]} \ {None})
    /\ proxies' = [proxies EXCEPT ![m] = None]

StopAll ==
    /\ Close({proxies[m] : m \in Modem} \ {None})
    /\ proxies' = [m \in Modem |-> None]

-----------------------------------------------------------------------------
(***************************************************************************)
(* http.Server.ListenAndServe: refuses when shut down, listens, then       *)
(* serves only if it can still track the listener, else closes it.         *)
(***************************************************************************)
HTTPGoes(i, from, to) ==
    /\ http[i] = from
    /\ http' = [http EXCEPT ![i] = to]
    /\ UNCHANGED <<proxies, owner, source, shutdown, httpClosed, socksVars>>

HTTPStart(i) ==
    HTTPGoes(i, "starting", IF i \in shutdown THEN "ended" ELSE "binding")

\* Mutant of HTTPListen: both ranges start at the same port.
HTTPListenSharedPort(i) ==
    HTTPGoes(i, "binding",
             IF HTTPPortFree(i) /\ SOCKS5PortFree(i) THEN "bound" ELSE "ended")

HTTPListen(i) ==
    HTTPGoes(i, "binding", IF HTTPPortFree(i) THEN "bound" ELSE "ended")

\* Mutant of HTTPServe: serves whatever listener it got, as SOCKS5 does.
HTTPServeAlways(i) == HTTPGoes(i, "bound", "serving")

HTTPServe(i) ==
    HTTPGoes(i, "bound", IF i \in shutdown THEN "ended" ELSE "serving")
HTTPEnd(i) == i \in httpClosed /\ HTTPGoes(i, "serving", "ended")

\* Any other error of net.Listen or Accept: it is logged, and the entry stays.
HTTPFails(i) == HTTPGoes(i, "binding", "failed") \/ HTTPGoes(i, "serving", "failed")

(***************************************************************************)
(* SOCKS5Proxy.Start: net.Listen, the assignment of p.listener, Serve.     *)
(***************************************************************************)
SOCKS5Goes(i, from, to) ==
    /\ socks[i] = from
    /\ socks' = [socks EXCEPT ![i] = to]
    /\ UNCHANGED <<proxies, owner, source, httpVars, socksClosed>>

SOCKS5Listen(i) ==
    SOCKS5Goes(i, "starting", IF SOCKS5PortFree(i) THEN "bound" ELSE "ended")
SOCKS5Serve(i) == SOCKS5Goes(i, "bound", "serving")
SOCKS5End(i) == i \in socksClosed /\ SOCKS5Goes(i, "serving", "ended")

SOCKS5Fails(i) ==
    SOCKS5Goes(i, "starting", "failed") \/ SOCKS5Goes(i, "serving", "failed")

-----------------------------------------------------------------------------
ManagerStep ==
    \/ \E m \in Modem : \/ \E ip \in IP : StartProxy(m, ip)
                        \/ StopProxy(m)
    \/ StopAll

HTTPStep(i) == HTTPStart(i) \/ HTTPListen(i) \/ HTTPServe(i) \/ HTTPEnd(i)
SOCKS5Step(i) == SOCKS5Listen(i) \/ SOCKS5Serve(i) \/ SOCKS5End(i)
Fails(i) == HTTPFails(i) \/ SOCKS5Fails(i)

Next == ManagerStep \/ \E i \in Instance : HTTPStep(i) \/ SOCKS5Step(i) \/ Fails(i)

Spec == Init /\ [][Next]_vars

\* Go runs every goroutine that can run; callers need not call, and nothing
\* need fail.
Fairness == \A i \in Instance : WF_vars(HTTPStep(i)) /\ WF_vars(SOCKS5Step(i))

FairSpec == Spec /\ Fairness

-----------------------------------------------------------------------------
(***************************************************************************)
(* Properties.                                                             *)
(***************************************************************************)
\* i is the proxy the manager lists for its modem.
Listed(i) == owner[i] # None /\ proxies[owner[i]] = i

(***************************************************************************)
(* An HTTP proxy that takes connections is the one the manager lists for   *)
(* its modem: a stop that overtakes the start of the goroutine is not lost.*)
(***************************************************************************)
HTTPServesOnlyListed ==
    \A i \in Instance : http[i] = "serving" /\ HTTPListening(i) => Listed(i)

(***************************************************************************)
(* The manager implements the table its callers see: the address of a      *)
(* running proxy never changes, and stops and starts of one modem leave    *)
(* the others alone.                                                       *)
(***************************************************************************)
SourceOf(i) == IF i = None THEN None ELSE source[i]
Registry == INSTANCE ProxyRegistry
                WITH proxies <- [m \in Modem |-> SourceOf(proxies[m])]
ImplementsRegistry == Registry!RegistrySpec

(***************************************************************************)
(* The goroutine of a stopped HTTP proxy ends and frees its port.          *)
(***************************************************************************)
StoppedHTTPEnds == \A i \in Instance : i \in shutdown ~> http[i] \in {"ended", "failed"}

OnlyProxyOfItsModem(i) == Listed(i) /\ SameModem(i) = {i}

(***************************************************************************)
(* A proxy that stays listed, with no earlier proxy of its modem, serves   *)
(* each protocol in the end, or its listener met an error from outside:    *)
(* nothing in the program keeps it from serving, and one protocol that     *)
(* fails does not take the other along.                                    *)
(***************************************************************************)
FirstProxyServes ==
    \A i \in Instance :
        <>[]OnlyProxyOfItsModem(i) =>
            /\ <>[]HTTPListening(i) \/ <>(http[i] = "failed")
            /\ <>[]SOCKS5Listening(i) \/ <>(socks[i] = "failed")

-----------------------------------------------------------------------------
(***************************************************************************)
(* What the documentation says and the code does not do.                   *)
(***************************************************************************)
\* README.md:20 "HTTP and SOCKS5 proxy bound to real mobile carrier IP": a
\* SOCKS5 proxy that takes connections belongs to the proxy its modem has now,
\* so it does not dial from an address the modem has given up.
SOCKS5ServesOnlyListed ==
    \A i \in Instance : socks[i] = "serving" /\ SOCKS5Listening(i) => Listed(i)
=============================================================================
