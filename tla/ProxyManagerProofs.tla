------------------------- MODULE ProxyManagerProofs -------------------------
(***************************************************************************)
(* Theorems about the proxy manager, for any number of modems, addresses   *)
(* and proxies ever started.                                               *)
(***************************************************************************)
EXTENDS ProxyManager, TLAPS

(***************************************************************************)
(* The inductive invariant: the table lists exactly the proxies that were  *)
(* started and not shut down, and a shut down server that serves has no    *)
(* listener left.                                                          *)
(***************************************************************************)
TableInv ==
    /\ \A m \in Modem : proxies[m] # None => owner[proxies[m]] = m
    /\ \A i \in Instance : owner[i] # None /\ i \notin shutdown => Listed(i)
    /\ \A i \in Instance : owner[i] = None => http[i] = "none"
    /\ \A i \in shutdown : http[i] = "serving" => i \in httpClosed

(***************************************************************************)
(* Every variable keeps its type.                                          *)
(***************************************************************************)
THEOREM TypeCorrect == Spec => []TypeOK
<1> USE NoneAssumption, InstanceAssumption DEF TypeOK, HTTPState, SOCKS5State
<1>1. Init => TypeOK
  BY DEF Init
<1>2. TypeOK /\ [Next]_vars => TypeOK'
  <2> SUFFICES ASSUME TypeOK, [Next]_vars PROVE TypeOK'
    OBVIOUS
  <2> USE DEF vars, httpVars, socksVars
  <2>1. ASSUME NEW m \in Modem, NEW ip \in IP, StartProxy(m, ip) PROVE TypeOK'
    <3>1. Fresh # {} => NextInstance \in Instance
      BY DEF Fresh, NextInstance
    <3> QED
      BY <2>1, <3>1 DEF StartProxy, Spawn
  <2>2. ASSUME NEW m \in Modem, StopProxy(m) PROVE TypeOK'
    BY <2>2 DEF StopProxy, Close
  <2>3. CASE StopAll
    BY <2>3 DEF StopAll, Close
  <2>4. ASSUME NEW i \in Instance, HTTPStep(i) PROVE TypeOK'
    BY <2>4 DEF HTTPStep, HTTPStart, HTTPListen, HTTPServe, HTTPEnd, HTTPGoes
  <2>5. ASSUME NEW i \in Instance, SOCKS5Step(i) PROVE TypeOK'
    BY <2>5 DEF SOCKS5Step, SOCKS5Listen, SOCKS5Serve, SOCKS5End, SOCKS5Goes
  <2>6. ASSUME NEW i \in Instance, Fails(i) PROVE TypeOK'
    BY <2>6 DEF Fails, HTTPFails, HTTPGoes, SOCKS5Fails, SOCKS5Goes
  <2>7. CASE UNCHANGED vars
    BY <2>7
  <2> QED
    BY <2>1, <2>2, <2>3, <2>4, <2>5, <2>6, <2>7 DEF Next, ManagerStep
<1> QED
  BY <1>1, <1>2, PTL DEF Spec

(***************************************************************************)
(* Table, owners and servers stay consistent while starts, stops and the   *)
(* listeners' goroutines interleave.                                       *)
(***************************************************************************)
THEOREM TableCorrect == Spec => []TableInv
<1> USE NoneAssumption, InstanceAssumption DEF TableInv, Listed
<1>1. Init => TableInv
  BY DEF Init
<1>2. TypeOK /\ TableInv /\ [Next]_vars => TableInv'
  <2> SUFFICES ASSUME TypeOK, TableInv, [Next]_vars PROVE TableInv'
    OBVIOUS
  <2> USE DEF TypeOK, vars, httpVars, socksVars
  <2>1. ASSUME NEW m \in Modem, NEW ip \in IP, StartProxy(m, ip) PROVE TableInv'
    <3>1. Fresh # {} => NextInstance \in Instance /\ owner[NextInstance] = None
      BY DEF Fresh, NextInstance
    <3> QED
      BY <2>1, <3>1 DEF StartProxy, Spawn
  <2>2. ASSUME NEW m \in Modem, StopProxy(m) PROVE TableInv'
    BY <2>2 DEF StopProxy, Close
  <2>3. CASE StopAll
    BY <2>3 DEF StopAll, Close
  <2>4. ASSUME NEW i \in Instance, HTTPStep(i) PROVE TableInv'
    BY <2>4 DEF HTTPStep, HTTPStart, HTTPListen, HTTPServe, HTTPEnd, HTTPGoes
  <2>5. ASSUME NEW i \in Instance, SOCKS5Step(i) PROVE TableInv'
    BY <2>5 DEF SOCKS5Step, SOCKS5Listen, SOCKS5Serve, SOCKS5End, SOCKS5Goes
  <2>6. ASSUME NEW i \in Instance, Fails(i) PROVE TableInv'
    BY <2>6 DEF Fails, HTTPFails, HTTPGoes, SOCKS5Fails, SOCKS5Goes
  <2>7. CASE UNCHANGED vars
    BY <2>7
  <2> QED
    BY <2>1, <2>2, <2>3, <2>4, <2>5, <2>6, <2>7 DEF Next, ManagerStep
<1> QED
  BY <1>1, <1>2, TypeCorrect, PTL DEF Spec

(***************************************************************************)
(* An HTTP proxy that takes connections is the one listed for its modem.   *)
(***************************************************************************)
THEOREM HTTPServesOnlyListedHolds == Spec => []HTTPServesOnlyListed
<1>1. TypeOK /\ TableInv => HTTPServesOnlyListed
  BY DEF TypeOK, TableInv, HTTPServesOnlyListed, HTTPListening
<1> QED
  BY <1>1, TypeCorrect, TableCorrect, PTL

(***************************************************************************)
(* What a missing listener says about its modem.  But for an error from    *)
(* outside, a goroutine ends only by a stop of its own proxy, or when it   *)
(* finds the port taken by another proxy of the modem.                     *)
(***************************************************************************)
FailureInv ==
    /\ httpClosed \subseteq shutdown /\ socksClosed \subseteq shutdown
    /\ \A i \in shutdown : owner[i] # None /\ ~Listed(i)
    /\ \A i \in Instance : http[i] = "ended" \/ socks[i] = "ended" =>
          SameModem(i) \cap shutdown # {}

\* A proxy that finds one of its ports taken is not the first of its modem: the one
\* that has the port or itself was stopped.
LEMMA TakenPortMeansAStop ==
    ASSUME TypeOK, TableInv, NEW i \in Instance, owner[i] # None,
           NEW j \in SameModem(i), j # i
    PROVE  SameModem(i) \cap shutdown # {}
<1>1. j \in Instance /\ owner[j] = owner[i]
  BY DEF SameModem
<1>2. i \in shutdown \/ j \in shutdown
  BY <1>1 DEF TableInv, Listed
<1> QED
  BY <1>1, <1>2 DEF SameModem

\* The sets of stopped and of closed proxies only grow, and owners stay.
LEMMA StopsStay ==
    ASSUME TypeOK, [Next]_vars, NEW i \in Instance, owner[i] # None
    PROVE  SameModem(i) \cap shutdown \subseteq (SameModem(i) \cap shutdown)'
<1> USE DEF TypeOK, vars, httpVars, socksVars
<1>1. shutdown \subseteq shutdown'
  BY DEF Next, ManagerStep, StartProxy, Spawn, StopProxy, StopAll, Close, HTTPStep,
         HTTPStart, HTTPListen, HTTPServe, HTTPEnd, HTTPGoes, SOCKS5Step, SOCKS5Listen,
         SOCKS5Serve, SOCKS5End, SOCKS5Goes, Fails, HTTPFails, SOCKS5Fails
<1>2. \A j \in Instance : owner[j] # None => owner'[j] = owner[j]
  <2>1. \/ UNCHANGED owner
        \/ Fresh # {} /\ \E m \in Modem, ip \in IP : Spawn(m, ip, NextInstance)
    BY DEF Next, ManagerStep, StartProxy, StopProxy, StopAll, Close, HTTPStep,
           HTTPStart, HTTPListen, HTTPServe, HTTPEnd, HTTPGoes, SOCKS5Step, SOCKS5Listen,
           SOCKS5Serve, SOCKS5End, SOCKS5Goes, Fails, HTTPFails, SOCKS5Fails
  <2>2. Fresh # {} => owner[NextInstance] = None
    BY DEF Fresh, NextInstance
  <2> QED
    BY <2>1, <2>2 DEF Spawn
<1> QED
  BY <1>1, <1>2 DEF SameModem

\* The inductive step: the two ways a goroutine ends, at its port and by a stop.
LEMMA FailureStep ==
    ASSUME TypeOK, TableInv, FailureInv, [Next]_vars PROVE FailureInv'
<1> USE NoneAssumption, InstanceAssumption
<1> USE DEF TypeOK, FailureInv, Listed, vars, httpVars, socksVars
<1>1. ASSUME NEW m \in Modem, NEW ip \in IP, StartProxy(m, ip) PROVE FailureInv'
  <2>1. CASE UNCHANGED vars
    BY <2>1 DEF SameModem
  <2>2. CASE Fresh # {} /\ proxies[m] = None /\ Spawn(m, ip, NextInstance)
    <3>1. NextInstance \in Instance /\ owner[NextInstance] = None
      BY <2>2 DEF Fresh, NextInstance
    <3>2. \A i \in shutdown : owner'[i] = owner[i] /\ ~Listed(i)'
      BY <2>2, <3>1 DEF Spawn
    <3>3. \A i \in Instance : http'[i] = "ended" \/ socks'[i] = "ended" =>
             (http[i] = "ended" \/ socks[i] = "ended") /\ owner[i] # None
      BY <2>2, <3>1 DEF Spawn, HTTPState, SOCKS5State
    <3>4. \A i \in Instance : http'[i] = "ended" \/ socks'[i] = "ended" =>
             (SameModem(i) \cap shutdown)' # {}
      BY <3>3, StopsStay
    <3> QED
      BY <2>2, <3>2, <3>4 DEF Spawn
  <2> QED
    BY <1>1, <2>1, <2>2 DEF StartProxy
<1>2. CASE StopAll \/ \E m \in Modem : StopProxy(m)
  <2>1. UNCHANGED <<owner, http, socks>>
    BY <1>2 DEF StopAll, StopProxy, Close
  <2>2. httpClosed' \subseteq shutdown' /\ socksClosed' \subseteq shutdown'
    BY <1>2 DEF StopAll, StopProxy, Close
  <2>3. \A i \in shutdown' : owner'[i] # None /\ ~Listed(i)'
    BY <1>2 DEF StopAll, StopProxy, Close, TableInv
  <2>4. \A i \in Instance : http'[i] = "ended" \/ socks'[i] = "ended" =>
           (SameModem(i) \cap shutdown)' # {}
    BY <2>1, StopsStay
  <2> QED
    BY <2>2, <2>3, <2>4
<1>3. ASSUME NEW i \in Instance, HTTPStep(i) \/ SOCKS5Step(i) PROVE FailureInv'
  <2>1. /\ UNCHANGED <<proxies, owner, shutdown, httpClosed, socksClosed>>
        /\ \A j \in Instance \ {i} : http'[j] = http[j] /\ socks'[j] = socks[j]
        /\ owner[i] # None
    BY <1>3 DEF HTTPStep, HTTPStart, HTTPListen, HTTPServe, HTTPEnd, HTTPGoes,
                SOCKS5Step, SOCKS5Listen, SOCKS5Serve, SOCKS5End, SOCKS5Goes
  <2>2. ASSUME http'[i] = "ended" \/ socks'[i] = "ended",
               http[i] # "ended", socks[i] # "ended"
        PROVE  i \in shutdown \/ \E j \in SameModem(i) : j # i
    <3>1. \/ i \in shutdown
          \/ http[i] = "binding" /\ ~HTTPPortFree(i)
          \/ socks[i] = "starting" /\ ~SOCKS5PortFree(i)
      BY <1>3, <2>2
      DEF HTTPStep, HTTPStart, HTTPListen, HTTPServe, HTTPEnd, HTTPGoes,
          SOCKS5Step, SOCKS5Listen, SOCKS5Serve, SOCKS5End, SOCKS5Goes
    <3> QED
      BY <3>1 DEF HTTPPortFree, SOCKS5PortFree, HTTPListening, SOCKS5Listening
  <2>3. ASSUME http'[i] = "ended" \/ socks'[i] = "ended"
        PROVE  SameModem(i) \cap shutdown # {}
    <3>1. CASE http[i] = "ended" \/ socks[i] = "ended"
      BY <3>1
    <3>2. CASE i \in shutdown
      BY <3>2 DEF SameModem
    <3>3. CASE \E j \in SameModem(i) : j # i
      BY <2>1, <3>3, TakenPortMeansAStop
    <3> QED
      BY <2>2, <2>3, <3>1, <3>2, <3>3
  <2>4. \A j \in Instance : SameModem(j)' = SameModem(j)
    BY <2>1 DEF SameModem
  <2> QED
    BY <2>1, <2>3, <2>4
<1>4. ASSUME NEW i \in Instance, Fails(i) PROVE FailureInv'
  <2>1. /\ UNCHANGED <<proxies, owner, shutdown, httpClosed, socksClosed>>
        /\ \A j \in Instance : /\ http'[j] = "ended" => http[j] = "ended"
                               /\ socks'[j] = "ended" => socks[j] = "ended"
    BY <1>4 DEF Fails, HTTPFails, HTTPGoes, SOCKS5Fails, SOCKS5Goes
  <2>2. \A j \in Instance : SameModem(j)' = SameModem(j)
    BY <2>1 DEF SameModem
  <2> QED
    BY <2>1, <2>2
<1>5. CASE UNCHANGED vars
  BY <1>5 DEF SameModem
<1> QED
  BY <1>1, <1>2, <1>3, <1>4, <1>5 DEF Next, ManagerStep

(***************************************************************************)
(* StartProxy reports success before a port is taken, and a failure is     *)
(* only logged.  A listed proxy is without a listener only after an error  *)
(* from outside, or when an earlier proxy of its modem was stopped: two    *)
(* proxies the manager lists never take a port from each other.            *)
(***************************************************************************)
FailsOnlyBehindAStop ==
    \A i \in Instance :
        Listed(i) /\ (http[i] = "ended" \/ socks[i] = "ended") =>
            SameModem(i) \cap shutdown # {}

(***************************************************************************)
(* But for errors from outside, a listed proxy that serves less than both  *)
(* its protocols is the heir of a stopped one, for any number of modems    *)
(* and starts (manager.go:71-81, http.go:52, socks5.go:49).                *)
(***************************************************************************)
THEOREM FailsOnlyBehindAStopHolds == Spec => []FailsOnlyBehindAStop
<1>1. Init => FailureInv
  BY DEF Init, FailureInv
<1>2. TypeOK /\ TableInv /\ FailureInv /\ [Next]_vars => FailureInv'
  BY FailureStep
<1>3. FailureInv => FailsOnlyBehindAStop
  BY DEF FailureInv, FailsOnlyBehindAStop
<1> QED
  BY <1>1, <1>2, <1>3, TypeCorrect, TableCorrect, PTL DEF Spec

(***************************************************************************)
(* The manager implements ProxyRegistry: each operation is the registry    *)
(* operation of its name, and the goroutines change nothing a caller sees. *)
(***************************************************************************)
THEOREM ImplementsRegistryHolds == Spec => ImplementsRegistry
<1> USE NoneAssumption, InstanceAssumption DEF SourceOf
<1> DEFINE table == [m \in Modem |-> SourceOf(proxies[m])]
<1>1. Init => Registry!RegistryInit
  BY DEF Init, Registry!RegistryInit
<1>2. TypeOK /\ TableInv /\ [Next]_vars => [Registry!RegistryNext]_table
  <2> SUFFICES ASSUME TypeOK, TableInv, [Next]_vars
               PROVE  [Registry!RegistryNext]_table
    OBVIOUS
  <2> USE DEF TypeOK, TableInv, vars, httpVars, socksVars, Registry!RegistryNext
  <2>1. ASSUME NEW m \in Modem, NEW ip \in IP, StartProxy(m, ip)
        PROVE  [Registry!RegistryNext]_table
    <3>1. CASE proxies[m] # None
      BY <2>1, <3>1 DEF StartProxy
    <3>2. CASE proxies[m] = None
      <4>1. /\ NextInstance \in Instance /\ owner[NextInstance] = None
            /\ Spawn(m, ip, NextInstance)
        BY <2>1, <3>2 DEF StartProxy, Fresh, NextInstance
      <4>2. \A n \in Modem : n # m => SourceOf(proxies[n])' = SourceOf(proxies[n])
        BY <4>1 DEF Spawn
      <4>3. SourceOf(proxies[m])' = ip /\ table[m] = None
        BY <4>1, <3>2 DEF Spawn
      <4>4. table' = [table EXCEPT ![m] = ip]
        BY <4>2, <4>3
      <4>5. Registry!StartProxy(m, ip)
        BY <4>3, <4>4 DEF Registry!StartProxy
      <4> QED
        BY <4>5
    <3> QED
      BY <3>1, <3>2
  <2>2. ASSUME NEW m \in Modem, StopProxy(m) PROVE [Registry!RegistryNext]_table
    <3>1. table' = [table EXCEPT ![m] = None]
      BY <2>2 DEF StopProxy, Close
    <3>2. Registry!StopProxy(m)
      BY <3>1 DEF Registry!StopProxy
    <3> QED
      BY <3>2
  <2>3. CASE StopAll
    <3>1. Registry!StopAll
      BY <2>3 DEF StopAll, Close, Registry!StopAll
    <3> QED
      BY <3>1
  <2>4. ASSUME NEW i \in Instance, HTTPStep(i) \/ SOCKS5Step(i) \/ Fails(i)
        PROVE  UNCHANGED table
    BY <2>4 DEF HTTPStep, HTTPStart, HTTPListen, HTTPServe, HTTPEnd, HTTPGoes,
                SOCKS5Step, SOCKS5Listen, SOCKS5Serve, SOCKS5End, SOCKS5Goes,
                Fails, HTTPFails, SOCKS5Fails
  <2>5. CASE UNCHANGED vars
    BY <2>5
  <2> QED
    BY <2>1, <2>2, <2>3, <2>4, <2>5 DEF Next, ManagerStep
<1> QED
  BY <1>1, <1>2, TypeCorrect, TableCorrect, PTL
  DEF Spec, ImplementsRegistry, Registry!RegistrySpec

-----------------------------------------------------------------------------
(***************************************************************************)
(* How far the leak of proxy_manager_leak goes: SOCKS5Proxy.Close misses a *)
(* proxy only before p.listener is assigned.  One that its modem still has *)
(* when it begins to serve never takes connections after its modem has     *)
(* given it up, however stops and starts follow each other.                *)
(***************************************************************************)
StopsReachServing ==
    \A i \in Instance :
        [](socks[i] = "serving" /\ Listed(i) =>
              [](SOCKS5Listening(i) => Listed(i)))

\* The listener of i is known to Close, and open only while i is listed.
Reachable(i) ==
    /\ owner[i] # None
    /\ socks[i] \in {"serving", "ended", "failed"}
    /\ socks[i] = "serving" /\ i \notin socksClosed => Listed(i)

\* No step takes Reachable back: what delists a serving proxy closes it too.
LEMMA ReachableStays ==
    ASSUME TypeOK, TableInv, [Next]_vars, NEW i \in Instance, Reachable(i)
    PROVE  Reachable(i)'
<1> USE NoneAssumption, InstanceAssumption
    DEF TypeOK, TableInv, Listed, Reachable, vars, httpVars, socksVars
<1>1. ASSUME NEW m \in Modem, NEW ip \in IP, StartProxy(m, ip)
      PROVE  Reachable(i)'
  <2>1. Fresh # {} => NextInstance \in Instance /\ owner[NextInstance] = None
    BY DEF Fresh, NextInstance
  <2> QED
    BY <1>1, <2>1 DEF StartProxy, Spawn
<1>2. ASSUME NEW m \in Modem, StopProxy(m) PROVE Reachable(i)'
  BY <1>2 DEF StopProxy, Close
<1>3. CASE StopAll
  BY <1>3 DEF StopAll, Close
<1>4. ASSUME NEW j \in Instance, HTTPStep(j) PROVE Reachable(i)'
  BY <1>4 DEF HTTPStep, HTTPStart, HTTPListen, HTTPServe, HTTPEnd, HTTPGoes
<1>5. ASSUME NEW j \in Instance, SOCKS5Step(j) PROVE Reachable(i)'
  BY <1>5 DEF SOCKS5Step, SOCKS5Listen, SOCKS5Serve, SOCKS5End, SOCKS5Goes
<1>6. ASSUME NEW j \in Instance, Fails(j) PROVE Reachable(i)'
  BY <1>6 DEF Fails, HTTPFails, HTTPGoes, SOCKS5Fails, SOCKS5Goes
<1>7. CASE UNCHANGED vars
  BY <1>7
<1> QED
  BY <1>1, <1>2, <1>3, <1>4, <1>5, <1>6, <1>7 DEF Next, ManagerStep

(***************************************************************************)
(* A stop is lost only in the window before p.listener is assigned.        *)
(***************************************************************************)
THEOREM StopsReachServingHolds == Spec => StopsReachServing
<1> SUFFICES ASSUME NEW i \in Instance
             PROVE  Spec => [](socks[i] = "serving" /\ Listed(i) =>
                                  [](SOCKS5Listening(i) => Listed(i)))
  BY DEF StopsReachServing
<1>1. socks[i] = "serving" /\ Listed(i) => Reachable(i)
  BY DEF Reachable, Listed
<1>2. Reachable(i) => (SOCKS5Listening(i) => Listed(i))
  BY DEF Reachable, SOCKS5Listening
<1>3. TypeOK /\ TableInv /\ [Next]_vars /\ Reachable(i) => Reachable(i)'
  BY ReachableStays
<1> QED
  BY <1>1, <1>2, <1>3, TypeCorrect, TableCorrect, PTL DEF Spec
=============================================================================
