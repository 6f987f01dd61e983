------------------------- MODULE SupervisionProofs -------------------------
(***************************************************************************)
(* Theorems about the supervisor, its workers and the proxies, for any     *)
(* number of modems, addresses and worker incarnations.                    *)
(***************************************************************************)
EXTENDS Supervision, TLAPS

(***************************************************************************)
(* The inductive invariant.                                                *)
(***************************************************************************)
\* Who is registered, removed and cancelled, and where the supervisor is when.
RegistrationInv ==
    /\ \A m \in Modem : Registered(m) =>
          /\ Home[workers[m]] = m
          /\ pc[workers[m]] # "idle"
          /\ workers[m] \notin removed
    /\ \A w \in removed : pc[w] # "idle"
    /\ \A w \in Worker : pc[w] # "idle" /\ w \notin removed =>
          workers[Home[w]] = w \/ (supervisor = "done" /\ pc[w] = "done")
    /\ removing # None => /\ supervisor = "scan"
                          /\ removing \notin detected
                          /\ ~Registered(removing)
                          /\ \E v \in removed : Home[v] = removing
    /\ ~Serving => supervisor = "done"
    /\ supervisor = "done" => \A m \in Modem : ~Registered(m)

\* The state a worker is in at each control point.
ControlInv ==
    \A w \in Worker :
        /\ pc[w] \in {"idle", "init", "reconnect"} => state[w] = "disconnected"
        /\ pc[w] \in {"dial", "verify"} => state[w] = "connecting"
        /\ pc[w] \in {"event", "proxy"} /\ state[w] = "connected" => status[w] # None

\* Before the worker has settled, the proxy is still the one of the old state.
ProxyInv ==
    /\ \A w \in Worker : Tracked(w) =>
          /\ pc[w] \in {"init", "reconnect", "dial", "verify"} => proxies[Home[w]] = None
          /\ pc[w] \in {"event", "proxy"} /\ state[w] # "disconnected" =>
                proxies[Home[w]] = None
          /\ pc[w] \in {"loop", "done"} =>
                (proxies[Home[w]] # None <=> state[w] = "connected")
    /\ \A m \in Modem : (\A w \in Worker : Home[w] = m => pc[w] = "idle") =>
          proxies[m] = None

\* No worker of a registered modem but the registered one can still act.
NoOverlap ==
    \A m \in Modem : Registered(m) =>
        \A v \in Worker : Home[v] = m /\ v # workers[m] => pc[v] \in {"idle", "done"}

\* What scan is about to start a worker for has none that can still act.
ScanInv ==
    \A m \in Modem : supervisor = "scan" /\ m \in detected /\ ~Registered(m) => Drained(m)

\* A registered worker that is past its callbacks and connected has its proxy.
ServedInv ==
    \A m \in Modem :
        /\ Registered(m) /\ Serving
        /\ pc[workers[m]] \in {"loop", "done"}
        /\ state[workers[m]] = "connected"
        => proxies[m] # None

-----------------------------------------------------------------------------
(***************************************************************************)
(* Every variable keeps its type: in particular reconnect never counts     *)
(* beyond the attempt that ended it.                                       *)
(***************************************************************************)
LEMMA TypeStep == ASSUME TypeOK, [Next]_vars PROVE TypeOK'
<1> USE SupervisionAssumption, NoneAssumption
    DEF TypeOK, ModemsTypeOK, RegistryTypeOK, WorkerPC, State, SupervisorPC, MainPC,
        modemVars, workerVars, supervisorVars
<1>1. CASE Environment
  BY <1>1 DEF Environment, ModemsNext, Plug, Unplug, ChangeAddress
<1>2. ASSUME NEW w \in Worker, WorkerStep(w) PROVE TypeOK'
  <2> USE DEF SetState, Resume
  <2>1. CASE InitialConnect(w)
    BY <2>1 DEF InitialConnect
  <2>2. CASE WorkerEvent(w)
    BY <2>2 DEF WorkerEvent, LogStateChange
  <2>3. CASE WorkerProxy(w)
    BY <2>3 DEF WorkerProxy, SwitchProxy, StartProxy, StopProxy
  <2>4. CASE Reconnect(w)
    BY <2>4 DEF Reconnect
  <2>5. CASE DialFails(w)
    BY <2>5 DEF DialFails, AttemptFailed
  <2>6. CASE DialSucceeds(w)
    BY <2>6 DEF DialSucceeds, ConnectModem
  <2>7. CASE ReconnectAborted(w)
    BY <2>7 DEF ReconnectAborted
  <2>8. CASE VerifyConnected(w)
    BY <2>8 DEF VerifyConnected
  <2>9. CASE VerifyFails(w)
    BY <2>9 DEF VerifyFails, AttemptFailed
  <2>10. CASE Poll(w)
    BY <2>10 DEF Poll
  <2>11. CASE LeaveLoop(w)
    BY <2>11 DEF LeaveLoop
  <2> QED
    BY <1>2, <2>1, <2>2, <2>3, <2>4, <2>5, <2>6, <2>7, <2>8, <2>9, <2>10, <2>11
    DEF WorkerStep, Progress, CallbackStep, DialStep, VerifyStep
<1>3. ASSUME NEW w \in Worker, CancelWorker(w) PROVE TypeOK'
  BY <1>3 DEF CancelWorker
<1>4. CASE SupervisorStep
  <2>1. ASSUME NEW D \in SUBSET Modem, Detect(D) PROVE TypeOK'
    BY <2>1 DEF Detect
  <2>2. ASSUME NEW m \in Modem, NEW w \in Worker, StartWorker(m, w) PROVE TypeOK'
    BY <2>2 DEF StartWorker
  <2>3. ASSUME NEW m \in Modem, RemoveWorker(m) PROVE TypeOK'
    BY <2>3 DEF RemoveWorker, Registered, LogStateChange
  <2>4. CASE FinishRemoval
    BY <2>4 DEF FinishRemoval, SwitchProxy, StopProxy, StartProxy
  <2>5. CASE EndScan
    BY <2>5 DEF EndScan
  <2>6. CASE StopAllWorkers
    BY <2>6 DEF StopAllWorkers
  <2>7. CASE WorkersStopped
    BY <2>7 DEF WorkersStopped
  <2> QED
    BY <1>4, <2>1, <2>2, <2>3, <2>4, <2>5, <2>6, <2>7 DEF SupervisorStep, ScanStep
<1>5. CASE MainStep
  BY <1>5 DEF MainStep, Terminate, StopAllProxies, StopAll, Exit
<1>6. CASE Exited \/ UNCHANGED vars
  BY <1>6 DEF Exited, vars
<1> QED
  BY <1>1, <1>2, <1>3, <1>4, <1>5, <1>6 DEF Next

\* The types are right at the start.
LEMMA TypeInit == Init => TypeOK
  BY SupervisionAssumption, NoneAssumption
  DEF Init, ModemsInit, RegistryInit, TypeOK, ModemsTypeOK, RegistryTypeOK,
      WorkerPC, State, SupervisorPC, MainPC

\* TypeOK is an invariant.
THEOREM TypeCorrect == Spec => []TypeOK
<1>1. TypeOK /\ [Next]_vars => TypeOK'
  BY TypeStep
<1> QED
  BY TypeInit, <1>1, PTL DEF Spec

-----------------------------------------------------------------------------
(***************************************************************************)
(* What a step of worker w can touch: its own control point and state, and *)
(* the proxy and the event row of its modem.                               *)
(***************************************************************************)
LEMMA WorkerStepFrame ==
    ASSUME TypeOK, NEW w \in Worker, WorkerStep(w)
    PROVE  /\ UNCHANGED <<supervisorVars, main>>
           /\ pc[w] \notin {"idle", "done"}
           /\ pc'[w] # "idle"
           /\ \A v \in Worker : v # w => /\ pc'[v] = pc[v]
                                         /\ state'[v] = state[v]
                                         /\ status'[v] = status[v]
           /\ \A m \in Modem : m # Home[w] => /\ proxies'[m] = proxies[m]
                                              /\ lastEvent'[m] = lastEvent[m]
<1> USE SupervisionAssumption
    DEF TypeOK, ModemsTypeOK, RegistryTypeOK, SetState, Resume, WorkerPC, supervisorVars
<1>1. CASE InitialConnect(w)
  BY <1>1 DEF InitialConnect
<1>2. CASE WorkerEvent(w)
  BY <1>2 DEF WorkerEvent, LogStateChange
<1>3. CASE WorkerProxy(w)
  BY <1>3 DEF WorkerProxy, SwitchProxy, StartProxy, StopProxy
<1>4. CASE Reconnect(w)
  BY <1>4 DEF Reconnect
<1>5. CASE DialStep(w)
  BY <1>5 DEF DialStep, DialFails, DialSucceeds, ReconnectAborted, AttemptFailed
<1>6. CASE VerifyStep(w)
  BY <1>6 DEF VerifyStep, VerifyConnected, VerifyFails, AttemptFailed
<1>7. CASE Poll(w)
  BY <1>7 DEF Poll
<1>8. CASE LeaveLoop(w)
  BY <1>8 DEF LeaveLoop
<1> QED
  BY WorkerStep(w), <1>1, <1>2, <1>3, <1>4, <1>5, <1>6, <1>7, <1>8
  DEF WorkerStep, Progress, CallbackStep

(***************************************************************************)
(* The steps that are nobody's worker step leave the workers alone, except *)
(* that StartWorker wakes one.                                             *)
(***************************************************************************)
LEMMA OtherStepFrame ==
    ASSUME TypeOK, [Next]_vars, \A w \in Worker : ~WorkerStep(w)
    PROVE  \/ \E m \in Modem, w \in Worker : StartWorker(m, w)
           \/ UNCHANGED workerVars
  BY DEF Next, Environment, CancelWorker, SupervisorStep, Detect, ScanStep,
         RemoveWorker, FinishRemoval, EndScan, StopAllWorkers, WorkersStopped,
         MainStep, Terminate, StopAllProxies, Exit, Exited, vars, workerVars

(***************************************************************************)
(* A worker is registered under its own modem until the supervisor removes *)
(* it or has drained it, and a removal is always under way for a modem     *)
(* that has a removed worker and no registered one.                        *)
(***************************************************************************)
THEOREM RegistrationCorrect == Spec => []RegistrationInv
<1> USE SupervisionAssumption, NoneAssumption DEF RegistrationInv, Registered, Serving
<1>1. Init => RegistrationInv
  BY DEF Init
<1>2. TypeOK /\ RegistrationInv /\ [Next]_vars => RegistrationInv'
  <2> SUFFICES ASSUME TypeOK, RegistrationInv, [Next]_vars PROVE RegistrationInv'
    OBVIOUS
  <2> USE DEF TypeOK, ModemsTypeOK, RegistryTypeOK, supervisorVars, workerVars, modemVars
  <2>1. ASSUME NEW w \in Worker, WorkerStep(w) PROVE RegistrationInv'
    BY <2>1, WorkerStepFrame
  <2>2. CASE Environment
    BY <2>2 DEF Environment
  <2>3. ASSUME NEW w \in Worker, CancelWorker(w) PROVE RegistrationInv'
    BY <2>3 DEF CancelWorker
  <2>4. CASE SupervisorStep
    <3>1. ASSUME NEW D \in SUBSET Modem, Detect(D) PROVE RegistrationInv'
      BY <3>1 DEF Detect
    <3>2. ASSUME NEW m \in Modem, NEW w \in Worker, StartWorker(m, w)
          PROVE RegistrationInv'
      BY <3>2 DEF StartWorker, Fresh
    <3>3. ASSUME NEW m \in Modem, RemoveWorker(m) PROVE RegistrationInv'
      BY <3>3 DEF RemoveWorker
    <3>4. CASE FinishRemoval
      BY <3>4 DEF FinishRemoval
    <3>5. CASE EndScan
      BY <3>5 DEF EndScan
    <3>6. CASE StopAllWorkers
      BY <3>6 DEF StopAllWorkers
    <3>7. CASE WorkersStopped
      BY <3>7 DEF WorkersStopped
    <3> QED
      BY <2>4, <3>1, <3>2, <3>3, <3>4, <3>5, <3>6, <3>7 DEF SupervisorStep, ScanStep
  <2>5. CASE MainStep
    BY <2>5 DEF MainStep, Terminate, StopAllProxies, Exit
  <2>6. CASE Exited \/ UNCHANGED vars
    BY <2>6 DEF Exited, vars
  <2> QED
    BY <2>1, <2>2, <2>3, <2>4, <2>5, <2>6 DEF Next
<1> QED
  BY <1>1, <1>2, TypeCorrect, PTL DEF Spec

(***************************************************************************)
(* The state a worker holds at each of its control points.                 *)
(***************************************************************************)
THEOREM ControlCorrect == Spec => []ControlInv
<1> USE SupervisionAssumption, NoneAssumption DEF ControlInv
<1>1. Init => ControlInv
  BY DEF Init
<1>2. TypeOK /\ ControlInv /\ [Next]_vars => ControlInv'
  <2> SUFFICES ASSUME TypeOK, ControlInv, [Next]_vars PROVE ControlInv'
    OBVIOUS
  <2> USE DEF TypeOK, ModemsTypeOK, RegistryTypeOK, workerVars
  <2>1. ASSUME NEW w \in Worker, WorkerStep(w) PROVE ControlInv'
    <3> USE DEF SetState, Resume
    <3>1. CASE InitialConnect(w)
      BY <3>1 DEF InitialConnect
    <3>2. CASE WorkerEvent(w)
      BY <3>2 DEF WorkerEvent
    <3>3. CASE WorkerProxy(w)
      BY <3>3 DEF WorkerProxy
    <3>4. CASE Reconnect(w)
      BY <3>4 DEF Reconnect
    <3>5. CASE DialFails(w)
      BY <3>5 DEF DialFails, AttemptFailed
    <3>6. CASE DialSucceeds(w) \/ ReconnectAborted(w)
      BY <3>6 DEF DialSucceeds, ReconnectAborted
    <3>7. CASE VerifyConnected(w)
      BY <3>7 DEF VerifyConnected
    <3>8. CASE VerifyFails(w)
      BY <3>8 DEF VerifyFails, AttemptFailed
    <3>9. CASE Poll(w)
      BY <3>9 DEF Poll
    <3>10. CASE LeaveLoop(w)
      BY <3>10 DEF LeaveLoop
    <3> QED
      BY <2>1, <3>1, <3>2, <3>3, <3>4, <3>5, <3>6, <3>7, <3>8, <3>9, <3>10
      DEF WorkerStep, Progress, CallbackStep, DialStep, VerifyStep
  <2>2. ASSUME NEW m \in Modem, NEW w \in Worker, StartWorker(m, w) PROVE ControlInv'
    BY <2>2 DEF StartWorker, Fresh
  <2>3. CASE UNCHANGED workerVars
    BY <2>3
  <2> QED
    BY <2>1, <2>2, <2>3, OtherStepFrame
<1> QED
  BY <1>1, <1>2, TypeCorrect, PTL DEF Spec

-----------------------------------------------------------------------------
(***************************************************************************)
(* Only the one worker of a modem, or the removal of it, has ever switched *)
(* its proxy, so the proxy is where the worker's last callback left it.    *)
(***************************************************************************)
THEOREM ProxyInvCorrect == Spec => []ProxyInv
<1> USE SupervisionAssumption, NoneAssumption DEF ProxyInv, Tracked, Undisturbed, Serving
<1>1. Init => ProxyInv
  BY DEF Init, RegistryInit
<1>2. TypeOK /\ RegistrationInv /\ ControlInv /\ ProxyInv /\ [Next]_vars => ProxyInv'
  <2> SUFFICES ASSUME TypeOK, RegistrationInv, ControlInv, ProxyInv, [Next]_vars
               PROVE  ProxyInv'
    OBVIOUS
  <2> USE DEF TypeOK, ModemsTypeOK, RegistryTypeOK, modemVars, supervisorVars, workerVars
  <2>1. ASSUME NEW w \in Worker, WorkerStep(w) PROVE ProxyInv'
    <3>1. UNCHANGED <<removed, main>>
      BY <2>1, WorkerStepFrame DEF supervisorVars
    <3>2. \A v \in Worker : v # w => (pc'[v] = pc[v] /\ state'[v] = state[v])
      BY <2>1, WorkerStepFrame
    <3>3. \A m \in Modem : m # Home[w] => proxies'[m] = proxies[m]
      BY <2>1, WorkerStepFrame
    <3>4. pc[w] # "idle" /\ pc'[w] # "idle"
      BY <2>1, WorkerStepFrame
    <3>5. Tracked(w)' => Tracked(w)
      BY <3>1, <3>2, <3>4
    <3>6. ASSUME Tracked(w)
          PROVE  /\ pc'[w] \in {"init", "reconnect", "dial", "verify"} =>
                       proxies'[Home[w]] = None
                 /\ pc'[w] \in {"event", "proxy"} /\ state'[w] # "disconnected" =>
                       proxies'[Home[w]] = None
                 /\ pc'[w] \in {"loop", "done"} =>
                       (proxies'[Home[w]] # None <=> state'[w] = "connected")
      <4> USE <3>6 DEF SetState, Resume, ControlInv
      <4>1. CASE InitialConnect(w)
        BY <4>1 DEF InitialConnect
      <4>2. CASE WorkerEvent(w)
        BY <4>2 DEF WorkerEvent
      <4>3. CASE WorkerProxy(w)
        BY <4>3 DEF WorkerProxy, SwitchProxy, StartProxy, StopProxy, State
      <4>4. CASE Reconnect(w)
        BY <4>4 DEF Reconnect
      <4>5. CASE DialFails(w)
        BY <4>5 DEF DialFails, AttemptFailed
      <4>6. CASE DialSucceeds(w) \/ ReconnectAborted(w)
        BY <4>6 DEF DialSucceeds, ReconnectAborted
      <4>7. CASE VerifyConnected(w)
        BY <4>7 DEF VerifyConnected
      <4>8. CASE VerifyFails(w)
        BY <4>8 DEF VerifyFails, AttemptFailed
      <4>9. CASE Poll(w)
        BY <4>9 DEF Poll
      <4>10. CASE LeaveLoop(w)
        BY <4>10 DEF LeaveLoop
      <4> QED
        BY <2>1, <4>1, <4>2, <4>3, <4>4, <4>5, <4>6, <4>7, <4>8, <4>9, <4>10
        DEF WorkerStep, Progress, CallbackStep, DialStep, VerifyStep
    <3>7. ASSUME NEW v \in Worker, v # w, Tracked(v)'
          PROVE  Tracked(v) /\ Home[v] # Home[w]
      BY <3>1, <3>2, <3>4, <3>7
    <3> QED
      BY <3>2, <3>3, <3>4, <3>5, <3>6, <3>7
  <2>2. CASE Environment
    BY <2>2 DEF Environment
  <2>3. ASSUME NEW w \in Worker, CancelWorker(w) PROVE ProxyInv'
    BY <2>3 DEF CancelWorker
  <2>4. CASE SupervisorStep
    <3> USE DEF RegistrationInv, Registered
    <3>1. ASSUME NEW D \in SUBSET Modem, Detect(D) PROVE ProxyInv'
      BY <3>1 DEF Detect
    <3>2. ASSUME NEW m \in Modem, NEW w \in Worker, StartWorker(m, w) PROVE ProxyInv'
      BY <3>2 DEF StartWorker, Fresh
    <3>3. ASSUME NEW m \in Modem, RemoveWorker(m) PROVE ProxyInv'
      BY <3>3 DEF RemoveWorker
    <3>4. CASE FinishRemoval
      BY <3>4 DEF FinishRemoval, SwitchProxy, StopProxy
    <3>5. CASE EndScan
      BY <3>5 DEF EndScan
    <3>6. CASE StopAllWorkers
      BY <3>6 DEF StopAllWorkers
    <3>7. CASE WorkersStopped
      BY <3>7 DEF WorkersStopped
    <3> QED
      BY <2>4, <3>1, <3>2, <3>3, <3>4, <3>5, <3>6, <3>7 DEF SupervisorStep, ScanStep
  <2>5. CASE MainStep
    BY <2>5 DEF MainStep, Terminate, StopAllProxies, StopAll, Exit
  <2>6. CASE Exited \/ UNCHANGED vars
    BY <2>6 DEF Exited, vars
  <2> QED
    BY <2>1, <2>2, <2>3, <2>4, <2>5, <2>6 DEF Next
<1> QED
  BY <1>1, <1>2, TypeCorrect, RegistrationCorrect, ControlCorrect, PTL DEF Spec

(***************************************************************************)
(* A settled worker and the proxy manager agree (cmdServe's onStateChange),*)
(* and a worker that connects finds no proxy of its modem left.            *)
(***************************************************************************)
THEOREM ProxyFollowsStateHolds == Spec => []ProxyFollowsState
<1>1. TypeOK /\ ControlInv /\ ProxyInv => ProxyFollowsState
  BY DEF TypeOK, WorkerPC, ControlInv, ProxyInv, ProxyFollowsState, Tracked, Settled
<1> QED
  BY <1>1, TypeCorrect, ControlCorrect, ProxyInvCorrect, PTL

(***************************************************************************)
(* So the proxy that the callback of a connection leaves behind dials from *)
(* the address the worker has just read, and from no older one.            *)
(***************************************************************************)
ConnectedProxyIsNew ==
    [][\A w \in Worker :
          Tracked(w) /\ state[w] = "connected" /\ WorkerProxy(w) =>
              proxies'[Home[w]] = status[w]]_vars

THEOREM ConnectedProxyIsNewHolds == Spec => ConnectedProxyIsNew
<1>1. TypeOK /\ ControlInv /\ ProxyFollowsState /\ [Next]_vars =>
        [\A w \in Worker :
            Tracked(w) /\ state[w] = "connected" /\ WorkerProxy(w) =>
                proxies'[Home[w]] = status[w]]_vars
  <2> SUFFICES ASSUME TypeOK, ControlInv, ProxyFollowsState, NEW w \in Worker,
                      Tracked(w), state[w] = "connected", WorkerProxy(w)
               PROVE  proxies'[Home[w]] = status[w]
    OBVIOUS
  <2>1. pc[w] = "proxy" /\ status[w] # None
    BY DEF WorkerProxy, ControlInv
  <2>2. proxies[Home[w]] = None
    BY <2>1 DEF ProxyFollowsState, Settled
  <2> QED
    BY <2>1, <2>2, SupervisionAssumption
    DEF WorkerProxy, SwitchProxy, StartProxy, TypeOK, RegistryTypeOK
<1> QED
  BY <1>1, TypeCorrect, ControlCorrect, ProxyFollowsStateHolds, PTL
  DEF Spec, ConnectedProxyIsNew

(***************************************************************************)
(* The event log names the state of the worker that wrote it.              *)
(***************************************************************************)
THEOREM EventLogFollowsStateHolds == Spec => []EventLogFollowsState
<1> USE SupervisionAssumption, NoneAssumption
    DEF EventLogFollowsState, Tracked, Undisturbed, Serving
<1>1. Init => EventLogFollowsState
  BY DEF Init
<1>2. /\ TypeOK /\ RegistrationInv /\ ControlInv
      /\ EventLogFollowsState /\ [Next]_vars
      => EventLogFollowsState'
  <2> SUFFICES ASSUME TypeOK, RegistrationInv, ControlInv, EventLogFollowsState,
                      [Next]_vars
               PROVE  EventLogFollowsState'
    OBVIOUS
  <2> USE DEF TypeOK, ModemsTypeOK, RegistryTypeOK, modemVars, supervisorVars, workerVars
  <2>1. ASSUME NEW w \in Worker, WorkerStep(w) PROVE EventLogFollowsState'
    <3>1. UNCHANGED <<removed, main>>
      BY <2>1, WorkerStepFrame DEF supervisorVars
    <3>2. \A v \in Worker : v # w => (pc'[v] = pc[v] /\ state'[v] = state[v])
      BY <2>1, WorkerStepFrame
    <3>3. \A m \in Modem : m # Home[w] => lastEvent'[m] = lastEvent[m]
      BY <2>1, WorkerStepFrame
    <3>4. pc[w] # "idle" /\ pc'[w] # "idle"
      BY <2>1, WorkerStepFrame
    <3>5. Tracked(w)' => Tracked(w)
      BY <3>1, <3>2, <3>4
    <3>6. ASSUME Tracked(w), main = "serving", pc'[w] \notin {"init", "event"}
          PROVE  lastEvent'[Home[w]] = state'[w]
      <4> USE <3>6 DEF SetState, Resume, ControlInv
      <4>1. CASE InitialConnect(w)
        BY <4>1 DEF InitialConnect
      <4>2. CASE WorkerEvent(w)
        BY <4>2 DEF WorkerEvent, LogStateChange, Sigterm
      <4>3. CASE WorkerProxy(w)
        BY <4>3 DEF WorkerProxy
      <4>4. CASE Reconnect(w)
        BY <4>4 DEF Reconnect
      <4>5. CASE DialFails(w)
        BY <4>5 DEF DialFails, AttemptFailed
      <4>6. CASE DialSucceeds(w) \/ ReconnectAborted(w)
        BY <4>6 DEF DialSucceeds, ReconnectAborted
      <4>7. CASE VerifyConnected(w)
        BY <4>7 DEF VerifyConnected
      <4>8. CASE VerifyFails(w)
        BY <4>8 DEF VerifyFails, AttemptFailed
      <4>9. CASE Poll(w)
        BY <4>9 DEF Poll
      <4>10. CASE LeaveLoop(w)
        BY <4>10 DEF LeaveLoop
      <4> QED
        BY <2>1, <4>1, <4>2, <4>3, <4>4, <4>5, <4>6, <4>7, <4>8, <4>9, <4>10
        DEF WorkerStep, Progress, CallbackStep, DialStep, VerifyStep
    <3>7. ASSUME NEW v \in Worker, v # w, Tracked(v)'
          PROVE  Tracked(v) /\ Home[v] # Home[w]
      BY <3>1, <3>2, <3>4, <3>7
    <3> QED
      BY <3>1, <3>2, <3>3, <3>4, <3>5, <3>6, <3>7
  <2>2. ASSUME NEW m \in Modem, RemoveWorker(m) PROVE EventLogFollowsState'
    BY <2>2 DEF RemoveWorker, LogStateChange, RegistrationInv, Registered
  <2>3. ASSUME NEW m \in Modem, NEW w \in Worker, StartWorker(m, w)
        PROVE  EventLogFollowsState'
    BY <2>3 DEF StartWorker, Fresh
  <2>4. ASSUME /\ \A w \in Worker : ~WorkerStep(w)
               /\ \A m \in Modem : ~RemoveWorker(m)
               /\ \A m \in Modem, w \in Worker : ~StartWorker(m, w)
        PROVE  EventLogFollowsState'
    <3>1. UNCHANGED <<workerVars, lastEvent, removed>> /\ (main' = "serving" => main = "serving")
      BY <2>4 DEF Next, Environment, CancelWorker, SupervisorStep, Detect, ScanStep,
                  FinishRemoval, EndScan, StopAllWorkers, WorkersStopped, MainStep,
                  Terminate, StopAllProxies, Exit, Exited, vars
    <3> QED
      BY <3>1
  <2> QED
    BY <2>1, <2>2, <2>3, <2>4
<1> QED
  BY <1>1, <1>2, TypeCorrect, RegistrationCorrect, ControlCorrect, PTL DEF Spec

-----------------------------------------------------------------------------
(***************************************************************************)
(* A modem whose removed worker is done before it is listed again never    *)
(* has two workers that can act.                                           *)
(***************************************************************************)
THEOREM PromptDrainPreventsOverlap ==
    ASSUME PromptDrain PROVE Spec => []NoOverlap
<1> USE SupervisionAssumption, NoneAssumption DEF ScanInv, NoOverlap, Drained, Registered
<1>1. Init => ScanInv /\ NoOverlap
  BY DEF Init
<1>2. TypeOK /\ RegistrationInv /\ ScanInv /\ NoOverlap /\ [Next]_vars
      => ScanInv' /\ NoOverlap'
  <2> SUFFICES ASSUME TypeOK, RegistrationInv, ScanInv, NoOverlap, [Next]_vars
               PROVE  ScanInv' /\ NoOverlap'
    OBVIOUS
  <2> USE DEF TypeOK, ModemsTypeOK, RegistryTypeOK, modemVars, supervisorVars,
              workerVars, RegistrationInv, Serving
  <2>1. ASSUME NEW w \in Worker, WorkerStep(w) PROVE ScanInv' /\ NoOverlap'
    <3>1. UNCHANGED <<workers, supervisor, detected>>
      BY <2>1, WorkerStepFrame DEF supervisorVars
    <3>2. \A v \in Worker : v # w => pc'[v] = pc[v]
      BY <2>1, WorkerStepFrame
    <3>3. pc[w] \notin {"idle", "done"} /\ pc'[w] # "idle"
      BY <2>1, WorkerStepFrame
    <3> QED
      BY <3>1, <3>2, <3>3
  <2>2. CASE Environment
    BY <2>2 DEF Environment
  <2>3. ASSUME NEW w \in Worker, CancelWorker(w) PROVE ScanInv' /\ NoOverlap'
    BY <2>3 DEF CancelWorker
  <2>4. CASE SupervisorStep
    <3>1. ASSUME NEW D \in SUBSET Modem, Detect(D) PROVE ScanInv' /\ NoOverlap'
      BY <3>1 DEF Detect
    <3>2. ASSUME NEW m \in Modem, NEW w \in Worker, StartWorker(m, w)
          PROVE  ScanInv' /\ NoOverlap'
      BY <3>2 DEF StartWorker, Fresh
    <3>3. ASSUME NEW m \in Modem, RemoveWorker(m) PROVE ScanInv' /\ NoOverlap'
      BY <3>3 DEF RemoveWorker
    <3>4. CASE FinishRemoval
      BY <3>4 DEF FinishRemoval
    <3>5. CASE EndScan
      BY <3>5 DEF EndScan
    <3>6. CASE StopAllWorkers
      BY <3>6 DEF StopAllWorkers
    <3>7. CASE WorkersStopped
      BY <3>7 DEF WorkersStopped
    <3> QED
      BY <2>4, <3>1, <3>2, <3>3, <3>4, <3>5, <3>6, <3>7 DEF SupervisorStep, ScanStep
  <2>5. CASE MainStep
    BY <2>5 DEF MainStep, Terminate, StopAllProxies, Exit
  <2>6. CASE Exited \/ UNCHANGED vars
    BY <2>6 DEF Exited, vars
  <2> QED
    BY <2>1, <2>2, <2>3, <2>4, <2>5, <2>6 DEF Next
<1> QED
  BY <1>1, <1>2, TypeCorrect, RegistrationCorrect, PTL DEF Spec

(***************************************************************************)
(* As long as the workers of one modem do not overlap, a registered worker *)
(* keeps the proxy it started: every other stop of it comes with a removal.*)
(***************************************************************************)
LEMMA ServedStep ==
    ASSUME TypeOK, RegistrationInv, ControlInv, NoOverlap, ServedInv, [Next]_vars
    PROVE  ServedInv'
<1> USE SupervisionAssumption, NoneAssumption
    DEF ServedInv, NoOverlap, Serving, Registered,
        TypeOK, ModemsTypeOK, RegistryTypeOK, modemVars, supervisorVars, workerVars,
        RegistrationInv
<1>1. ASSUME NEW w \in Worker, WorkerStep(w) PROVE ServedInv'
  <2>1. UNCHANGED <<workers, main>>
    BY <1>1, WorkerStepFrame DEF supervisorVars
  <2>2. \A v \in Worker : v # w => (pc'[v] = pc[v] /\ state'[v] = state[v])
    BY <1>1, WorkerStepFrame
  <2>3. \A m \in Modem : m # Home[w] => proxies'[m] = proxies[m]
    BY <1>1, WorkerStepFrame
  <2>4. pc[w] \notin {"idle", "done"}
    BY <1>1, WorkerStepFrame
  <2>5. ASSUME /\ pc'[w] \in {"loop", "done"} /\ state'[w] = "connected"
               /\ pc[w] \in {"loop", "done"} /\ state[w] = "connected" =>
                     proxies[Home[w]] # None
        PROVE  proxies'[Home[w]] # None
    <3> USE <2>5 DEF SetState, Resume, ControlInv
    <3>1. CASE InitialConnect(w)
      BY <3>1 DEF InitialConnect
    <3>2. CASE WorkerEvent(w)
      BY <3>2 DEF WorkerEvent
    <3>3. CASE WorkerProxy(w)
      BY <3>3 DEF WorkerProxy, SwitchProxy, StartProxy, StopProxy
    <3>4. CASE Reconnect(w)
      BY <3>4 DEF Reconnect
    <3>5. CASE DialFails(w)
      BY <3>5 DEF DialFails, AttemptFailed
    <3>6. CASE DialSucceeds(w) \/ ReconnectAborted(w)
      BY <3>6 DEF DialSucceeds, ReconnectAborted
    <3>7. CASE VerifyConnected(w)
      BY <3>7 DEF VerifyConnected
    <3>8. CASE VerifyFails(w)
      BY <3>8 DEF VerifyFails, AttemptFailed
    <3>9. CASE Poll(w)
      BY <3>9 DEF Poll
    <3>10. CASE LeaveLoop(w)
      BY <3>10 DEF LeaveLoop
    <3> QED
      BY <1>1, <3>1, <3>2, <3>3, <3>4, <3>5, <3>6, <3>7, <3>8, <3>9, <3>10
      DEF WorkerStep, Progress, CallbackStep, DialStep, VerifyStep
  <2>6. \A m \in Modem : Registered(m) /\ Home[w] = m => workers[m] = w
    BY <2>4
  <2> QED
    BY <2>1, <2>2, <2>3, <2>5, <2>6
<1>2. CASE Environment
  BY <1>2 DEF Environment
<1>3. ASSUME NEW w \in Worker, CancelWorker(w) PROVE ServedInv'
  BY <1>3 DEF CancelWorker
<1>4. CASE SupervisorStep
  <2>1. ASSUME NEW D \in SUBSET Modem, Detect(D) PROVE ServedInv'
    BY <2>1 DEF Detect
  <2>2. ASSUME NEW m \in Modem, NEW w \in Worker, StartWorker(m, w)
        PROVE  ServedInv'
    BY <2>2 DEF StartWorker, Fresh
  <2>3. ASSUME NEW m \in Modem, RemoveWorker(m) PROVE ServedInv'
    BY <2>3 DEF RemoveWorker
  <2>4. CASE FinishRemoval
    BY <2>4 DEF FinishRemoval, SwitchProxy, StopProxy
  <2>5. CASE EndScan
    BY <2>5 DEF EndScan
  <2>6. CASE StopAllWorkers
    BY <2>6 DEF StopAllWorkers
  <2>7. CASE WorkersStopped
    BY <2>7 DEF WorkersStopped
  <2> QED
    BY <1>4, <2>1, <2>2, <2>3, <2>4, <2>5, <2>6, <2>7 DEF SupervisorStep, ScanStep
<1>5. CASE MainStep
  BY <1>5 DEF MainStep, Terminate, StopAllProxies, Exit
<1>6. CASE Exited \/ UNCHANGED vars
  BY <1>6 DEF Exited, vars
<1> QED
  BY <1>1, <1>2, <1>3, <1>4, <1>5, <1>6 DEF Next

(***************************************************************************)
(* A registered worker in its loop that says connected has a proxy, unless *)
(* a removed worker of its modem is still active beside it: the overlap is *)
(* the only way to lose a proxy, whatever the timing.                      *)
(***************************************************************************)
THEOREM ServedWithoutOverlap == Spec /\ []NoOverlap => []ConnectedIsServed
<1>1. Init => ServedInv
  BY DEF Init, ServedInv, Registered
<1>2. /\ TypeOK /\ RegistrationInv /\ ControlInv
      /\ NoOverlap /\ ServedInv /\ [Next]_vars
      => ServedInv'
  BY ServedStep
<1>3. ServedInv => ConnectedIsServed
  BY DEF ServedInv, ConnectedIsServed
<1> QED
  BY <1>1, <1>2, <1>3, TypeCorrect, RegistrationCorrect, ControlCorrect, PTL DEF Spec

(***************************************************************************)
(* So with workers that drain in time it always has one.                   *)
(***************************************************************************)
THEOREM ConnectedIsServedHolds ==
    ASSUME PromptDrain PROVE Spec => []ConnectedIsServed
<1>1. Spec => []NoOverlap
  BY PromptDrainPreventsOverlap
<1> QED
  BY <1>1, ServedWithoutOverlap, PTL

(***************************************************************************)
(* After StopAll only a worker the supervisor had removed can start a      *)
(* proxy: the workers it drained are done.                                 *)
(***************************************************************************)
THEOREM OnlyOrphansSurvive == Spec => []OnlyOrphansSurviveShutdown
<1> USE SupervisionAssumption, NoneAssumption DEF OnlyOrphansSurviveShutdown
<1>1. Init => OnlyOrphansSurviveShutdown
  BY DEF Init
<1>2. TypeOK /\ RegistrationInv /\ OnlyOrphansSurviveShutdown /\ [Next]_vars
      => OnlyOrphansSurviveShutdown'
  <2> SUFFICES ASSUME TypeOK, RegistrationInv, OnlyOrphansSurviveShutdown, [Next]_vars
               PROVE  OnlyOrphansSurviveShutdown'
    OBVIOUS
  <2> USE DEF TypeOK, ModemsTypeOK, RegistryTypeOK, modemVars, supervisorVars,
              workerVars, RegistrationInv, Registered, Serving
  <2>1. ASSUME NEW w \in Worker, WorkerStep(w) PROVE OnlyOrphansSurviveShutdown'
    <3>1. UNCHANGED <<removed, main>> /\ pc[w] \notin {"idle", "done"}
      BY <2>1, WorkerStepFrame
    <3>2. \A m \in Modem : m # Home[w] => proxies'[m] = proxies[m]
      BY <2>1, WorkerStepFrame
    <3>3. ~Serving => w \in removed
      BY <3>1
    <3> QED
      BY <3>1, <3>2, <3>3
  <2>2. CASE MainStep
    BY <2>2 DEF MainStep, Terminate, StopAllProxies, StopAll, Exit
  <2>3. ASSUME ~MainStep, \A w \in Worker : ~WorkerStep(w)
        PROVE  OnlyOrphansSurviveShutdown'
    <3>1. main' = main /\ removed \subseteq removed' /\
          (proxies' = proxies \/ FinishRemoval)
      BY <2>3 DEF Next, Environment, CancelWorker, SupervisorStep, Detect, ScanStep,
                  StartWorker, RemoveWorker, FinishRemoval, EndScan, StopAllWorkers,
                  WorkersStopped, Exited, vars
    <3> QED
      BY <3>1 DEF FinishRemoval
  <2> QED
    BY <2>1, <2>2, <2>3
<1> QED
  BY <1>1, <1>2, TypeCorrect, RegistrationCorrect, PTL DEF Spec

(***************************************************************************)
(* The workers implement the modem state machine: every step of the        *)
(* program is one change it allows, or leaves all states alone.            *)
(***************************************************************************)
THEOREM FollowsStateMachineHolds == Spec => FollowsStateMachine
<1> USE SupervisionAssumption
    DEF StateMachine!Next, StateMachine!Dial, StateMachine!Up, StateMachine!Lose,
        StateMachine!Fail, StateMachine!Change
<1>1. Init => StateMachine!Init
  BY DEF Init, StateMachine!Init
<1>2. TypeOK /\ ControlInv /\ [Next]_vars => [StateMachine!Next]_state
  <2> SUFFICES ASSUME TypeOK, ControlInv, [Next]_vars PROVE [StateMachine!Next]_state
    OBVIOUS
  <2> USE DEF TypeOK, ModemsTypeOK, State, SetState, ControlInv, workerVars
  <2>1. ASSUME NEW w \in Worker, WorkerStep(w) PROVE [StateMachine!Next]_state
    <3>1. CASE InitialConnect(w)
      BY <3>1 DEF InitialConnect
    <3>2. CASE CallbackStep(w)
      BY <3>2 DEF CallbackStep, WorkerEvent, WorkerProxy
    <3>3. CASE Reconnect(w)
      BY <3>3 DEF Reconnect
    <3>4. CASE DialStep(w)
      BY <3>4 DEF DialStep, DialFails, DialSucceeds, ReconnectAborted, AttemptFailed
    <3>5. CASE VerifyStep(w)
      BY <3>5 DEF VerifyStep, VerifyConnected, VerifyFails, AttemptFailed
    <3>6. CASE Poll(w)
      BY <3>6 DEF Poll
    <3>7. CASE LeaveLoop(w)
      BY <3>7 DEF LeaveLoop
    <3> QED
      BY <2>1, <3>1, <3>2, <3>3, <3>4, <3>5, <3>6, <3>7 DEF WorkerStep, Progress
  <2>2. ASSUME NEW m \in Modem, NEW w \in Worker, StartWorker(m, w)
        PROVE  UNCHANGED state
    BY <2>2 DEF StartWorker
  <2> QED
    BY <2>1, <2>2, OtherStepFrame
<1> QED
  BY <1>1, <1>2, TypeCorrect, ControlCorrect, PTL
  DEF Spec, FollowsStateMachine, StateMachine!Spec
=============================================================================
