---------------------------- MODULE Supervision ----------------------------
(***************************************************************************)
(* The supervisor goroutine, its one worker goroutine per modem, and the   *)
(* state-change callback that starts and stops the proxies                 *)
(* (internal/modem/supervisor.go, internal/modem/worker.go and cmdServe of *)
(* cmd/modemux/main.go).                                                   *)
(*                                                                         *)
(* A Worker is one incarnation of a worker goroutine.  The supervisor may  *)
(* start a new one for an index whose previous worker was removed but is   *)
(* still running, because scan does `go w.Stop()` and does not wait.       *)
(*                                                                         *)
(* Grain of atomicity: a controller call together with the assignments     *)
(* that follow it up to the next call (nobody else reads what they write), *)
(* each database write, and each proxy operation are steps of their own.   *)
(* A call to the controller may succeed after its context is done: it may  *)
(* have begun before, and the mock controller never looks at its context.  *)
(* server.Shutdown, which cmdServe calls before supervisor.Stop, is        *)
(* assumed to return.                                                      *)
(***************************************************************************)
EXTENDS Modems, ProxyRegistry, Naturals, FiniteSets

CONSTANTS
    Worker,         \* worker incarnations (a bound on how many may be started)
    Home,           \* Home[w] is the index the incarnation w serves
    MaxRetries,     \* maxRetries of reconnect (3)
    PromptDrain     \* timing: a removed worker has finished before its
                    \* modem is scanned in again

ASSUME SupervisionAssumption ==
    /\ None \notin Worker
    /\ Home \in [Worker -> Modem]
    /\ MaxRetries \in Nat \ {0}
    /\ PromptDrain \in BOOLEAN

VARIABLES
    \* Supervisor
    workers,        \* Supervisor.workers: modem -> registered worker, or None
    supervisor,     \* control point of Supervisor.run
    detected,       \* the modem list scan got from Detect
    removing,       \* the modem whose removal callback is under way, or None
    removed,        \* workers handed to a `go w.Stop()`
    cancelled,      \* workers whose context that goroutine has cancelled
    \* Worker
    pc,             \* control point of Worker.run
    state,          \* Worker.state
    status,         \* Worker.status: the address of the last Status answer
    attempt,        \* loop variable of reconnect; 0 in initialConnect
    \* cmdServe and the store
    main,           \* control point of cmdServe
    lastEvent       \* modem -> new state named by its newest state_change row

supervisorVars == <<workers, supervisor, detected, removing, removed, cancelled>>
workerVars == <<pc, state, status, attempt>>
vars == <<modemVars, proxies, supervisorVars, workerVars, main, lastEvent>>

-----------------------------------------------------------------------------
State == {"disconnected", "connecting", "connected", "failed"}

WorkerPC == {"idle",        \* not started
             "init",        \* initialConnect before its first Status
             "dial",        \* about to call Connect
             "verify",      \* Connect succeeded, asleep before Status
             "reconnect",   \* poll saw the connection go, entering reconnect
             "event",       \* in onStateChange, before InsertEvent
             "proxy",       \* in onStateChange, before StartProxy or StopProxy
             "loop",        \* in the select of run
             "done"}        \* done is closed

SupervisorPC == {"idle", "scan", "drain", "done"}
MainPC == {"serving", "stopping", "stopped", "exited"}

TypeOK ==
    /\ ModemsTypeOK
    /\ RegistryTypeOK
    /\ workers \in [Modem -> Worker \cup {None}]
    /\ supervisor \in SupervisorPC
    /\ detected \in SUBSET Modem
    /\ removing \in Modem \cup {None}
    /\ removed \in SUBSET Worker
    /\ cancelled \in SUBSET Worker
    /\ pc \in [Worker -> WorkerPC]
    /\ state \in [Worker -> State]
    /\ status \in [Worker -> IP \cup {None}]
    /\ attempt \in [Worker -> 0..(MaxRetries + 1)]
    /\ main \in MainPC
    /\ lastEvent \in [Modem -> State \cup {None}]

Init ==
    /\ ModemsInit
    /\ RegistryInit
    /\ workers = [m \in Modem |-> None]
    /\ supervisor = "idle"
    /\ detected = {}
    /\ removing = None
    /\ removed = {}
    /\ cancelled = {}
    /\ pc = [w \in Worker |-> "idle"]
    /\ state = [w \in Worker |-> "disconnected"]
    /\ status = [w \in Worker |-> None]
    /\ attempt = [w \in Worker |-> 0]
    /\ main = "serving"
    /\ lastEvent = [m \in Modem |-> None]

-----------------------------------------------------------------------------
\* The signal context is done from SIGTERM on; the supervisor's context and
\* through it every worker's context derive from it.
Sigterm == main # "serving"
\* Mutants of Cancelled: Stop does not cancel; the signal's context is not used.
CancelledBySignal(w) == Sigterm
CancelledByStop(w) == w \in cancelled
Cancelled(w) == w \in cancelled \/ Sigterm

Registered(m) == workers[m] # None
Fresh(m) == {w \in Worker : Home[w] = m /\ pc[w] = "idle"}

Drained(m) == \A w \in Worker : Home[w] = m => pc[w] \in {"idle", "done"}

\* No other worker was ever started for the modem of w.
Undisturbed(w) == \A v \in Worker : Home[v] = Home[w] /\ v # w => pc[v] = "idle"

\* The worker has finished every callback of its last state change.
Settled(w) == pc[w] \notin {"idle", "event", "proxy"}

Running == main # "exited"

-----------------------------------------------------------------------------
(***************************************************************************)
(* cmdServe's onStateChange: first the state_change row (InsertEvent fails *)
(* once the signal context is done), then the proxy of the modem.          *)
(***************************************************************************)
LogStateChange(m, new) ==
    lastEvent' = IF Sigterm THEN lastEvent ELSE [lastEvent EXCEPT ![m] = new]

\* Mutant of SwitchProxy: only a failed modem loses its proxy.
SwitchProxyOnFailure(m, new, ip) ==
    IF new = "connected" /\ ip # None THEN StartProxy(m, ip)
    ELSE IF new = "failed" THEN StopProxy(m)
    ELSE UNCHANGED proxies

SwitchProxy(m, new, ip) ==
    IF new = "connected" /\ ip # None THEN StartProxy(m, ip)
    ELSE IF new \in {"disconnected", "failed"} THEN StopProxy(m)
    ELSE UNCHANGED proxies

(***************************************************************************)
(* Where the worker continues once setState has returned.                  *)
(***************************************************************************)
Resume(new) == IF new = "connecting" THEN "dial"
               ELSE IF new = "disconnected" THEN "reconnect"
               ELSE "loop"

(***************************************************************************)
(* Worker.setState: the assignment under w.mu, and the callback, outside   *)
(* it, only when the state differs.                                        *)
(***************************************************************************)
\* Mutant of SetState: the callback is not called for a failure.
SetStateQuietly(w, new) ==
    /\ state' = [state EXCEPT ![w] = new]
    /\ pc' = [pc EXCEPT ![w] = IF new \in {state[w], "failed"} THEN Resume(new)
                               ELSE "event"]

SetState(w, new) ==
    /\ state' = [state EXCEPT ![w] = new]
    /\ pc' = [pc EXCEPT ![w] = IF state[w] = new THEN Resume(new) ELSE "event"]

WorkerEvent(w) ==
    /\ Running
    /\ pc[w] = "event"
    /\ LogStateChange(Home[w], state[w])
    /\ pc' = [pc EXCEPT ![w] = "proxy"]
    /\ UNCHANGED <<modemVars, proxies, supervisorVars, state, status, attempt, main>>

WorkerProxy(w) ==
    /\ Running
    /\ pc[w] = "proxy"
    /\ SwitchProxy(Home[w], state[w], status[w])
    /\ pc' = [pc EXCEPT ![w] = Resume(state[w])]
    /\ UNCHANGED <<modemVars, supervisorVars, state, status, attempt, main, lastEvent>>

(***************************************************************************)
(* initialConnect up to its first setState.  Status may fail at any time,  *)
(* and always does for a modem that is gone.                               *)
(***************************************************************************)
InitialConnect(w) ==
    LET ip == addr[Home[w]] IN
    /\ Running
    /\ pc[w] = "init"
    /\ \/ /\ SetState(w, "failed")
          /\ UNCHANGED status
       \/ /\ Home[w] \in present
          /\ status' = [status EXCEPT ![w] = ip]
          /\ SetState(w, IF ip # None THEN "connected" ELSE "connecting")
    /\ UNCHANGED <<modemVars, proxies, supervisorVars, attempt, main, lastEvent>>

(***************************************************************************)
(* reconnect: setState(Connecting, nil) and the start of the attempts.     *)
(***************************************************************************)
Reconnect(w) ==
    /\ Running
    /\ pc[w] = "reconnect"
    /\ SetState(w, "connecting")
    /\ attempt' = [attempt EXCEPT ![w] = 1]
    /\ UNCHANGED <<modemVars, proxies, supervisorVars, status, main, lastEvent>>

(***************************************************************************)
(* The end of a failed dial: initialConnect gives up at once, reconnect    *)
(* sleeps and tries again until its attempts are spent.                    *)
(***************************************************************************)
\* Mutant of AttemptFailed: the loop runs once too often.
AttemptFailedLate(w) ==
    IF attempt[w] # 0
    THEN /\ attempt' = [attempt EXCEPT ![w] = @ + 1]
         /\ IF attempt[w] <= MaxRetries
            THEN pc' = [pc EXCEPT ![w] = "dial"] /\ UNCHANGED state
            ELSE SetState(w, "failed")
    ELSE SetState(w, "failed") /\ UNCHANGED attempt

AttemptFailed(w) ==
    IF attempt[w] \in 1..MaxRetries
    THEN /\ attempt' = [attempt EXCEPT ![w] = @ + 1]
         /\ IF attempt[w] < MaxRetries
            THEN pc' = [pc EXCEPT ![w] = "dial"] /\ UNCHANGED state
            ELSE SetState(w, "failed")
    ELSE SetState(w, "failed") /\ UNCHANGED attempt

(***************************************************************************)
(* Before each attempt reconnect looks whether its context is done.        *)
(***************************************************************************)
ReconnectAborted(w) ==
    /\ Running
    /\ pc[w] = "dial" /\ attempt[w] # 0
    /\ Cancelled(w)
    /\ pc' = [pc EXCEPT ![w] = "loop"]
    /\ UNCHANGED <<modemVars, proxies, supervisorVars, state, status, attempt,
                   main, lastEvent>>

DialFails(w) ==
    /\ Running
    /\ pc[w] = "dial"
    /\ attempt[w] # 0 => ~Cancelled(w)
    /\ AttemptFailed(w)
    /\ UNCHANGED <<modemVars, proxies, supervisorVars, status, main, lastEvent>>

DialSucceeds(w) ==
    /\ Running
    /\ pc[w] = "dial"
    /\ attempt[w] # 0 => ~Cancelled(w)
    /\ ConnectModem(Home[w])
    /\ pc' = [pc EXCEPT ![w] = "verify"]
    /\ UNCHANGED <<proxies, supervisorVars, state, status, attempt, main, lastEvent>>

(***************************************************************************)
(* Three seconds after Connect: only an answer that is connected and has   *)
(* an address counts.  initialConnect keeps the answer of a modem that is  *)
(* not connected as the new status, reconnect drops it.                    *)
(***************************************************************************)
\* Mutant of VerifyConnected: setState(StateConnected, nil).
VerifyConnectedNoStatus(w) ==
    /\ Running
    /\ pc[w] = "verify"
    /\ Home[w] \in present /\ addr[Home[w]] # None
    /\ SetState(w, "connected")
    /\ UNCHANGED <<modemVars, proxies, supervisorVars, status, attempt, main,
                   lastEvent>>

VerifyConnected(w) ==
    /\ Running
    /\ pc[w] = "verify"
    /\ Home[w] \in present /\ addr[Home[w]] # None
    /\ status' = [status EXCEPT ![w] = addr[Home[w]]]
    /\ SetState(w, "connected")
    /\ UNCHANGED <<modemVars, proxies, supervisorVars, attempt, main, lastEvent>>

VerifyFails(w) ==
    /\ Running
    /\ pc[w] = "verify"
    /\ AttemptFailed(w)
    /\ \/ UNCHANGED status
       \/ /\ attempt[w] = 0
          /\ Home[w] \in present /\ addr[Home[w]] = None
          /\ status' = [status EXCEPT ![w] = None]
    /\ UNCHANGED <<modemVars, proxies, supervisorVars, main, lastEvent>>

(***************************************************************************)
(* poll, for the tickers whose Status answers; an error changes nothing.   *)
(***************************************************************************)
\* Mutants of Poll: a lost connection goes straight to connecting; a failed
\* worker is no longer looked at.
PollStraightToDial(w) ==
    LET ip == addr[Home[w]] IN
    /\ Running
    /\ pc[w] = "loop"
    /\ Home[w] \in present
    /\ status' = [status EXCEPT ![w] = ip]
    /\ IF ip # None THEN SetState(w, "connected")
       ELSE IF state[w] = "connected" THEN SetState(w, "connecting")
       ELSE UNCHANGED <<pc, state>>
    /\ UNCHANGED <<modemVars, proxies, supervisorVars, attempt, main, lastEvent>>

PollUnlessFailed(w) ==
    LET ip == addr[Home[w]] IN
    /\ Running
    /\ pc[w] = "loop" /\ state[w] # "failed"
    /\ Home[w] \in present
    /\ status' = [status EXCEPT ![w] = ip]
    /\ IF ip # None THEN SetState(w, "connected")
       ELSE IF state[w] = "connected" THEN SetState(w, "disconnected")
       ELSE UNCHANGED <<pc, state>>
    /\ UNCHANGED <<modemVars, proxies, supervisorVars, attempt, main, lastEvent>>

\* Mutant of Poll: a connection that is gone goes unnoticed.
PollOnlyUp(w) ==
    LET ip == addr[Home[w]] IN
    /\ Running
    /\ pc[w] = "loop"
    /\ Home[w] \in present
    /\ status' = [status EXCEPT ![w] = ip]
    /\ IF ip # None THEN SetState(w, "connected") ELSE UNCHANGED <<pc, state>>
    /\ UNCHANGED <<modemVars, proxies, supervisorVars, attempt, main, lastEvent>>

Poll(w) ==
    LET ip == addr[Home[w]] IN
    /\ Running
    /\ pc[w] = "loop"
    /\ Home[w] \in present
    /\ status' = [status EXCEPT ![w] = ip]
    /\ IF ip # None THEN SetState(w, "connected")
       ELSE IF state[w] = "connected" THEN SetState(w, "disconnected")
       ELSE UNCHANGED <<pc, state>>
    /\ UNCHANGED <<modemVars, proxies, supervisorVars, attempt, main, lastEvent>>

(***************************************************************************)
(* run takes the ctx.Done branch of its select and closes done.            *)
(***************************************************************************)
LeaveLoop(w) ==
    /\ Running
    /\ pc[w] = "loop"
    /\ Cancelled(w)
    /\ pc' = [pc EXCEPT ![w] = "done"]
    /\ UNCHANGED <<modemVars, proxies, supervisorVars, state, status, attempt,
                   main, lastEvent>>

-----------------------------------------------------------------------------
(***************************************************************************)
(* Supervisor.run and scan.  Detect lists some of the modems present (one  *)
(* whose details cannot be read is left out).  Two bounds are in its       *)
(* guard: a modem is listed for a new worker, or missed while it has one,  *)
(* only while the pool has an incarnation left for it; and under           *)
(* PromptDrain a modem is listed again only after its old worker is done.  *)
(***************************************************************************)
Detect(D) ==
    /\ Running
    /\ supervisor = "idle"
    /\ D \subseteq present
    /\ \A m \in present : (m \in D) # Registered(m) => Fresh(m) # {}
    /\ PromptDrain => \A m \in D : Registered(m) \/ Drained(m)
    /\ detected' = D
    /\ supervisor' = "scan"
    /\ UNCHANGED <<modemVars, proxies, workers, removing, removed, cancelled,
                   workerVars, main, lastEvent>>

StartWorker(m, w) ==
    /\ Running
    /\ supervisor = "scan"
    /\ m \in detected /\ ~Registered(m)
    /\ w \in Fresh(m)
    /\ w = CHOOSE v \in Fresh(m) : TRUE      \* they are interchangeable
    /\ workers' = [workers EXCEPT ![m] = w]
    /\ pc' = [pc EXCEPT ![w] = "init"]
    /\ UNCHANGED <<modemVars, proxies, supervisor, detected, removing, removed,
                   cancelled, state, status, attempt, main, lastEvent>>

(***************************************************************************)
(* The second loop of scan.  A worker whose modem is not listed is handed  *)
(* to `go w.Stop()`, unregistered, and the callback runs with the states   *)
(* Connected -> Disconnected whatever the worker's state is.               *)
(***************************************************************************)
AllStarted == \A m \in detected : Registered(m)

RemoveWorker(m) ==
    /\ Running
    /\ supervisor = "scan" /\ AllStarted /\ removing = None
    /\ m \notin detected /\ Registered(m)
    /\ removed' = removed \cup {workers[m]}
    /\ workers' = [workers EXCEPT ![m] = None]
    /\ LogStateChange(m, "disconnected")
    /\ removing' = m
    /\ UNCHANGED <<modemVars, proxies, supervisor, detected, cancelled,
                   workerVars, main>>

FinishRemoval ==
    /\ Running
    /\ removing # None
    /\ SwitchProxy(removing, "disconnected", None)
    /\ removing' = None
    /\ UNCHANGED <<modemVars, workers, supervisor, detected, removed, cancelled,
                   workerVars, main, lastEvent>>

EndScan ==
    /\ Running
    /\ supervisor = "scan" /\ AllStarted /\ removing = None
    /\ \A m \in Modem : Registered(m) => m \in detected
    /\ supervisor' = "idle"
    /\ detected' = {}
    /\ UNCHANGED <<modemVars, proxies, workers, removing, removed, cancelled,
                   workerVars, main, lastEvent>>

(***************************************************************************)
(* The goroutine of `go w.Stop()` cancels the worker's context; then it    *)
(* only waits for done, and nobody waits for it.                           *)
(***************************************************************************)
CancelWorker(w) ==
    /\ Running
    /\ w \in removed \ cancelled
    /\ cancelled' = cancelled \cup {w}
    /\ UNCHANGED <<modemVars, proxies, workers, supervisor, detected, removing,
                   removed, workerVars, main, lastEvent>>

(***************************************************************************)
(* stopAllWorkers waits for every registered worker, then empties the map. *)
(***************************************************************************)
StopAllWorkers ==
    /\ Running
    /\ supervisor = "idle" /\ Sigterm
    /\ supervisor' = "drain"
    /\ UNCHANGED <<modemVars, proxies, workers, detected, removing, removed,
                   cancelled, workerVars, main, lastEvent>>

\* Mutant of WorkersStopped: without wg.Wait.
WorkersAbandoned ==
    /\ Running
    /\ supervisor = "drain"
    /\ workers' = [m \in Modem |-> None]
    /\ supervisor' = "done"
    /\ UNCHANGED <<modemVars, proxies, detected, removing, removed, cancelled,
                   workerVars, main, lastEvent>>

WorkersStopped ==
    /\ Running
    /\ supervisor = "drain"
    /\ \A m \in Modem : Registered(m) => pc[workers[m]] = "done"
    /\ workers' = [m \in Modem |-> None]
    /\ supervisor' = "done"
    /\ UNCHANGED <<modemVars, proxies, detected, removing, removed, cancelled,
                   workerVars, main, lastEvent>>

(***************************************************************************)
(* The end of cmdServe: the signal, supervisor.Stop (returns when the      *)
(* supervisor is done), proxyMgr.StopAll, and the exit that ends every     *)
(* goroutine still running.                                                *)
(***************************************************************************)
Terminate ==
    /\ main = "serving"
    /\ main' = "stopping"
    /\ UNCHANGED <<modemVars, proxies, supervisorVars, workerVars, lastEvent>>

StopAllProxies ==
    /\ main = "stopping" /\ supervisor = "done"
    /\ StopAll
    /\ main' = "stopped"
    /\ UNCHANGED <<modemVars, supervisorVars, workerVars, lastEvent>>

Exit ==
    /\ main = "stopped"
    /\ main' = "exited"
    /\ UNCHANGED <<modemVars, proxies, supervisorVars, workerVars, lastEvent>>

\* Nothing is left to do: this lets TLC look for deadlocks before the exit.
Exited == ~Running /\ UNCHANGED vars

Environment ==
    /\ Running
    /\ ModemsNext
    /\ UNCHANGED <<proxies, supervisorVars, workerVars, main, lastEvent>>

-----------------------------------------------------------------------------
\* The steps of worker w outside its select.
CallbackStep(w) == WorkerEvent(w) \/ WorkerProxy(w)
DialStep(w) == DialFails(w) \/ DialSucceeds(w) \/ ReconnectAborted(w)
VerifyStep(w) == VerifyConnected(w) \/ VerifyFails(w)
Progress(w) == \/ InitialConnect(w)
               \/ CallbackStep(w)
               \/ Reconnect(w)
               \/ DialStep(w)
               \/ VerifyStep(w)

WorkerStep(w) == Progress(w) \/ Poll(w) \/ LeaveLoop(w)

ScanStep ==
    \/ \E m \in Modem : RemoveWorker(m) \/ \E w \in Worker : StartWorker(m, w)
    \/ FinishRemoval
    \/ EndScan

SupervisorStep ==
    \/ \E D \in SUBSET Modem : Detect(D)
    \/ ScanStep
    \/ StopAllWorkers
    \/ WorkersStopped

MainStep == Terminate \/ StopAllProxies \/ Exit

Next ==
    \/ Environment
    \/ \E w \in Worker : WorkerStep(w) \/ CancelWorker(w)
    \/ SupervisorStep
    \/ MainStep
    \/ Exited

Spec == Init /\ [][Next]_vars

(***************************************************************************)
(* Every goroutine that can run runs.  Where a select has several ready    *)
(* cases Go picks one at random, so a case that is ready again and again   *)
(* is picked in the end: strong fairness for the ctx.Done branches.        *)
(***************************************************************************)
Fairness ==
    /\ \A w \in Worker : /\ WF_vars(Progress(w) \/ Poll(w))
                         /\ SF_vars(LeaveLoop(w))
                         /\ WF_vars(CancelWorker(w))
    /\ WF_vars(ScanStep \/ WorkersStopped)
    /\ SF_vars(StopAllWorkers)
    /\ WF_vars(StopAllProxies \/ Exit)

FairSpec == Spec /\ Fairness

-----------------------------------------------------------------------------
(***************************************************************************)
(* Properties.                                                             *)
(***************************************************************************)
\* The manager has not been told to stop everything.
Serving == main \in {"serving", "stopping"}

\* Worker w is the only one its modem ever had and is still registered, or
\* has finished with the supervisor.
Tracked(w) == /\ pc[w] # "idle"
              /\ Undisturbed(w)
              /\ w \notin removed
              /\ Serving

(***************************************************************************)
(* A worker that is past its callbacks agrees with the proxy manager: its  *)
(* modem has a proxy exactly when the worker says connected.  The proxy is *)
(* switched outside the worker's lock, several steps after the state.  And *)
(* StartProxy refuses to replace a proxy that runs, which onStateChange    *)
(* only logs: a modem that came back with another address would be served  *)
(* from the old one.  A worker that has just connected finds no proxy.     *)
(***************************************************************************)
ProxyFollowsState ==
    \A w \in Worker : Tracked(w) =>
        /\ Settled(w) => (proxies[Home[w]] # None <=> state[w] = "connected")
        /\ ~Settled(w) /\ state[w] = "connected" => proxies[Home[w]] = None

(***************************************************************************)
(* The newest state_change row of a modem names the state its worker is    *)
(* in, from the moment the callback has written it until the next change,  *)
(* as long as the process was not told to stop.                            *)
(***************************************************************************)
EventLogFollowsState ==
    \A w \in Worker :
        /\ Tracked(w) /\ main = "serving"
        /\ pc[w] \notin {"init", "event"}
        => lastEvent[Home[w]] = state[w]

(***************************************************************************)
(* If removed workers drain before their modem comes back, a registered    *)
(* worker in its loop that says connected has a proxy, even when an        *)
(* earlier incarnation left a proxy or a stop behind.                      *)
(***************************************************************************)
ConnectedIsServed ==
    \A m \in Modem :
        /\ Registered(m) /\ Serving
        /\ pc[workers[m]] = "loop" /\ state[workers[m]] = "connected"
        => proxies[m] # None

(***************************************************************************)
(* After the shutdown has stopped all proxies, one that runs can only have *)
(* been started by a removed worker, which nobody waited for: no worker    *)
(* that was still registered starts a proxy behind StopAll.                *)
(***************************************************************************)
OnlyOrphansSurviveShutdown ==
    main \in {"stopped", "exited"} =>
        \A m \in Modem : proxies[m] # None => \E w \in removed : Home[w] = m

(***************************************************************************)
(* The state changes of every incarnation follow the modem state machine.  *)
(***************************************************************************)
StateMachine == INSTANCE ModemState
FollowsStateMachine == StateMachine!Spec

(***************************************************************************)
(* SIGTERM ends the process: no worker, scan or drain is waited for        *)
(* forever.                                                                *)
(***************************************************************************)
ShutdownCompletes == main = "stopping" ~> main = "exited"

(***************************************************************************)
(* The goroutine of a removed worker ends: none is leaked.                 *)
(***************************************************************************)
RemovedWorkersEnd == \A w \in Worker : w \in removed ~> (pc[w] = "done" \/ ~Running)

(***************************************************************************)
(* A modem that stays registered and connected gets its proxy for good,    *)
(* also when its worker had given up and sits in the failed state.         *)
(***************************************************************************)
Stable(m) == /\ main = "serving"
             /\ Registered(m)
             /\ m \in present /\ addr[m] # None

StableModemIsServed ==
    \A m \in Modem : <>[]Stable(m) => <>[](proxies[m] # None)
=============================================================================
