---------------------------- MODULE SystemProofs ----------------------------
(***************************************************************************)
(* Rotations and supervision in one daemon, for any number of modems,      *)
(* workers and requests: each half behaves as its own module says, so all  *)
(* that is proved of the halves holds of the whole.                        *)
(***************************************************************************)
EXTENDS System, SupervisionProofs, RotationProofs

(***************************************************************************)
(* The inductive invariant: the types of the supervision's half, and that  *)
(* the daemon serves, without which the command would go on after the      *)
(* exit, where Supervision has no steps.                                   *)
(***************************************************************************)
ServingInv == TypeOK /\ main = "serving"

\* A modem that gets another address, or the same, is a step of the environment.
LEMMA AddressStep ==
    ASSUME ServingInv, UNCHANGED daemonVars, UNCHANGED present,
           NEW m \in present, NEW a \in IP \cup {None},
           addr' = [addr EXCEPT ![m] = a]
    PROVE  [Next]_vars
<1> USE DEF ServingInv, TypeOK, ModemsTypeOK
<1>1. CASE a = addr[m]
  BY <1>1 DEF vars, modemVars, daemonVars
<1>2. CASE a # addr[m]
  <2>1. ChangeAddress(m)
    BY <1>2 DEF ChangeAddress
  <2>2. Environment
    BY <2>1 DEF Environment, ModemsNext, Running, daemonVars
  <2> QED
    BY <2>2 DEF Next
<1> QED
  BY <1>1, <1>2

\* So is an AT+CGATT command, of a rotation or of the command line.
LEMMA CGATTIsEnvironment ==
    ASSUME ServingInv, UNCHANGED daemonVars,
           NEW A \in SUBSET (IP \cup {None}), CGATT(A)
    PROVE  [Next]_vars
<1>1. PICK m \in present, a \in A : addr' = [addr EXCEPT ![m] = a] /\ UNCHANGED present
  BY DEF CGATT
<1> QED
  BY <1>1, AddressStep

\* A rotation touches the modems by AT+CGATT only.
LEMMA RotateTouches ==
    ASSUME NEW r \in Request, RotateStep(r)
    PROVE  \/ UNCHANGED modemVars
           \/ CGATT({None})
           \/ CGATT(IP \cup {None})
  BY DEF RotateStep, Status, Detach, Attach, SendATFails, WaitForNewIP,
         WaitTimesOut, Mark, InsertRotation, InsertEvent, modemVars

\* Every step of the system is a step of Supervision or changes nothing of it.
LEMMA SystemStep == ASSUME ServingInv, [SystemNext]_systemVars PROVE [Next]_vars
<1>1. CASE SupervisionStep
  BY <1>1 DEF SupervisionStep
<1>2. CASE TimePasses
  BY <1>2 DEF TimePasses, Tick, vars, modemVars, daemonVars
<1>3. ASSUME NEW r \in Request, RotationProgress(r) PROVE [Next]_vars
  <2>1. UNCHANGED daemonVars /\ RotateStep(r)
    BY <1>3 DEF RotationProgress
  <2>2. CASE UNCHANGED modemVars
    BY <2>1, <2>2 DEF vars, daemonVars
  <2> QED
    BY <2>1, <2>2, RotateTouches, CGATTIsEnvironment
<1>4. ASSUME NEW r \in Request, NEW m \in Modem, HandleRotate(r, m) PROVE [Next]_vars
  BY <1>4 DEF HandleRotate, Check, vars, modemVars, daemonVars
<1>5. CASE Command
  <2>1. CASE UNCHANGED vars
    BY <2>1
  <2>2. CASE UNCHANGED modemVars /\ UNCHANGED daemonVars
    BY <2>2 DEF vars, daemonVars
  <2>3. CASE UNCHANGED daemonVars /\ (CGATT({None}) \/ CGATT(IP \cup {None}))
    BY <2>3, CGATTIsEnvironment
  <2> QED
    BY <1>5, <2>1, <2>2, <2>3 DEF Command, CommandStatus, CommandDetach, CommandAttach
<1>6. CASE UNCHANGED systemVars
  BY <1>6 DEF systemVars
<1> QED
  BY <1>1, <1>2, <1>3, <1>4, <1>5, <1>6 DEF SystemNext, RotateModem

\* The invariant holds at the start and is kept.
LEMMA ServingCorrect == SystemSpec => []ServingInv
<1>1. SystemInit => ServingInv
  BY TypeInit DEF SystemInit, ServingInv, Init
<1>2. ServingInv /\ [SystemNext]_systemVars => ServingInv'
  <2> SUFFICES ASSUME ServingInv, [SystemNext]_systemVars PROVE ServingInv'
    OBVIOUS
  <2>1. TypeOK'
    BY SystemStep, TypeStep DEF ServingInv
  <2>2. main' = "serving"
    BY DEF ServingInv, SystemNext, SupervisionStep, TimePasses, RotationProgress,
           HandleRotate, RotateModem, Command, CommandStatus, CommandDetach,
           CommandAttach, systemVars, vars, daemonVars
  <2> QED
    BY <2>1, <2>2 DEF ServingInv
<1> QED
  BY <1>1, <1>2, PTL DEF SystemSpec

(***************************************************************************)
(* Beside rotations and `modemux rotate` the supervisor and its workers    *)
(* behave as Supervision says.                                             *)
(***************************************************************************)
THEOREM SupervisionUnaffectedHolds == SystemSpec => SupervisionUnaffected
<1>1. SystemInit => Init
  BY DEF SystemInit
<1>2. ServingInv /\ [SystemNext]_systemVars => [Next]_vars
  BY SystemStep
<1> QED
  BY <1>1, <1>2, ServingCorrect, PTL DEF SystemSpec, SupervisionUnaffected, Spec

\* What Supervision does to the modems is what their environment may do, or a Connect.
LEMMA NextTouches ==
    ASSUME Next
    PROVE  \/ UNCHANGED modemVars
           \/ ModemsNext
           \/ \E m \in present, a \in IP : /\ addr' = [addr EXCEPT ![m] = a]
                                           /\ UNCHANGED present
<1>1. CASE Environment
  BY <1>1 DEF Environment
<1>2. ASSUME NEW w \in Worker, WorkerStep(w)
      PROVE  \/ UNCHANGED modemVars
             \/ \E m \in present, a \in IP : /\ addr' = [addr EXCEPT ![m] = a]
                                             /\ UNCHANGED present
  <2>1. CASE DialSucceeds(w)
    BY <2>1 DEF DialSucceeds, ConnectModem
  <2>2. CASE WorkerStep(w) /\ ~DialSucceeds(w)
    BY <2>2 DEF WorkerStep, Progress, CallbackStep, DialStep, VerifyStep, InitialConnect,
        WorkerEvent, WorkerProxy, Reconnect, DialFails, ReconnectAborted,
        VerifyConnected, VerifyFails, Poll, LeaveLoop
  <2> QED
    BY <1>2, <2>1, <2>2
<1>3. ASSUME NEW w \in Worker, CancelWorker(w) PROVE UNCHANGED modemVars
  BY <1>3 DEF CancelWorker
<1>4. CASE SupervisorStep
  BY <1>4 DEF SupervisorStep, ScanStep, Detect, StartWorker, RemoveWorker, FinishRemoval,
      EndScan, StopAllWorkers, WorkersStopped
<1>5. CASE MainStep
  BY <1>5 DEF MainStep, Terminate, StopAllProxies, Exit
<1>6. CASE Exited
  BY <1>6 DEF Exited, vars
<1> QED
  BY <1>1, <1>2, <1>3, <1>4, <1>5, <1>6 DEF Next

\* Another address is a step of the rotations' environment too.
LEMMA AddressIsModemsChange ==
    ASSUME ModemsTypeOK, UNCHANGED callVars, UNCHANGED present,
           NEW m \in present, NEW a \in IP \cup {None},
           addr' = [addr EXCEPT ![m] = a]
    PROVE  [RotationNext]_rotationVars
<1> USE DEF ModemsTypeOK
<1>1. CASE a = addr[m]
  BY <1>1 DEF rotationVars, modemVars
<1>2. CASE a # addr[m]
  <2>1. ChangeAddress(m)
    BY <1>2 DEF ChangeAddress
  <2> QED
    BY <2>1 DEF RotationNext, ModemsChange, ModemsNext
<1> QED
  BY <1>1, <1>2

\* Every step of the system is a step of Rotation or changes nothing of it.
LEMMA SystemIsRotation ==
    ASSUME ServingInv, [SystemNext]_systemVars PROVE [RotationNext]_rotationVars
<1>1. CASE SupervisionStep
  <2>1. UNCHANGED callVars
    BY <1>1 DEF SupervisionStep
  <2>2. CASE UNCHANGED modemVars
    BY <2>1, <2>2 DEF rotationVars
  <2>3. CASE ModemsNext
    BY <2>1, <2>3 DEF RotationNext, ModemsChange
  <2>4. ASSUME NEW m \in present, NEW a \in IP,
               addr' = [addr EXCEPT ![m] = a], UNCHANGED present
        PROVE  [RotationNext]_rotationVars
    BY <2>1, <2>4, AddressIsModemsChange DEF ServingInv, TypeOK
  <2> QED
    BY <1>1, <2>2, <2>3, <2>4, NextTouches DEF SupervisionStep
<1>2. CASE TimePasses
  BY <1>2 DEF TimePasses, RotationNext
<1>3. ASSUME NEW r \in Request, RotationProgress(r)
      PROVE  [RotationNext]_rotationVars
  BY <1>3 DEF RotationProgress, RotationNext
<1>4. ASSUME NEW r \in Request, NEW m \in Modem, HandleRotate(r, m)
      PROVE  [RotationNext]_rotationVars
  BY <1>4 DEF HandleRotate, RotationNext
<1>5. CASE Command
  <2>1. UNCHANGED callVars
    BY <1>5 DEF Command, CommandStatus, CommandDetach, CommandAttach
  <2>2. CASE UNCHANGED modemVars
    BY <2>1, <2>2 DEF rotationVars
  <2>3. ASSUME NEW A \in SUBSET (IP \cup {None}), CGATT(A)
        PROVE  [RotationNext]_rotationVars
    <3>1. PICK m \in present, a \in A :
              addr' = [addr EXCEPT ![m] = a] /\ UNCHANGED present
      BY <2>3 DEF CGATT
    <3> QED
      BY <2>1, <3>1, AddressIsModemsChange DEF ServingInv, TypeOK
  <2> QED
    BY <1>5, <2>2, <2>3
    DEF Command, CommandStatus, CommandDetach, CommandAttach, vars
<1>6. CASE UNCHANGED systemVars
  BY <1>6 DEF systemVars, vars, rotationVars
<1> QED
  BY <1>1, <1>2, <1>3, <1>4, <1>5, <1>6 DEF SystemNext, RotateModem

(***************************************************************************)
(* Beside workers that dial, and commands of another process, rotations,   *)
(* the cooldown and the history behave as Rotation says.                   *)
(***************************************************************************)
THEOREM RotationUnaffectedHolds == SystemSpec => RotationUnaffected
<1>1. SystemInit => RotationInit
  BY DEF SystemInit
<1>2. ServingInv /\ [SystemNext]_systemVars => [RotationNext]_rotationVars
  BY SystemIsRotation
<1> QED
  BY <1>1, <1>2, ServingCorrect, PTL DEF SystemSpec, RotationUnaffected, RotationSpec

(***************************************************************************)
(* So the proxy and the event log of a modem follow its worker, a new      *)
(* connection gets a proxy on its new address, and the states follow the   *)
(* state machine, while rotations detach the modem.                        *)
(***************************************************************************)
THEOREM SupervisedBesideRotations ==
    SystemSpec => /\ []ProxyFollowsState
                  /\ ConnectedProxyIsNew
                  /\ []EventLogFollowsState
                  /\ FollowsStateMachine
<1> QED
  BY SupervisionUnaffectedHolds, ProxyFollowsStateHolds, ConnectedProxyIsNewHolds,
     EventLogFollowsStateHolds, FollowsStateMachineHolds, PTL DEF SupervisionUnaffected

(***************************************************************************)
(* And a registered worker that says connected has a proxy, however often  *)
(* its modem was removed and rotated before.                               *)
(***************************************************************************)
THEOREM ServedBesideRotations ==
    ASSUME PromptDrain PROVE SystemSpec => []ConnectedIsServed
<1>1. Spec => []ConnectedIsServed
  BY ConnectedIsServedHolds
<1> QED
  BY <1>1, SupervisionUnaffectedHolds, PTL DEF SupervisionUnaffected

(***************************************************************************)
(* And rotations stay spaced, refused only after a success, and recorded   *)
(* row by row, while workers redial the modems they detach and another     *)
(* process detaches them too.                                              *)
(***************************************************************************)
THEOREM RotationsBesideSupervision ==
    SystemSpec => /\ []CompletionsAreSpaced
                  /\ RefusalsFollowSuccess
                  /\ []HistoryMatchesAnswers
<1> QED
  BY RotationUnaffectedHolds, CompletionsAreSpacedHolds, RefusalsFollowSuccessHolds,
     HistoryMatchesAnswersHolds, PTL DEF RotationUnaffected

(***************************************************************************)
(* Every variable of the whole keeps its type: the halves by the theorems  *)
(* above, the command by its own steps.                                    *)
(***************************************************************************)
THEOREM SystemTypeCorrect == SystemSpec => []SystemTypeOK
<1>1. SystemInit => cli \in CommandPC
  BY DEF SystemInit, CommandPC
<1>2. cli \in CommandPC /\ [SystemNext]_systemVars => (cli \in CommandPC)'
  BY DEF CommandPC, SystemNext, SupervisionStep, TimePasses, RotationProgress, HandleRotate,
         RotateModem, Command, CommandStatus, CommandDetach, CommandAttach, CommandGoes,
         systemVars
<1>3. SystemSpec => [](cli \in CommandPC)
  BY <1>1, <1>2, PTL DEF SystemSpec
<1>4. SystemSpec => []RotationTypeOK
  BY RotationUnaffectedHolds, RotationTypeCorrect, PTL DEF RotationUnaffected
<1>5. ServingInv => TypeOK
  BY DEF ServingInv
<1> QED
  BY <1>3, <1>4, <1>5, ServingCorrect, PTL DEF SystemTypeOK
=============================================================================
