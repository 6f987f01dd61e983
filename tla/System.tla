------------------------------- MODULE System -------------------------------
(***************************************************************************)
(* The serving daemon as a whole, and `modemux rotate` beside it.          *)
(*                                                                         *)
(* The supervisor with its workers (Supervision) and the calls of          *)
(* Rotator.Rotate (Rotation) run in one process and share nothing but the  *)
(* modems: a rotation detaches a modem behind its worker's back, and a     *)
(* worker redials a modem a rotation waits for.  `modemux rotate` is a     *)
(* process of its own that sends the same commands without a cooldown, a   *)
(* deadline or a row in the history.                                       *)
(*                                                                         *)
(* Only the time the daemon serves is modelled: how it ends is in          *)
(* Supervision, and what becomes of requests then depends on the framework.*)
(***************************************************************************)
EXTENDS Supervision, Rotation

VARIABLE cli    \* control point of cmdRotate, for one invocation

\* What only the supervision reads and writes, as callVars for the rotations.
daemonVars == <<proxies, supervisorVars, workerVars, main, lastEvent>>
systemVars == <<vars, callVars, cli>>

CommandPC == {"start", "detach", "attach", "done"}

SystemTypeOK == TypeOK /\ RotationTypeOK /\ cli \in CommandPC

\* Both halves start with the same modems.
SystemInit == Init /\ RotationInit /\ cli = "start"

-----------------------------------------------------------------------------
(***************************************************************************)
(* handleRotate of the API: a request reaches Rotate; the answer (a        *)
(* conflict for every error) is result[r].                                 *)
(***************************************************************************)
\* Mutant of HandleRotate: it takes the proxy down before it rotates.
HandleRotateStopsProxy(r, m) ==
    /\ Check(r, m)
    /\ StopProxy(m)
    /\ UNCHANGED <<supervisorVars, workerVars, main, lastEvent, cli>>

HandleRotate(r, m) ==
    /\ Check(r, m)
    /\ UNCHANGED <<daemonVars, cli>>

\* The dashboard's button does the same; its answer is the modem's card, read afresh
\* whether or not Rotate failed.
RotateModem(r, m) == HandleRotate(r, m)

RotationProgress(r) == RotateStep(r) /\ UNCHANGED <<daemonVars, cli>>

-----------------------------------------------------------------------------
(***************************************************************************)
(* cmdRotate: the steps of Rotate, paced by sleeps instead of a deadline.  *)
(* Any call may fail, which ends the command where it is; a failed SendAT  *)
(* may have reached the modem.                                             *)
(***************************************************************************)
CommandGoes(from, to) == cli = from /\ cli' = to

CommandStatus ==
    /\ \/ CommandGoes("start", "detach") /\ present # {}
       \/ CommandGoes("start", "done")
    /\ UNCHANGED <<vars, callVars>>

CommandDetach ==
    /\ \/ CommandGoes("detach", "attach") /\ CGATT({None})
       \/ CommandGoes("detach", "done") /\ (UNCHANGED modemVars \/ CGATT({None}))
    /\ UNCHANGED <<daemonVars, callVars>>

\* Mutant of CommandAttach: the command keeps a row of its rotation.
CommandAttachRecorded ==
    /\ CommandGoes("attach", "done")
    /\ history' = Append(history, [modem |-> None, old |-> None, new |-> None])
    /\ UNCHANGED <<vars, now, lastUsed, logged, call, target, deadline, detachedAt,
                   oldIP, newIP, rotationID, result, markedAt>>

\* Whatever the modem has 3 seconds later is printed as "Rotation complete".
CommandAttach ==
    /\ CommandGoes("attach", "done")
    /\ UNCHANGED modemVars \/ CGATT(IP \cup {None})
    /\ UNCHANGED <<daemonVars, callVars>>

Command == CommandStatus \/ CommandDetach \/ CommandAttach

-----------------------------------------------------------------------------
\* A step of the supervisor, a worker or the modems, before any signal.
SupervisionStep == Next /\ main' = "serving" /\ UNCHANGED <<callVars, cli>>

TimePasses == Tick /\ UNCHANGED <<daemonVars, cli>>

SystemNext ==
    \/ SupervisionStep
    \/ TimePasses
    \/ \E r \in Request :
          \/ RotationProgress(r)
          \/ \E m \in Modem : HandleRotate(r, m) \/ RotateModem(r, m)
    \/ Command

SystemSpec == SystemInit /\ [][SystemNext]_systemVars

(***************************************************************************)
(* The fairness of the daemon's goroutines (see Supervision), time passes, *)
(* and a call of Rotate that has begun goes on.  The command may be        *)
(* interrupted at any point, and no modem has to do anything.              *)
(***************************************************************************)
SystemFairness ==
    /\ \A w \in Worker :
          WF_systemVars((Progress(w) \/ Poll(w)) /\ UNCHANGED <<callVars, cli>>)
    /\ WF_systemVars(TimePasses)
    /\ \A r \in Request : WF_systemVars(RotationProgress(r))

FairSystemSpec == SystemSpec /\ SystemFairness

-----------------------------------------------------------------------------
(***************************************************************************)
(* Properties.                                                             *)
(***************************************************************************)
(***************************************************************************)
(* To the supervisor and its workers a rotation is the weather: whatever   *)
(* the calls of Rotate and the command do between any two of their steps,  *)
(* every behaviour of the daemon is one of Supervision, whose properties   *)
(* therefore hold beside rotations.                                        *)
(***************************************************************************)
SupervisionUnaffected == Spec

(***************************************************************************)
(* The converse: workers that redial in the middle of a rotation, and a    *)
(* second process that sends commands of its own, cannot bring rotations,  *)
(* cooldown and history into a behaviour Rotation does not have.           *)
(***************************************************************************)
RotationUnaffected == RotationSpec

(***************************************************************************)
(* A rotation or a command that fails after the detach leaves the modem    *)
(* without address and never comes back to it.  Its worker does: a modem   *)
(* that is tended gets an address again, unless all attempts to dial fail. *)
(***************************************************************************)
Tended(m) == m \in present /\ Registered(m)
GivenUp(m) == Registered(m) /\ state[workers[m]] = "failed"

NotLeftDetached ==
    \A m \in Modem : Tended(m) ~> (addr[m] # None \/ GivenUp(m) \/ ~Tended(m))

(***************************************************************************)
(* Every call of Rotate that gets past the cooldown ends, also when the    *)
(* carrier hands out the same address for ever or a worker takes the modem *)
(* through a redial meanwhile.                                             *)
(***************************************************************************)
EveryRotationEnds ==
    \A r \in Request : call[r] = "status" ~> call[r] = "done"

-----------------------------------------------------------------------------
(***************************************************************************)
(* What the documentation says and the code does not do.                   *)
(***************************************************************************)
\* README.md:20 "HTTP and SOCKS5 proxy bound to real mobile carrier IP": once a
\* rotation was answered with success and the worker of its modem has read the new
\* address, the modem's proxy dials from it.
RotationMovesProxy ==
    \A r \in Request, w \in Worker :
        /\ result[r] = "ok" /\ Home[w] = target[r]
        /\ Tracked(w) /\ pc[w] = "loop" /\ state[w] = "connected"
        /\ status[w] = newIP[r]
        => proxies[target[r]] = newIP[r]
=============================================================================
