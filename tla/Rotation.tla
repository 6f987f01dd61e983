------------------------------ MODULE Rotation ------------------------------
(***************************************************************************)
(* IP rotation: concurrent calls of Rotator.Rotate, the per-modem cooldown *)
(* and the rows they leave in the store (internal/rotation and             *)
(* internal/store/queries.go).  A Request is one POST to the API or one    *)
(* click on the dashboard; nothing in the handlers orders two of them.     *)
(*                                                                         *)
(* Calls to mmcli and to the database take a context that ends Timeout     *)
(* after the call of Rotate, and fail when it has ended before they begin. *)
(* A call takes any time; what it does happens in one step.  An insert may *)
(* fail at any time, and rows stay when the deadline falls between their   *)
(* insertion and the return.                                               *)
(***************************************************************************)
EXTENDS Modems, Integers, Sequences

CONSTANTS
    Request,    \* the requests, a bound on how many are served
    Interval,   \* Cooldown.interval
    Timeout,    \* Rotator.timeout
    DetachTime, \* the pause between detach and attach (2 seconds)
    MaxTime     \* a bound on the clock

ASSUME RotationAssumption ==
    /\ Interval \in Nat /\ Timeout \in Nat /\ DetachTime \in Nat
    /\ MaxTime \in Nat
    /\ None \notin Nat

VARIABLES
    now,        \* the clock
    lastUsed,   \* Cooldown.lastUsed, None for a modem never rotated
    history,    \* table ip_rotations; the id of a row is its position
    logged,     \* requests with a row in modem_events
    \* one call of Rotate
    call,       \* control point
    target,     \* modemIndex
    deadline,   \* the end of its context
    detachedAt, \* when its detach returned: the pause starts
    oldIP,      \* status.IP before the detach
    newIP,      \* what waitForNewIP returned
    rotationID, \* the id reported, 0 if none
    result,     \* how it ended
    \* observer, read by properties only
    markedAt    \* when it called Mark

storeVars == <<history, logged>>
\* What only rotations read and write, and with it the modems.
callVars == <<now, lastUsed, storeVars, call, target, deadline, detachedAt, oldIP,
              newIP, rotationID, result, markedAt>>
rotationVars == <<modemVars, callVars>>

RequestPC == {"idle", "status", "detach", "attach", "wait", "mark", "record",
              "event", "failed", "done"}
Outcome == {"none", "cooldown", "error", "detach", "attach", "timeout", "ok"}
Instant == Nat \cup {None}
Row == [modem : Modem \cup {None}, old : IP \cup {None}, new : IP \cup {None}]

RotationTypeOK ==
    /\ ModemsTypeOK
    /\ now \in Nat
    /\ lastUsed \in [Modem -> Instant]
    /\ history \in Seq(Row)
    /\ logged \in SUBSET Request
    /\ call \in [Request -> RequestPC]
    /\ target \in [Request -> Modem \cup {None}]
    /\ \A r \in Request : call[r] # "idle" => target[r] \in Modem
    /\ deadline \in [Request -> Nat]
    /\ oldIP \in [Request -> IP \cup {None}]
    /\ newIP \in [Request -> IP \cup {None}]
    /\ rotationID \in [Request -> Nat]
    /\ result \in [Request -> Outcome]
    /\ detachedAt \in [Request -> Instant]
    /\ markedAt \in [Request -> Instant]

RotationInit ==
    /\ ModemsInit
    /\ now = 0
    /\ lastUsed = [m \in Modem |-> None]
    /\ history = <<>>
    /\ logged = {}
    /\ call = [r \in Request |-> "idle"]
    /\ target = [r \in Request |-> None]
    /\ deadline = [r \in Request |-> 0]
    /\ oldIP = [r \in Request |-> None]
    /\ newIP = [r \in Request |-> None]
    /\ rotationID = [r \in Request |-> 0]
    /\ result = [r \in Request |-> "none"]
    /\ detachedAt = [r \in Request |-> None]
    /\ markedAt = [r \in Request |-> None]

-----------------------------------------------------------------------------
Expired(r) == now >= deadline[r]

Goes(r, from, to) == call[r] = from /\ call' = [call EXCEPT ![r] = to]
Ends(r, how) == result' = [result EXCEPT ![r] = how]

(***************************************************************************)
(* Cooldown.Check: nil when remaining, Interval - (now - last), is not     *)
(* positive.                                                               *)
(***************************************************************************)
\* Mutant of Cool: the comparison is one unit too generous.
CoolEarly(m) == lastUsed[m] # None => now + 1 >= lastUsed[m] + Interval

Cool(m) == lastUsed[m] # None => now >= lastUsed[m] + Interval

\* The clock still reaches the end of a call begun now (a bound).
WithinMaxTime == now + Timeout + DetachTime <= MaxTime

\* Mutant of Check: the modem of the request is not kept.
CheckUnresolved(r, m) ==
    /\ WithinMaxTime
    /\ Cool(m)
    /\ Goes(r, "idle", "status")
    /\ deadline' = [deadline EXCEPT ![r] = now + Timeout]
    /\ UNCHANGED <<modemVars, now, lastUsed, storeVars, target, detachedAt, oldIP,
                   newIP, rotationID, result, markedAt>>

Check(r, m) ==
    /\ WithinMaxTime
    /\ target' = [target EXCEPT ![r] = m]
    /\ \/ /\ Cool(m)
          /\ Goes(r, "idle", "status")
          /\ deadline' = [deadline EXCEPT ![r] = now + Timeout]
          /\ UNCHANGED result
       \/ /\ ~Cool(m)
          /\ Goes(r, "idle", "done")
          /\ Ends(r, "cooldown")
          /\ UNCHANGED deadline
    /\ UNCHANGED <<modemVars, now, lastUsed, storeVars, detachedAt, oldIP, newIP,
                   rotationID, markedAt>>

Status(r) ==
    /\ \/ /\ ~Expired(r) /\ target[r] \in present
          /\ oldIP' = [oldIP EXCEPT ![r] = addr[target[r]]]
          /\ Goes(r, "status", "detach")
          /\ UNCHANGED result
       \/ /\ Goes(r, "status", "done")
          /\ Ends(r, "error")
          /\ UNCHANGED oldIP
    /\ UNCHANGED <<modemVars, now, lastUsed, storeVars, target, deadline, detachedAt,
                   newIP, rotationID, markedAt>>

(***************************************************************************)
(* MMCLIController.SendAT passes `-m any`: ModemManager picks the modem.   *)
(* CGATT=0 takes the address away; after CGATT=1 the modem has an address  *)
(* at once or gets it later (ChangeAddress).                               *)
(***************************************************************************)
CGATT(addresses) ==
    /\ \E m \in present : \E a \in addresses : addr' = [addr EXCEPT ![m] = a]
    /\ UNCHANGED present

\* Mutant of Detach: the cooldown starts before the rotation has succeeded.
DetachCools(r) ==
    /\ ~Expired(r)
    /\ Goes(r, "detach", "attach")
    /\ CGATT({None})
    /\ detachedAt' = [detachedAt EXCEPT ![r] = now]
    /\ lastUsed' = [lastUsed EXCEPT ![target[r]] = now]
    /\ UNCHANGED <<now, storeVars, target, deadline, oldIP, newIP, rotationID, result,
                   markedAt>>

Detach(r) ==
    /\ ~Expired(r)
    /\ Goes(r, "detach", "attach")
    /\ CGATT({None})
    /\ detachedAt' = [detachedAt EXCEPT ![r] = now]
    /\ UNCHANGED <<now, lastUsed, storeVars, target, deadline, oldIP, newIP,
                   rotationID, result, markedAt>>

\* The pause of DetachTime after the detach is over.
Rested(r) == now >= detachedAt[r] + DetachTime

Attach(r) ==
    /\ ~Expired(r)
    /\ Goes(r, "attach", "wait")
    /\ Rested(r)
    /\ CGATT(IP \cup {None})
    /\ UNCHANGED <<now, lastUsed, storeVars, target, deadline, detachedAt, oldIP, newIP,
                   rotationID, result, markedAt>>

(***************************************************************************)
(* SendAT returns an error, also when mmcli was killed at the deadline     *)
(* after the modem had taken the command.                                  *)
(***************************************************************************)
SendATFails(r) ==
    /\ \/ Goes(r, "detach", "failed") /\ Ends(r, "detach")
          /\ (UNCHANGED modemVars \/ CGATT({None}))
       \/ Goes(r, "attach", "failed") /\ Ends(r, "attach") /\ Rested(r)
          /\ (UNCHANGED modemVars \/ CGATT(IP \cup {None}))
    /\ UNCHANGED <<now, lastUsed, storeVars, target, deadline, detachedAt, oldIP, newIP,
                   rotationID, markedAt>>

(***************************************************************************)
(* waitForNewIP: a tick whose Status answers with another address, or the  *)
(* end of the context; any other tick changes nothing.                     *)
(***************************************************************************)
NewAddress(r) == addr[target[r]] \notin {None, oldIP[r]}

WaitForNewIP(r) ==
    /\ Goes(r, "wait", "mark")
    /\ ~Expired(r) /\ NewAddress(r)
    /\ newIP' = [newIP EXCEPT ![r] = addr[target[r]]]
    /\ UNCHANGED <<modemVars, now, lastUsed, storeVars, target, deadline, detachedAt,
                   oldIP, rotationID, result, markedAt>>

\* Mutant of WaitTimesOut: the loop only gives up for a modem without address.
WaitTimesOutIfDetached(r) ==
    /\ Goes(r, "wait", "failed")
    /\ Expired(r) /\ addr[target[r]] = None
    /\ Ends(r, "timeout")
    /\ UNCHANGED <<modemVars, now, lastUsed, storeVars, target, deadline, detachedAt,
                   oldIP, newIP, rotationID, markedAt>>

WaitTimesOut(r) ==
    /\ Expired(r)
    /\ Goes(r, "wait", "failed")
    /\ Ends(r, "timeout")
    /\ UNCHANGED <<modemVars, now, lastUsed, storeVars, target, deadline, detachedAt,
                   oldIP, newIP, rotationID, markedAt>>

(***************************************************************************)
(* The end of a successful call: Mark, InsertRotation (its error dropped,  *)
(* which leaves the id 0), InsertEvent (its error dropped).  database/sql  *)
(* does not even begin an insert whose context has ended.                  *)
(***************************************************************************)
Mark(r) ==
    /\ Goes(r, "mark", IF Expired(r) THEN "event" ELSE "record")
    /\ lastUsed' = [lastUsed EXCEPT ![target[r]] = now]
    /\ markedAt' = [markedAt EXCEPT ![r] = now]
    /\ UNCHANGED <<modemVars, now, storeVars, target, deadline, detachedAt, oldIP, newIP,
                   rotationID, result>>

NewRow(r) == [modem |-> target[r], old |-> oldIP[r], new |-> newIP[r]]

\* Mutant of Insert: the id is that of the row before.
InsertStaleID(r) ==
    /\ history' = Append(history, NewRow(r))
    /\ rotationID' = [rotationID EXCEPT ![r] = Len(history)]

\* The row is there and its id is returned.
Insert(r) ==
    /\ history' = Append(history, NewRow(r))
    /\ rotationID' = [rotationID EXCEPT ![r] = Len(history')]

\* The deadline falls into ExecContext: the row is there, an error is returned.
InsertUnreported(r) ==
    /\ Expired(r)
    /\ history' = Append(history, NewRow(r))
    /\ UNCHANGED rotationID

InsertRotation(r) ==
    /\ Goes(r, "record", "event")
    /\ \/ Insert(r)
       \/ InsertUnreported(r)
       \/ UNCHANGED <<history, rotationID>>
    /\ UNCHANGED <<modemVars, now, lastUsed, logged, target, deadline, detachedAt, oldIP,
                   newIP, result, markedAt>>

\* The context of a wait that timed out has ended before its row is inserted.
InsertEvent(r) ==
    /\ \/ Goes(r, "event", "done") /\ Ends(r, "ok")
       \/ Goes(r, "failed", "done") /\ UNCHANGED result
    /\ \/ result[r] # "timeout" /\ logged' = logged \cup {r}
       \/ UNCHANGED logged
    /\ UNCHANGED <<modemVars, now, lastUsed, history, target, deadline, detachedAt, oldIP,
                   newIP, rotationID, markedAt>>

-----------------------------------------------------------------------------
Tick ==
    /\ now < MaxTime
    /\ now' = now + 1
    /\ UNCHANGED <<modemVars, lastUsed, storeVars, call, target, deadline, detachedAt,
                   oldIP, newIP, rotationID, result, markedAt>>

ModemsChange == ModemsNext /\ UNCHANGED callVars

RotateStep(r) ==
    \/ Status(r)
    \/ Detach(r)
    \/ Attach(r)
    \/ SendATFails(r)
    \/ WaitForNewIP(r)
    \/ WaitTimesOut(r)
    \/ Mark(r)
    \/ InsertRotation(r)
    \/ InsertEvent(r)

RotationNext ==
    \/ Tick
    \/ ModemsChange
    \/ \E r \in Request : RotateStep(r) \/ \E m \in Modem : Check(r, m)

RotationSpec == RotationInit /\ [][RotationNext]_rotationVars

-----------------------------------------------------------------------------
(***************************************************************************)
(* Properties.                                                             *)
(***************************************************************************)
\* The call got past the cooldown check, at this time.
Begun(r) == call[r] # "idle" /\ result[r] # "cooldown"
BegunAt(r) == deadline[r] - Timeout

(***************************************************************************)
(* A call that begins after a rotation of its modem was marked completes   *)
(* at least the cooldown and the pause later, whatever other calls of the  *)
(* same modem were under way and marked in between.                        *)
(***************************************************************************)
CompletionsAreSpaced ==
    \A r, s \in Request :
        /\ Begun(s) /\ target[r] = target[s]
        /\ markedAt[r] # None /\ markedAt[s] # None
        /\ BegunAt(s) > markedAt[r]
        => markedAt[s] >= markedAt[r] + Interval + DetachTime

(***************************************************************************)
(* A call is refused for nothing but a rotation of the same modem that     *)
(* succeeded less than the interval ago: one that failed half-way, and     *)
(* left the modem without address, may be tried again at once.             *)
(***************************************************************************)
Refused(r) == result[r] = "cooldown"

RefusalsFollowSuccess ==
    [][\A r \in Request : ~Refused(r) /\ Refused(r)' =>
          \E s \in Request : /\ target[s] = target'[r]
                             /\ markedAt[s] # None
                             /\ now < markedAt[s] + Interval]_rotationVars

\* writer names the call that each row comes from.
Wrote(writer) ==
    /\ \A j, k \in 1..Len(history) : writer[j] = writer[k] => j = k
    /\ \A k \in 1..Len(history) : LET r == writer[k] IN
          /\ history[k] = NewRow(r)
          /\ newIP[r] \notin {None, oldIP[r]}
          /\ rotationID[r] = k \/ (rotationID[r] = 0 /\ Expired(r))
    /\ \A r \in Request : rotationID[r] # 0 =>
          rotationID[r] \in 1..Len(history) /\ writer[rotationID[r]] = r

(***************************************************************************)
(* The history and the answers agree, however the inserts interleave:      *)
(* every row belongs to a call of its own, with another address than       *)
(* before; that call has reported its id, unless its deadline fell into    *)
(* the insert; and a reported id is no other call's row.                   *)
(***************************************************************************)
HistoryMatchesAnswers == \E writer \in [1..Len(history) -> Request] : Wrote(writer)

-----------------------------------------------------------------------------
(***************************************************************************)
(* What the documentation says and the code does not do.                   *)
(***************************************************************************)
\* README.md:194 "Minimum time between rotations": any two rotations of a modem
\* are a cooldown apart.
RotationsAreSpaced ==
    \A r, s \in Request :
        /\ r # s /\ target[r] = target[s]
        /\ markedAt[r] # None /\ markedAt[s] # None
        => \/ markedAt[s] >= markedAt[r] + Interval
           \/ markedAt[r] >= markedAt[s] + Interval
=============================================================================
