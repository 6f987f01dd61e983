--------------------------- MODULE RotationProofs ---------------------------
(***************************************************************************)
(* Theorems about rotation, for any number of modems and requests and any  *)
(* cooldown, timeout and pause.                                            *)
(***************************************************************************)
EXTENDS Rotation, SequenceTheorems, TLAPS

(***************************************************************************)
(* The inductive invariants.                                               *)
(***************************************************************************)
\* Which instants are known at which control point, and that they are past.
InstantsInv ==
    \A r \in Request :
        /\ call[r] \in {"idle", "status", "detach", "attach", "wait", "mark"} =>
              markedAt[r] = None
        /\ call[r] \in {"idle", "status", "detach"} => detachedAt[r] = None
        /\ call[r] = "attach" => detachedAt[r] # None
        /\ result[r] = "cooldown" => call[r] = "done"
        /\ Begun(r) => BegunAt(r) \in Nat /\ BegunAt(r) <= now
        /\ Begun(r) /\ detachedAt[r] # None => detachedAt[r] >= BegunAt(r)
        /\ markedAt[r] # None => markedAt[r] <= now

\* A call that waits for its address, or has it, is past its pause.
PauseInv ==
    \A r \in Request :
        /\ call[r] \in {"wait", "mark"} => now >= BegunAt(r) + DetachTime
        /\ markedAt[r] # None => markedAt[r] >= BegunAt(r) + DetachTime

\* lastUsed is not before any mark, so a call that begins sees the newest one.
CooldownInv ==
    /\ \A r \in Request : markedAt[r] # None =>
          /\ target[r] \in Modem
          /\ lastUsed[target[r]] # None
          /\ lastUsed[target[r]] >= markedAt[r]
    /\ \A m \in Modem : lastUsed[m] # None => lastUsed[m] <= now
    /\ \A r, s \in Request :
          /\ Begun(s) /\ target[r] = target[s]
          /\ markedAt[r] # None /\ BegunAt(s) > markedAt[r]
          => BegunAt(s) >= markedAt[r] + Interval

\* An AT+CGATT command leaves the modems well-typed.
LEMMA CGATTType ==
    ASSUME ModemsTypeOK, NEW A \in SUBSET (IP \cup {None}), CGATT(A)
    PROVE  ModemsTypeOK'
  BY DEF ModemsTypeOK, CGATT

\* So does anything else that happens to them.
LEMMA ModemsNextType ==
    ASSUME ModemsTypeOK, ModemsNext PROVE ModemsTypeOK'
  BY DEF ModemsTypeOK, ModemsNext, Plug, Unplug, ChangeAddress

(***************************************************************************)
(* The types hold at the start, and every step keeps them.                 *)
(***************************************************************************)
LEMMA RotationTypeInit == RotationInit => RotationTypeOK
  BY RotationAssumption, NoneAssumption
  DEF RotationInit, ModemsInit, RotationTypeOK, ModemsTypeOK, RequestPC, Outcome, Instant

\* The inductive step of the types.
LEMMA RotationTypeStep ==
    RotationTypeOK /\ [RotationNext]_rotationVars => RotationTypeOK'
  <1> USE RotationAssumption, NoneAssumption
  <1> SUFFICES ASSUME RotationTypeOK, [RotationNext]_rotationVars
               PROVE  RotationTypeOK'
    OBVIOUS
  <1> USE DEF RotationTypeOK, ModemsTypeOK, RequestPC, Outcome, Instant, modemVars,
              storeVars, Goes, Ends
  <1>1. ASSUME NEW r \in Request, NEW m \in Modem, Check(r, m) PROVE RotationTypeOK'
    <2>1. /\ deadline' \in [Request -> Nat]
          /\ result' \in [Request -> Outcome]
          /\ call' \in [Request -> RequestPC]
          /\ target' = [target EXCEPT ![r] = m]
          /\ \A s \in Request : s # r => call'[s] = call[s]
      <3>1. now + Timeout \in Nat
        OBVIOUS
      <3>2. /\ target' = [target EXCEPT ![r] = m]
            /\ \/ /\ call' = [call EXCEPT ![r] = "status"]
                  /\ deadline' = [deadline EXCEPT ![r] = now + Timeout]
                  /\ result' = result
               \/ /\ call' = [call EXCEPT ![r] = "done"]
                  /\ result' = [result EXCEPT ![r] = "cooldown"]
                  /\ deadline' = deadline
        BY <1>1 DEF Check
      <3>3. deadline' \in [Request -> Nat]
        BY <3>1, <3>2
      <3>4. result' \in [Request -> Outcome]
        BY <3>2
      <3>5. /\ call' \in [Request -> RequestPC]
            /\ \A s \in Request : s # r => call'[s] = call[s]
        BY <3>2
      <3> QED
        BY <3>2, <3>3, <3>4, <3>5
    <2>2. UNCHANGED <<modemVars, now, lastUsed, storeVars, detachedAt, oldIP, newIP,
                      rotationID, markedAt>>
      BY <1>1 DEF Check
    <2> QED
      BY <2>1, <2>2
  <1>2. ASSUME NEW r \in Request, RotateStep(r) PROVE RotationTypeOK'
    <2>1. CASE Status(r)
      <3>1. CASE Goes(r, "status", "detach")
        BY <2>1, <3>1 DEF Status
      <3>2. CASE Goes(r, "status", "done")
        BY <2>1, <3>2 DEF Status
      <3> QED
        BY <2>1, <3>1, <3>2 DEF Status
    <2>2. CASE Detach(r)
      BY <2>2 DEF Detach, CGATT
    <2>3. CASE Attach(r)
      BY <2>3 DEF Attach, CGATT
    <2>4. CASE SendATFails(r)
      <3>1. ModemsTypeOK'
        BY <2>4, CGATTType DEF SendATFails
      <3>2. CASE Goes(r, "detach", "failed")
        BY <2>4, <3>1, <3>2 DEF SendATFails
      <3>3. CASE Goes(r, "attach", "failed")
        BY <2>4, <3>1, <3>3 DEF SendATFails
      <3> QED
        BY <2>4, <3>2, <3>3 DEF SendATFails
    <2>5. CASE WaitForNewIP(r)
      BY <2>5 DEF WaitForNewIP, NewAddress
    <2>6. CASE WaitTimesOut(r)
      BY <2>6 DEF WaitTimesOut
    <2>7. CASE Mark(r)
      BY <2>7 DEF Mark
    <2>8. CASE InsertRotation(r)
      <3>1. NewRow(r) \in Row
        BY DEF NewRow, Row
      <3>2. history' \in Seq(Row)
        <4>1. history' = history \/ history' = Append(history, NewRow(r))
          BY <2>8 DEF InsertRotation, Insert, InsertUnreported
        <4>2. history \in Seq(Row)
          OBVIOUS
        <4> HIDE DEF RotationTypeOK
        <4> QED
          BY <3>1, <4>1, <4>2, AppendProperties
      <3>3. Len(history') \in Nat
        BY <3>2, LenProperties
      <3>4. rotationID' \in [Request -> Nat]
        BY <2>8, <3>3 DEF InsertRotation, Insert, InsertUnreported
      <3> QED
        BY <2>8, <3>2, <3>4 DEF InsertRotation
    <2>9. CASE InsertEvent(r)
      BY <2>9 DEF InsertEvent
    <2> QED
      BY <1>2, <2>1, <2>2, <2>3, <2>4, <2>5, <2>6, <2>7, <2>8, <2>9 DEF RotateStep
  <1>3. CASE Tick
    BY <1>3 DEF Tick
  <1>4. CASE ModemsChange
    <2>1. ModemsTypeOK'
      BY <1>4, ModemsNextType DEF ModemsChange, callVars
    <2>2. UNCHANGED <<now, lastUsed, storeVars, call, target, deadline, detachedAt, oldIP,
                      newIP, rotationID, result, markedAt>>
      BY <1>4 DEF ModemsChange, callVars
    <2> QED
      BY <2>1, <2>2
  <1>5. CASE UNCHANGED rotationVars
    BY <1>5 DEF rotationVars, callVars
  <1> QED
    BY <1>1, <1>2, <1>3, <1>4, <1>5 DEF RotationNext

(***************************************************************************)
(* Every variable keeps its type.                                          *)
(***************************************************************************)
THEOREM RotationTypeCorrect == RotationSpec => []RotationTypeOK
  BY RotationTypeInit, RotationTypeStep, PTL DEF RotationSpec

TimesInv == InstantsInv /\ PauseInv

\* What the steps below need of the types of the instants.
InstantTypes ==
    /\ now \in Nat
    /\ call \in [Request -> RequestPC]
    /\ result \in [Request -> Outcome]
    /\ target \in [Request -> Modem \cup {None}]
    /\ deadline \in [Request -> Nat]
    /\ detachedAt \in [Request -> Nat \cup {None}]
    /\ markedAt \in [Request -> Nat \cup {None}]
    /\ lastUsed \in [Modem -> Nat \cup {None}]

\* The types of the instants, without the rest.
LEMMA InstantsAreTyped == ASSUME RotationTypeOK PROVE InstantTypes
  BY DEF RotationTypeOK, InstantTypes, Instant

(***************************************************************************)
(* The instants of a call are in order and its pause lies between its      *)
(* beginning and its mark.                                                 *)
(***************************************************************************)
LEMMA TimesStep ==
    ASSUME RotationTypeOK, TimesInv, [RotationNext]_rotationVars PROVE TimesInv'
  <1> USE RotationAssumption
  <1> USE DEF TimesInv, InstantsInv, PauseInv, Begun, BegunAt
  <1>t. InstantTypes
    BY InstantsAreTyped
  <1> USE DEF InstantTypes, RequestPC, Outcome, Goes, Ends
  <1>1. ASSUME NEW r \in Request, NEW m \in Modem, Check(r, m) PROVE TimesInv'
    BY <1>t, <1>1 DEF Check
  <1>2. ASSUME NEW r \in Request, RotateStep(r) PROVE TimesInv'
    <2>1. CASE Status(r)
      BY <1>t, <2>1 DEF Status
    <2>2. CASE Detach(r)
      BY <1>t, <2>2 DEF Detach
    <2>3. CASE Attach(r)
      BY <1>t, <2>3 DEF Attach, Rested
    <2>4. CASE SendATFails(r)
      BY <1>t, <2>4 DEF SendATFails
    <2>5. CASE WaitForNewIP(r)
      BY <1>t, <2>5 DEF WaitForNewIP
    <2>6. CASE WaitTimesOut(r)
      BY <1>t, <2>6 DEF WaitTimesOut
    <2>7. CASE Mark(r)
      BY <1>t, <2>7 DEF Mark
    <2>8. CASE InsertRotation(r)
      BY <1>t, <2>8 DEF InsertRotation
    <2>9. CASE InsertEvent(r)
      BY <1>t, <2>9 DEF InsertEvent
    <2> QED
      BY <1>2, <2>1, <2>2, <2>3, <2>4, <2>5, <2>6, <2>7, <2>8, <2>9 DEF RotateStep
  <1>3. CASE Tick
    BY <1>t, <1>3 DEF Tick
  <1>4. CASE ModemsChange
    BY <1>t, <1>4 DEF ModemsChange, callVars
  <1>5. CASE UNCHANGED rotationVars
    BY <1>t, <1>5 DEF rotationVars, callVars
  <1> QED
    BY <1>1, <1>2, <1>3, <1>4, <1>5 DEF RotationNext

(***************************************************************************)
(* The cooldown covers every mark: lastUsed never goes back, and a call    *)
(* that begins after a mark has waited the interval.                       *)
(***************************************************************************)
LEMMA CooldownStep ==
    ASSUME RotationTypeOK, TimesInv, CooldownInv, [RotationNext]_rotationVars
    PROVE  CooldownInv'
  <1> USE RotationAssumption
  <1>t. InstantTypes
    BY InstantsAreTyped
  <1> USE DEF CooldownInv, TimesInv, InstantsInv, PauseInv, Begun, BegunAt,
              InstantTypes, RequestPC, Outcome, Goes, Ends
  <1>1. ASSUME NEW r \in Request, NEW m \in Modem, Check(r, m) PROVE CooldownInv'
    BY <1>t, <1>1 DEF Check, Cool
  <1>2. ASSUME NEW r \in Request, RotateStep(r) PROVE CooldownInv'
    <2>1. CASE Status(r)
      BY <1>t, <2>1 DEF Status
    <2>2. CASE Detach(r)
      BY <1>t, <2>2 DEF Detach
    <2>3. CASE Attach(r)
      BY <1>t, <2>3 DEF Attach
    <2>4. CASE SendATFails(r)
      BY <1>t, <2>4 DEF SendATFails
    <2>5. CASE WaitForNewIP(r)
      BY <1>t, <2>5 DEF WaitForNewIP
    <2>6. CASE WaitTimesOut(r)
      BY <1>t, <2>6 DEF WaitTimesOut
    <2>7. CASE Mark(r)
      BY <1>t, <2>7 DEF Mark, RotationTypeOK
    <2>8. CASE InsertRotation(r)
      BY <1>t, <2>8 DEF InsertRotation
    <2>9. CASE InsertEvent(r)
      BY <1>t, <2>9 DEF InsertEvent
    <2> QED
      BY <1>2, <2>1, <2>2, <2>3, <2>4, <2>5, <2>6, <2>7, <2>8, <2>9 DEF RotateStep
  <1>3. CASE Tick
    BY <1>t, <1>3 DEF Tick
  <1>4. CASE ModemsChange
    BY <1>t, <1>4 DEF ModemsChange, callVars
  <1>5. CASE UNCHANGED rotationVars
    BY <1>t, <1>5 DEF rotationVars, callVars
  <1> QED
    BY <1>1, <1>2, <1>3, <1>4, <1>5 DEF RotationNext

(***************************************************************************)
(* The three invariants hold together in every reachable state.            *)
(***************************************************************************)
THEOREM CooldownCorrect == RotationSpec => [](RotationTypeOK /\ TimesInv /\ CooldownInv)
<1>1. RotationInit => RotationTypeOK /\ TimesInv /\ CooldownInv
  <2> SUFFICES ASSUME RotationInit PROVE TimesInv /\ CooldownInv
    BY RotationTypeInit
  <2> QED
    BY RotationAssumption DEF RotationInit, TimesInv, InstantsInv, PauseInv, CooldownInv, Begun
<1>2. RotationTypeOK /\ TimesInv /\ CooldownInv /\ [RotationNext]_rotationVars
        => (RotationTypeOK /\ TimesInv /\ CooldownInv)'
  BY RotationTypeStep, TimesStep, CooldownStep
<1> QED
  BY <1>1, <1>2, PTL DEF RotationSpec

(***************************************************************************)
(* The cooldown and the pause, for any number of concurrent calls: a call  *)
(* that begins after a mark completes Interval + DetachTime later.         *)
(***************************************************************************)
THEOREM CompletionsAreSpacedHolds == RotationSpec => []CompletionsAreSpaced
<1>1. RotationTypeOK /\ TimesInv /\ CooldownInv => CompletionsAreSpaced
  <2> SUFFICES ASSUME RotationTypeOK, TimesInv, CooldownInv,
                      NEW r \in Request, NEW s \in Request,
                      Begun(s), target[r] = target[s],
                      markedAt[r] # None, markedAt[s] # None, BegunAt(s) > markedAt[r]
               PROVE  markedAt[s] >= markedAt[r] + Interval + DetachTime
    BY DEF CompletionsAreSpaced
  <2>1. BegunAt(s) >= markedAt[r] + Interval
    BY DEF CooldownInv
  <2>2. markedAt[s] >= BegunAt(s) + DetachTime
    BY DEF TimesInv, PauseInv
  <2>3. markedAt[r] \in Nat /\ markedAt[s] \in Nat /\ BegunAt(s) \in Nat
    BY DEF RotationTypeOK, Instant, TimesInv, InstantsInv
  <2> QED
    BY <2>1, <2>2, <2>3, RotationAssumption
<1> QED
  BY <1>1, CooldownCorrect, PTL

(***************************************************************************)
(* The mark a modem carries is that of a call which succeeded.             *)
(***************************************************************************)
MarksInv ==
    \A m \in Modem : lastUsed[m] # None =>
        \E s \in Request : target[s] = m /\ markedAt[s] = lastUsed[m]

\* The inductive step of the marks: only Mark writes one, and a call that begins or
\* is marked had none before.
LEMMA MarksStep ==
    ASSUME RotationTypeOK, TimesInv, MarksInv, [RotationNext]_rotationVars
    PROVE  MarksInv'
  <1>t. InstantTypes
    BY InstantsAreTyped
  <1> USE DEF MarksInv, InstantTypes, Goes
  <1>1. ASSUME NEW r \in Request, NEW m \in Modem, Check(r, m) PROVE MarksInv'
    <2>1. markedAt[r] = None
      BY <1>1 DEF Check, TimesInv, InstantsInv
    <2>2. /\ UNCHANGED <<lastUsed, markedAt>>
          /\ \A s \in Request \ {r} : target'[s] = target[s]
      BY <1>t, <1>1 DEF Check
    <2> QED
      BY <2>1, <2>2
  <1>2. ASSUME NEW r \in Request, Mark(r) PROVE MarksInv'
    <2>1. markedAt[r] = None /\ target[r] \in Modem
      BY <1>2 DEF Mark, TimesInv, InstantsInv, RotationTypeOK
    <2>2. /\ target' = target
          /\ lastUsed' = [lastUsed EXCEPT ![target[r]] = now]
          /\ markedAt' = [markedAt EXCEPT ![r] = now]
      BY <1>2 DEF Mark
    <2> SUFFICES ASSUME NEW m \in Modem, lastUsed'[m] # None
                 PROVE  \E s \in Request : target'[s] = m /\ markedAt'[s] = lastUsed'[m]
      OBVIOUS
    <2>3. CASE m = target[r]
      BY <1>t, <2>2, <2>3
    <2>4. CASE m # target[r]
      <3>1. lastUsed'[m] = lastUsed[m]
        BY <1>t, <2>2, <2>4
      <3>2. PICK s \in Request : target[s] = m /\ markedAt[s] = lastUsed[m]
        BY <3>1
      <3>3. markedAt'[s] = markedAt[s]
        BY <1>t, <2>2, <2>4, <3>2
      <3> QED
        BY <2>2, <3>1, <3>2, <3>3
    <2> QED
      BY <2>3, <2>4
  <1>3. ASSUME NEW r \in Request, RotateStep(r), ~Mark(r) PROVE MarksInv'
    <2>1. UNCHANGED <<lastUsed, target, markedAt>>
      BY <1>3 DEF RotateStep, Status, Detach, Attach, SendATFails, WaitForNewIP,
                  WaitTimesOut, InsertRotation, InsertEvent
    <2> QED
      BY <2>1
  <1>4. CASE Tick \/ ModemsChange \/ UNCHANGED rotationVars
    <2>1. UNCHANGED <<lastUsed, target, markedAt>>
      BY <1>4 DEF Tick, ModemsChange, rotationVars, callVars
    <2> QED
      BY <2>1
  <1> QED
    BY <1>1, <1>2, <1>3, <1>4 DEF RotationNext

\* A step after which a call is refused that was not: its check found the modem's mark.
LEMMA RefusalIsACheck ==
    ASSUME RotationTypeOK, [RotationNext]_rotationVars,
           NEW r \in Request, ~Refused(r), Refused(r)'
    PROVE  \E m \in Modem : Check(r, m) /\ ~Cool(m)
  <1>t. result \in [Request -> Outcome]
    BY DEF RotationTypeOK
  <1> USE DEF Refused, Ends
  <1>1. ASSUME NEW s \in Request, RotateStep(s) PROVE FALSE
    <2>1. \/ UNCHANGED result
          \/ \E how \in Outcome \ {"cooldown"} : result' = [result EXCEPT ![s] = how]
      BY <1>1 DEF RotateStep, Status, Detach, Attach, SendATFails, WaitForNewIP,
                  WaitTimesOut, Mark, InsertRotation, InsertEvent, Outcome
    <2> QED
      BY <1>t, <2>1
  <1>2. CASE Tick \/ ModemsChange \/ UNCHANGED rotationVars
    BY <1>2 DEF Tick, ModemsChange, rotationVars, callVars
  <1>3. PICK s \in Request, m \in Modem : Check(s, m)
    BY <1>1, <1>2 DEF RotationNext
  <1>4. ~Cool(m) /\ s = r
    BY <1>t, <1>3 DEF Check
  <1> QED
    BY <1>3, <1>4

(***************************************************************************)
(* A refusal has a cause: a rotation of the same modem that succeeded less *)
(* than the interval ago, for any number of concurrent calls.              *)
(***************************************************************************)
THEOREM RefusalsFollowSuccessHolds == RotationSpec => RefusalsFollowSuccess
<1>1. RotationInit => MarksInv
  BY DEF RotationInit, MarksInv
<1>2. RotationTypeOK /\ TimesInv /\ MarksInv /\ [RotationNext]_rotationVars => MarksInv'
  BY MarksStep
<1>3. RotationTypeOK /\ MarksInv /\ [RotationNext]_rotationVars
        => [\A r \in Request : ~Refused(r) /\ Refused(r)' =>
              \E s \in Request : /\ target[s] = target'[r]
                                 /\ markedAt[s] # None
                                 /\ now < markedAt[s] + Interval]_rotationVars
  <2> SUFFICES ASSUME RotationTypeOK, MarksInv, [RotationNext]_rotationVars,
                      NEW r \in Request, ~Refused(r), Refused(r)'
               PROVE  \E s \in Request : /\ target[s] = target'[r]
                                         /\ markedAt[s] # None
                                         /\ now < markedAt[s] + Interval
    OBVIOUS
  <2>t. InstantTypes
    BY InstantsAreTyped
  <2>1. PICK m \in Modem : Check(r, m) /\ ~Cool(m)
    BY RefusalIsACheck
  <2>2. target'[r] = m
    BY <2>t, <2>1 DEF Check, InstantTypes
  <2>3. lastUsed[m] # None /\ ~(now >= lastUsed[m] + Interval)
    BY <2>1 DEF Cool
  <2>4. PICK s \in Request : target[s] = m /\ markedAt[s] = lastUsed[m]
    BY <2>3 DEF MarksInv
  <2>5. now < markedAt[s] + Interval
    BY <2>t, <2>3, <2>4, RotationAssumption DEF InstantTypes
  <2> QED
    BY <2>2, <2>3, <2>4, <2>5
<1> QED
  BY <1>1, <1>2, <1>3, CooldownCorrect, PTL DEF RotationSpec, RefusalsFollowSuccess

(***************************************************************************)
(* The history.  A row belongs to a call past its insert, a call has an id *)
(* only once it is past it, and from then on nothing changes what the row  *)
(* was made of.                                                            *)
(***************************************************************************)
Inserted(r) == call[r] \in {"event", "done"}

HistoryInv ==
    /\ \E writer \in [1..Len(history) -> Request] :
          Wrote(writer) /\ \A k \in 1..Len(history) : Inserted(writer[k])
    /\ \A r \in Request :
          /\ rotationID[r] # 0 => Inserted(r)
          /\ call[r] \in {"mark", "record"} => newIP[r] \notin {None, oldIP[r]}

\* A step of the call r that writes no row keeps the history invariant when it
\* leaves the parts of rows alone or r has not come to its insert; the clock may go on.
LEMMA HistoryFrame ==
    ASSUME RotationTypeOK, HistoryInv, NEW r \in Request,
           UNCHANGED <<history, rotationID>>, now' \in Nat, now' >= now,
           \A q \in Request \ {r} :
              /\ call'[q] = call[q] /\ deadline'[q] = deadline[q]
              /\ target'[q] = target[q] /\ oldIP'[q] = oldIP[q] /\ newIP'[q] = newIP[q],
           \/ ~Inserted(r)
           \/ /\ Inserted(r)' /\ deadline'[r] = deadline[r]
              /\ target'[r] = target[r] /\ oldIP'[r] = oldIP[r] /\ newIP'[r] = newIP[r],
           call'[r] \in {"mark", "record"} => newIP'[r] \notin {None, oldIP'[r]}
    PROVE  HistoryInv'
<1>1. PICK writer \in [1..Len(history) -> Request] :
         Wrote(writer) /\ \A k \in 1..Len(history) : Inserted(writer[k])
  BY DEF HistoryInv
<1>2. \A q \in Request : Inserted(q) =>
         /\ Inserted(q)' /\ NewRow(q)' = NewRow(q) /\ deadline'[q] = deadline[q]
         /\ oldIP'[q] = oldIP[q] /\ newIP'[q] = newIP[q]
  BY DEF Inserted, NewRow
<1>3. \A q \in Request : Inserted(q) /\ Expired(q) => Expired(q)'
  BY <1>2 DEF RotationTypeOK, Expired
<1>4. \A k \in 1..Len(history) : writer[k] \in Request /\ Inserted(writer[k])
  BY <1>1
<1>5. (\A k \in 1..Len(history) : Inserted(writer[k]))'
  BY <1>2, <1>4
<1>6. Wrote(writer)'
  BY <1>1, <1>2, <1>3, <1>4 DEF Wrote
<1>7. \A q \in Request : rotationID'[q] # 0 => Inserted(q)'
  BY <1>2 DEF HistoryInv
<1>8. \A q \in Request : call'[q] \in {"mark", "record"} => newIP'[q] \notin {None, oldIP'[q]}
  BY DEF HistoryInv
<1> QED
  BY <1>5, <1>6, <1>7, <1>8 DEF HistoryInv

\* A row that is appended belongs to the call that inserts it, which has none yet.
LEMMA InsertKeepsHistory ==
    ASSUME RotationTypeOK, HistoryInv, NEW r \in Request,
           Goes(r, "record", "event"), Insert(r) \/ InsertUnreported(r),
           UNCHANGED <<now, target, deadline, oldIP, newIP>>
    PROVE  HistoryInv'
<1>t. /\ call \in [Request -> RequestPC] /\ target \in [Request -> Modem \cup {None}]
      /\ oldIP \in [Request -> IP \cup {None}] /\ newIP \in [Request -> IP \cup {None}]
      /\ rotationID \in [Request -> Nat] /\ history \in Seq(Row)
  BY DEF RotationTypeOK
<1>n. PICK n \in Nat : n = Len(history)
  BY <1>t, LenProperties
<1>1. PICK writer \in [1..n -> Request] :
         Wrote(writer) /\ \A k \in 1..n : Inserted(writer[k])
  BY <1>n DEF HistoryInv
<1>2. /\ history' = Append(history, NewRow(r)) /\ NewRow(r) \in Row
      /\ call[r] = "record" /\ call' = [call EXCEPT ![r] = "event"]
  BY <1>t DEF Goes, Insert, InsertUnreported, NewRow, Row
<1>3. /\ n \in Nat /\ Len(history') = n + 1
      /\ \A k \in 1..n : history'[k] = history[k]
      /\ history'[n + 1] = NewRow(r)
  BY <1>t, <1>n, <1>2, AppendProperties, LenProperties
<1>4. /\ \A q \in Request \ {r} : rotationID'[q] = rotationID[q]
      /\ rotationID'[r] = n + 1 \/ (rotationID'[r] = 0 /\ Expired(r))
  <2>1. CASE Insert(r)
    BY <1>t, <1>3, <2>1 DEF Insert
  <2>2. CASE InsertUnreported(r)
    BY <1>2, <2>2 DEF InsertUnreported, HistoryInv, Inserted
  <2> QED
    BY <2>1, <2>2
<1>5. \A q \in Request : /\ NewRow(q)' = NewRow(q) /\ (Expired(q) => Expired(q)')
                         /\ (Inserted(q) => Inserted(q)' /\ q # r)
  BY <1>t, <1>2 DEF NewRow, Expired, Inserted
<1>6. newIP[r] \notin {None, oldIP[r]} /\ Inserted(r)'
  BY <1>t, <1>2 DEF HistoryInv, Inserted
<1>7. PICK heir \in [1..Len(history') -> Request] :
         /\ heir[n + 1] = r
         /\ \A k \in 1..n : heir[k] = writer[k] /\ writer[k] \in Request \ {r}
  <2> DEFINE f == [k \in 1..(n + 1) |-> IF k = n + 1 THEN r ELSE writer[k]]
  <2>1. n + 1 \in 1..(n + 1) /\ \A k \in 1..n : k \in 1..(n + 1) /\ k # n + 1
    BY <1>n
  <2>2. \A k \in 1..n : writer[k] \in Request \ {r}
    BY <1>1, <1>5
  <2>3. \A k \in 1..(n + 1) : k = n + 1 \/ k \in 1..n
    BY <1>n
  <2>4. f \in [1..(n + 1) -> Request]
    BY <2>2, <2>3
  <2>5. f[n + 1] = r /\ \A k \in 1..n : f[k] = writer[k]
    BY <2>1
  <2> HIDE DEF f
  <2> QED
    BY <1>3, <2>2, <2>4, <2>5
<1>8. \A k \in 1..Len(history') : k \in 1..n \/ k = n + 1
  BY <1>3
<1>9. (\A k \in 1..Len(history) : Inserted(heir[k]))'
  BY <1>1, <1>5, <1>6, <1>7, <1>8
<1>10. Wrote(heir)'
  <2>w. /\ \A j, k \in 1..n : writer[j] = writer[k] => j = k
        /\ \A k \in 1..n :
              /\ history[k] = NewRow(writer[k])
              /\ newIP[writer[k]] \notin {None, oldIP[writer[k]]}
              /\ \/ rotationID[writer[k]] = k
                 \/ rotationID[writer[k]] = 0 /\ Expired(writer[k])
        /\ \A q \in Request : rotationID[q] # 0 =>
              rotationID[q] \in 1..n /\ writer[rotationID[q]] = q
    BY <1>n, <1>1 DEF Wrote
  <2>1. \A j, k \in 1..Len(history') : heir[j] = heir[k] => j = k
    BY <1>7, <1>8, <2>w
  <2>2. ASSUME NEW k \in 1..Len(history')
        PROVE  /\ history'[k] = NewRow(heir[k])'
               /\ newIP'[heir[k]] \notin {None, oldIP'[heir[k]]}
               /\ \/ rotationID'[heir[k]] = k
                  \/ rotationID'[heir[k]] = 0 /\ Expired(heir[k])'
    <3>1. CASE k = n + 1
      BY <1>3, <1>4, <1>5, <1>6, <1>7, <3>1
    <3>2. CASE k \in 1..n
      <4>1. heir[k] = writer[k] /\ writer[k] \in Request \ {r}
        BY <1>7, <3>2
      <4>2. /\ history'[k] = NewRow(writer[k])
            /\ NewRow(writer[k])' = NewRow(writer[k])
        BY <1>3, <1>5, <2>w, <3>2, <4>1
      <4>3. rotationID'[writer[k]] = rotationID[writer[k]]
        BY <1>4, <4>1
      <4> QED
        BY <1>5, <2>w, <3>2, <4>1, <4>2, <4>3
    <3> QED
      BY <1>8, <3>1, <3>2
  <2>3. ASSUME NEW q \in Request, rotationID'[q] # 0
        PROVE  rotationID'[q] \in 1..Len(history') /\ heir[rotationID'[q]] = q
    <3>1. CASE q = r
      BY <1>3, <1>4, <1>7, <2>3, <3>1
    <3>2. CASE q # r
      <4>1. rotationID'[q] \in 1..n /\ writer[rotationID'[q]] = q
        BY <1>4, <2>w, <2>3, <3>2
      <4> QED
        BY <1>3, <1>7, <4>1
    <3> QED
      BY <3>1, <3>2
  <2> QED
    BY <2>1, <2>2, <2>3 DEF Wrote
<1>11. \A q \in Request : /\ rotationID'[q] # 0 => Inserted(q)'
                          /\ call'[q] \in {"mark", "record"} =>
                                newIP'[q] \notin {None, oldIP'[q]}
  BY <1>t, <1>2, <1>4, <1>5, <1>6 DEF HistoryInv
<1> QED
  BY <1>7, <1>9, <1>10, <1>11 DEF HistoryInv

\* The inductive step of the history.
LEMMA HistoryStep ==
    ASSUME RotationTypeOK, HistoryInv, [RotationNext]_rotationVars PROVE HistoryInv'
  <1>t. /\ call \in [Request -> RequestPC] /\ target \in [Request -> Modem \cup {None}]
        /\ oldIP \in [Request -> IP \cup {None}] /\ newIP \in [Request -> IP \cup {None}]
        /\ deadline \in [Request -> Nat] /\ now \in Nat /\ now >= now
    BY DEF RotationTypeOK
  <1>h. \A r \in Request :
          call[r] \in {"mark", "record"} => newIP[r] \notin {None, oldIP[r]}
    BY DEF HistoryInv
  <1> USE DEF Goes, storeVars, Inserted
  <1>1. ASSUME NEW r \in Request, NEW m \in Modem, Check(r, m) PROVE HistoryInv'
    <2>1. /\ call[r] = "idle" /\ call'[r] \in {"status", "done"}
          /\ UNCHANGED <<history, rotationID, oldIP, newIP, now>>
      BY <1>t, <1>1 DEF Check
    <2>2. \A q \in Request \ {r} : /\ call'[q] = call[q] /\ deadline'[q] = deadline[q]
                                   /\ target'[q] = target[q]
      BY <1>t, <1>1 DEF Check
    <2> QED
      BY <1>t, <2>1, <2>2, HistoryFrame
  <1>2. ASSUME NEW r \in Request, RotateStep(r) PROVE HistoryInv'
    <2>1. CASE Status(r)
      BY <1>t, <1>h, <2>1, HistoryFrame DEF Status
    <2>2. CASE Detach(r)
      BY <1>t, <1>h, <2>2, HistoryFrame DEF Detach
    <2>3. CASE Attach(r)
      BY <1>t, <1>h, <2>3, HistoryFrame DEF Attach
    <2>4. CASE SendATFails(r)
      BY <1>t, <1>h, <2>4, HistoryFrame DEF SendATFails
    <2>5. CASE WaitForNewIP(r)
      BY <1>t, <1>h, <2>5, HistoryFrame DEF WaitForNewIP, NewAddress
    <2>6. CASE WaitTimesOut(r)
      BY <1>t, <1>h, <2>6, HistoryFrame DEF WaitTimesOut
    <2>7. CASE Mark(r)
      BY <1>t, <1>h, <2>7, HistoryFrame DEF Mark
    <2>8. CASE InsertRotation(r)
      <3>1. CASE UNCHANGED <<history, rotationID>>
        BY <1>t, <1>h, <2>8, <3>1, HistoryFrame DEF InsertRotation
      <3>2. CASE Insert(r) \/ InsertUnreported(r)
        BY <2>8, <3>2, InsertKeepsHistory DEF InsertRotation
      <3> QED
        BY <2>8, <3>1, <3>2 DEF InsertRotation
    <2>9. CASE InsertEvent(r)
      BY <1>t, <1>h, <2>9, HistoryFrame DEF InsertEvent
    <2> QED
      BY <1>2, <2>1, <2>2, <2>3, <2>4, <2>5, <2>6, <2>7, <2>8, <2>9 DEF RotateStep
  <1>3. CASE Tick \/ ModemsChange \/ UNCHANGED rotationVars
    <2>1. UNCHANGED <<history, call, target, deadline, oldIP, newIP, rotationID>>
      BY <1>3 DEF Tick, ModemsChange, rotationVars, callVars
    <2>2. now' \in Nat /\ now' >= now
      BY <1>t, <1>3 DEF Tick, ModemsChange, rotationVars, callVars
    <2>3. CASE Request = {}
      BY <2>1, <2>3 DEF HistoryInv, Wrote
    <2>4. CASE Request # {}
      <3>1. PICK r \in Request : TRUE
        BY <2>4
      <3> QED
        BY <1>h, <2>1, <2>2, <3>1, HistoryFrame
    <2> QED
      BY <2>3, <2>4
  <1> QED
    BY <1>1, <1>2, <1>3 DEF RotationNext

(***************************************************************************)
(* The history and the answers agree, for any number of calls, wherever    *)
(* inserts fail and deadlines fall.                                        *)
(***************************************************************************)
THEOREM HistoryMatchesAnswersHolds == RotationSpec => []HistoryMatchesAnswers
<1>1. RotationInit => HistoryInv
  <2> SUFFICES ASSUME RotationInit PROVE HistoryInv
    OBVIOUS
  <2>1. Len(history) = 0 /\ 1..Len(history) = {}
    BY DEF RotationInit
  <2>2. <<>> \in [1..Len(history) -> Request] /\ Wrote(<<>>)
    BY <2>1 DEF RotationInit, Wrote
  <2> QED
    BY <2>1, <2>2 DEF RotationInit, HistoryInv
<1>2. RotationTypeOK /\ HistoryInv /\ [RotationNext]_rotationVars => HistoryInv'
  BY HistoryStep
<1>3. HistoryInv => HistoryMatchesAnswers
  BY DEF HistoryInv, HistoryMatchesAnswers
<1> QED
  BY <1>1, <1>2, <1>3, RotationTypeCorrect, PTL DEF RotationSpec
=============================================================================
