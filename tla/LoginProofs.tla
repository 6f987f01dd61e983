----------------------------- MODULE LoginProofs -----------------------------
(***************************************************************************)
(* Theorems about the dashboard's login, for any number of addresses,      *)
(* concurrent requests and sessions and any limit of attempts.             *)
(***************************************************************************)
EXTENDS Login, FiniteSetTheorems, TLAPS

(***************************************************************************)
(* Types.  LoginPost and the steps of Allow say which entry is read,       *)
(* Record which one is written.                                            *)
(***************************************************************************)
LEMMA TypeInit == Init => TypeOK
  BY LoginAssumption DEF Init, TypeOK, Age, ConnPC

\* The inductive step of the types, for the steps of one login.
LEMMA TypeLoginStep ==
    ASSUME TypeOK, NEW c \in Conn, LoginStep(c) PROVE TypeOK'
<1>1. CASE AllowWindow(c)
  BY <1>1, LoginAssumption
  DEF TypeOK, Age, ConnPC, AllowWindow, Goes, limiterVars, sessionVars, observer
<1>2. CASE AllowForget(c)
  BY <1>2, LoginAssumption
  DEF TypeOK, Age, ConnPC, AllowForget, Goes, Forgets, sessionVars, observer
<1>3. CASE AllowCount(c)
  BY <1>3, LoginAssumption
  DEF TypeOK, Age, ConnPC, AllowCount, Goes, Forgets, limiterVars, sessionVars, observer
<1>4. CASE Record(c)
  BY <1>4, LoginAssumption
  DEF TypeOK, Age, ConnPC, Record, Goes, Forgets, sessionVars, observer
<1>5. CASE Create(c)
  BY <1>5, LoginAssumption
  DEF TypeOK, Age, ConnPC, Create, Goes, Forgets, limiterVars, observer
<1> QED BY <1>1, <1>2, <1>3, <1>4, <1>5 DEF LoginStep

\* The inductive step of the types.
LEMMA TypeStep == TypeOK /\ [Next]_vars => TypeOK'
<1> SUFFICES ASSUME TypeOK, [Next]_vars PROVE TypeOK'
  OBVIOUS
<1>1. ASSUME NEW c \in Conn, PageStep(c) PROVE TypeOK'
  <2>1. CASE CheckExpiry(c)
    BY <2>1, LoginAssumption
    DEF TypeOK, ConnPC, CheckExpiry, Goes, limiterVars, sessionVars, observer
  <2>2. CASE DeleteExpired(c)
    BY <2>2, LoginAssumption
    DEF TypeOK, ConnPC, DeleteExpired, Goes, limiterVars, observer
  <2>3. CASE Reply(c)
    BY <2>3, LoginAssumption
    DEF TypeOK, ConnPC, Reply, Forgets, limiterVars, sessionVars
  <2> QED BY <1>1, <2>1, <2>2, <2>3 DEF PageStep
<1>2. ASSUME NEW c \in Conn, NEW k \in Client, LoginPost(c, k) PROVE TypeOK'
  BY <1>2, LoginAssumption
  DEF TypeOK, ConnPC, LoginPost, Goes, limiterVars, sessionVars, observer
<1>3. ASSUME NEW c \in Conn, NEW t \in issued, OpenPage(c, t) PROVE TypeOK'
  BY <1>3, LoginAssumption
  DEF TypeOK, ConnPC, OpenPage, Goes, limiterVars, sessionVars
<1>4. ASSUME NEW t \in issued, Logout(t) \/ Expire(t) PROVE TypeOK'
  BY <1>4 DEF TypeOK, Logout, Expire, limiterVars, sessionVars, observer
<1>5. ASSUME NEW e \in Entry, GrowOld(e) PROVE TypeOK'
  BY <1>5 DEF TypeOK, Age, GrowOld, sessionVars, observer
<1>6. CASE CleanAttempts
  BY <1>6 DEF TypeOK, CleanAttempts, sessionVars, observer
<1>7. CASE CleanSessions
  BY <1>7 DEF TypeOK, CleanSessions, limiterVars, observer
<1>8. CASE UNCHANGED vars
  BY <1>8 DEF TypeOK, vars, limiterVars, sessionVars, observer
<1> QED
  BY <1>1, <1>2, <1>3, <1>4, <1>5, <1>6, <1>7, <1>8, TypeLoginStep DEF Next

(***************************************************************************)
(* Entries, sessions and requests keep their types: every call of Allow    *)
(* holds an entry, and every page request a token that was handed out.     *)
(***************************************************************************)
THEOREM TypeCorrect == Spec => []TypeOK
  BY TypeInit, TypeStep, PTL DEF Spec

-----------------------------------------------------------------------------
(***************************************************************************)
(* Sessions: a token is in the store until it is logged out or expired,    *)
(* and a page request that found it there late found it good when it       *)
(* began.                                                                  *)
(***************************************************************************)
StoreInv ==
    /\ issued \subseteq sessions \cup loggedOut \cup expired
    /\ sessions \cap loggedOut = {}

PageInv ==
    \A c \in Conn :
        /\ pc[c] = "expiry" => c \notin begunStale \/ token[c] \in expired
        /\ pc[c] = "delete" => token[c] \in expired
        /\ pc[c] = "serve" => c \notin begunStale
        /\ pc[c] = "redirect" => ~Valid(token[c])

\* The inductive step of the sessions.
LEMMA SessionStep ==
    ASSUME TypeOK, StoreInv, PageInv, [Next]_vars PROVE StoreInv' /\ PageInv'
<1> USE DEF TypeOK, StoreInv, PageInv, Valid
<1>1. ASSUME NEW c \in Conn, LoginStep(c) PROVE StoreInv' /\ PageInv'
  <2>1. CASE Create(c)
    BY <2>1 DEF Create, Goes, observer
  <2>2. CASE AllowWindow(c) \/ AllowForget(c) \/ AllowCount(c) \/ Record(c)
    BY <2>2 DEF AllowWindow, AllowForget, AllowCount, Record, Goes, sessionVars, observer
  <2> QED BY <1>1, <2>1, <2>2 DEF LoginStep
<1>2. ASSUME NEW c \in Conn, PageStep(c) PROVE StoreInv' /\ PageInv'
  <2>1. CASE CheckExpiry(c)
    BY <2>1 DEF CheckExpiry, Goes, sessionVars, observer
  <2>2. CASE DeleteExpired(c)
    BY <2>2 DEF DeleteExpired, Goes, observer
  <2>3. CASE Reply(c)
    BY <2>3, LoginAssumption DEF Reply, Forgets, sessionVars
  <2> QED BY <1>2, <2>1, <2>2, <2>3 DEF PageStep
<1>3. ASSUME NEW c \in Conn, NEW k \in Client, LoginPost(c, k) PROVE StoreInv' /\ PageInv'
  BY <1>3 DEF LoginPost, Goes, sessionVars, observer
<1>4. ASSUME NEW c \in Conn, NEW t \in issued, OpenPage(c, t) PROVE StoreInv' /\ PageInv'
  BY <1>4 DEF OpenPage, Goes, sessionVars
<1>5. ASSUME NEW t \in issued, Logout(t) PROVE StoreInv' /\ PageInv'
  BY <1>5 DEF Logout
<1>6. ASSUME NEW t \in issued, Expire(t) PROVE StoreInv' /\ PageInv'
  BY <1>6 DEF Expire, observer
<1>7. ASSUME NEW e \in Entry, GrowOld(e) PROVE StoreInv' /\ PageInv'
  BY <1>7 DEF GrowOld, sessionVars, observer
<1>8. CASE CleanAttempts
  BY <1>8 DEF CleanAttempts, sessionVars, observer
<1>9. CASE CleanSessions
  BY <1>9 DEF CleanSessions, observer
<1>10. CASE UNCHANGED vars
  BY <1>10 DEF vars, sessionVars, observer
<1> QED
  BY <1>1, <1>2, <1>3, <1>4, <1>5, <1>6, <1>7, <1>8, <1>9, <1>10 DEF Next

(***************************************************************************)
(* Page requests, logouts, expiry and cleanup in any order: a page is      *)
(* served only on a token that was good when its request began, and        *)
(* refused only on a dead one.                                             *)
(***************************************************************************)
THEOREM AnswersMatchSessionsHolds == Spec => []AnswersMatchSessions
<1>1. Init => StoreInv /\ PageInv
  BY DEF Init, StoreInv, PageInv
<1>2. TypeOK /\ StoreInv /\ PageInv /\ [Next]_vars => StoreInv' /\ PageInv'
  BY SessionStep
<1>3. PageInv => AnswersMatchSessions
  BY DEF PageInv, AnswersMatchSessions
<1> QED BY <1>1, <1>2, <1>3, TypeCorrect, PTL DEF Spec

-----------------------------------------------------------------------------
(***************************************************************************)
(* Failures.  A login under way for an address may still be counted unless *)
(* it holds the address's entry and that entry is full.  What is counted   *)
(* and what may still be never exceed the bound together.                  *)
(***************************************************************************)
LoginPC == {"window", "forget", "count", "compare"}

Spent(c, k) ==
    /\ pc[c] \in {"window", "count"}
    /\ info[c] = attempts[k] /\ count[info[c]] >= MaxAttempts

MayCount(k) ==
    {c \in Conn : client[c] = k /\ pc[c] \in LoginPC /\ ~Spent(c, k)}

Fresh(k) == attempts[k] # None /\ age[attempts[k]] = "fresh"

Bounded(k) ==
    Fresh(k) =>
        count[attempts[k]] + Cardinality(MayCount(k)) <= MaxAttempts - 1 + Cardinality(Conn)

\* No two addresses share an entry.
Unshared ==
    \A k, l \in Client : attempts[k] = attempts[l] /\ attempts[k] # None => k = l

FailureInv == Unshared /\ \A k \in Client : Bounded(k)

\* The requests that may still count are finitely many, no more than all.
LEMMA MayCountFinite ==
    ASSUME NEW A \in SUBSET Conn
    PROVE  /\ IsFiniteSet(A) /\ Cardinality(A) \in Nat /\ Cardinality(Conn) \in Nat
           /\ Cardinality(A) <= Cardinality(Conn)
  BY FS_Subset, FS_CardinalityType, LoginAssumption

\* A step that leaves the entry of k alone and lets no further request count.
LEMMA Undisturbed ==
    ASSUME TypeOK, NEW k \in Client, Bounded(k), Fresh(k)' => Fresh(k),
           attempts[k] # None /\ attempts'[k] # None =>
              count'[attempts'[k]] = count[attempts[k]],
           MayCount(k)' \subseteq MayCount(k)
    PROVE  Bounded(k)'
<1> SUFFICES ASSUME Fresh(k)'
             PROVE  count'[attempts'[k]] + Cardinality(MayCount(k)')
                       <= MaxAttempts - 1 + Cardinality(Conn)
  BY DEF Bounded
<1>1. Fresh(k) /\ count'[attempts'[k]] = count[attempts[k]] /\ count[attempts[k]] \in Nat
  BY DEF Fresh, TypeOK
<1>2. MayCount(k) \in SUBSET Conn
  BY DEF MayCount
<1>3. Cardinality(MayCount(k)') <= Cardinality(MayCount(k))
  BY <1>2, MayCountFinite, FS_Subset
<1>4. /\ Cardinality(MayCount(k)') \in Nat /\ Cardinality(MayCount(k)) \in Nat
      /\ Cardinality(Conn) \in Nat
  BY <1>2, MayCountFinite
<1> QED BY <1>1, <1>3, <1>4, LoginAssumption DEF Bounded

\* A request that ends, or one that is no login, counts for nobody.
LEMMA OtherSteps ==
    ASSUME TypeOK, FailureInv, NEW c \in Conn,
           UNCHANGED limiterVars, UNCHANGED info, \A d \in Conn \ {c} : client'[d] = client[d],
           pc'[c] \notin LoginPC, \A d \in Conn \ {c} : pc'[d] = pc[d]
    PROVE  FailureInv'
<1>1. \A k \in Client : MayCount(k)' \subseteq MayCount(k)
  BY DEF MayCount, Spent, limiterVars
<1>2. \A k \in Client : Fresh(k)' => Fresh(k)
  BY DEF Fresh, limiterVars
<1>3. \A k \in Client : Bounded(k)'
  BY <1>1, <1>2, Undisturbed DEF FailureInv, limiterVars
<1> QED BY <1>3 DEF FailureInv, Unshared, limiterVars

\* A login begins: it may count only if the entry it reads is not full.
LEMMA FailureLoginPost ==
    ASSUME TypeOK, FailureInv, NEW c \in Conn, NEW l \in Client, LoginPost(c, l)
    PROVE  FailureInv'
<1> SUFFICES ASSUME NEW k \in Client PROVE Bounded(k)'
  BY DEF FailureInv, Unshared, LoginPost, limiterVars
<1>1. Fresh(k)' <=> Fresh(k)
  BY DEF Fresh, LoginPost, limiterVars
<1>2. UNCHANGED <<attempts, count>>
  BY DEF LoginPost, limiterVars
<1>3. CASE k = l /\ Fresh(k) /\ count[attempts[k]] < MaxAttempts
  <2>1. MayCount(k)' \in SUBSET Conn
    BY DEF MayCount
  <2>2. /\ Cardinality(MayCount(k)') \in Nat /\ Cardinality(Conn) \in Nat
        /\ Cardinality(MayCount(k)') <= Cardinality(Conn)
    BY <2>1, MayCountFinite
  <2>3. count[attempts[k]] \in Nat
    BY <1>3 DEF TypeOK, Fresh
  <2> QED BY <1>2, <1>3, <2>2, <2>3, LoginAssumption DEF Bounded
<1>4. CASE k # l \/ ~Fresh(k) \/ count[attempts[k]] >= MaxAttempts
  <2>1. CASE ~Fresh(k)
    BY <1>1, <2>1 DEF Bounded
  <2>2. CASE Fresh(k) /\ (k # l \/ count[attempts[k]] >= MaxAttempts)
    <3>1. MayCount(k)' \subseteq MayCount(k)
      BY <2>2 DEF MayCount, Spent, Fresh, LoginPost, Goes, limiterVars, TypeOK
    <3> QED BY <1>1, <1>2, <3>1, Undisturbed DEF FailureInv
  <2> QED BY <1>4, <2>1, <2>2
<1>5. Fresh(k) => count[attempts[k]] \in Nat
  BY DEF Fresh, TypeOK
<1> QED BY <1>3, <1>4, <1>5, LoginAssumption DEF Bounded, Fresh

\* Allow: whoever gets through could count before, and a deletion leaves no entry.
LEMMA FailureAllow ==
    ASSUME TypeOK, FailureInv, NEW c \in Conn,
           AllowWindow(c) \/ AllowForget(c) \/ AllowCount(c)
    PROVE  FailureInv'
<1>1. CASE AllowWindow(c)
  <2> SUFFICES ASSUME NEW k \in Client PROVE Bounded(k)'
    BY <1>1 DEF FailureInv, Unshared, AllowWindow, limiterVars
  <2>1. UNCHANGED <<attempts, count, age>>
    BY <1>1 DEF AllowWindow, limiterVars
  <2>2. CASE ~Fresh(k)
    BY <2>1, <2>2 DEF Bounded, Fresh
  <2>3. CASE Fresh(k)
    <3>1. MayCount(k)' \subseteq MayCount(k)
      BY <1>1, <2>3 DEF MayCount, Spent, Fresh, LoginPC, AllowWindow, Goes, limiterVars, TypeOK
    <3> QED BY <2>1, <2>3, <3>1, Undisturbed DEF FailureInv
  <2> QED BY <2>2, <2>3
<1>2. CASE AllowForget(c)
  <2>1. Unshared'
    BY <1>2, LoginAssumption DEF FailureInv, Unshared, AllowForget, Goes, TypeOK
  <2> SUFFICES ASSUME NEW k \in Client PROVE Bounded(k)'
    BY <2>1 DEF FailureInv
  <2>2. CASE k = client[c]
    BY <1>2, <2>2 DEF Bounded, Fresh, AllowForget, TypeOK
  <2>3. CASE k # client[c]
    <3>1. attempts'[k] = attempts[k] /\ UNCHANGED <<count, age>>
      BY <1>2, <2>3 DEF AllowForget, Goes, TypeOK
    <3>2. MayCount(k)' \subseteq MayCount(k)
      BY <1>2, <2>3, <3>1
      DEF MayCount, Spent, AllowForget, Goes, Forgets, TypeOK
    <3> QED BY <3>1, <3>2, Undisturbed DEF FailureInv, Fresh
  <2> QED BY <2>2, <2>3
<1>3. CASE AllowCount(c)
  <2> SUFFICES ASSUME NEW k \in Client PROVE Bounded(k)'
    BY <1>3 DEF FailureInv, Unshared, AllowCount, limiterVars
  <2>1. UNCHANGED <<attempts, count, age>>
    BY <1>3 DEF AllowCount, limiterVars
  <2>2. MayCount(k)' \subseteq MayCount(k)
    BY <1>3, LoginAssumption
    DEF MayCount, Spent, LoginPC, AllowCount, Goes, Forgets, limiterVars, TypeOK
  <2> QED BY <2>1, <2>2, Undisturbed DEF FailureInv, Fresh
<1> QED BY <1>1, <1>2, <1>3

\* A failure is counted: one request less that may still be, or a new entry.
LEMMA FailureRecord ==
    ASSUME TypeOK, FailureInv, NEW c \in Conn, Record(c) PROVE FailureInv'
<1>1. PICK l \in Client : l = client[c] /\ pc[c] = "compare" /\ pc'[c] = "idle"
  BY DEF Record, Goes, TypeOK
<1>2. c \notin MayCount(l)' /\ \A k \in Client \ {l} : c \notin MayCount(k)'
  BY <1>1 DEF MayCount, LoginPC
<1>3. /\ \A d \in Conn \ {c} : pc'[d] = pc[d] /\ client'[d] = client[d]
      /\ UNCHANGED info
  BY DEF Record, Goes, Forgets, TypeOK
<1>4. CASE Fresh(l)
  <2>1. /\ UNCHANGED <<attempts, age>>
        /\ count' = [count EXCEPT ![attempts[l]] = @ + 1]
    BY <1>1, <1>4 DEF Record, Fresh
  <2>2. Unshared'
    BY <2>1 DEF FailureInv, Unshared
  <2>3. Bounded(l)'
    <3>1. attempts[l] \in Entry /\ count[attempts[l]] \in Nat
          /\ count'[attempts'[l]] = count[attempts[l]] + 1
      BY <1>1, <1>4, <2>1 DEF TypeOK, Fresh
    <3>2. c \in MayCount(l) /\ MayCount(l) \in SUBSET Conn
      BY <1>1 DEF MayCount, LoginPC, Spent
    <3>3. \A d \in Conn : Spent(d, l) => pc'[d] = pc[d] /\ d # c
      BY <1>1, <1>3 DEF Spent
    <3>4. \A d \in Conn : Spent(d, l) => Spent(d, l)'
      BY <1>3, <2>1, <3>1, <3>3, LoginAssumption DEF Spent
    <3>5. MayCount(l)' \subseteq MayCount(l) \ {c}
      BY <1>2, <1>3, <3>4 DEF MayCount
    <3>6. /\ IsFiniteSet(MayCount(l)) /\ Cardinality(MayCount(l)) \in Nat
          /\ Cardinality(Conn) \in Nat
      BY <3>2, MayCountFinite
    <3>7. /\ IsFiniteSet(MayCount(l) \ {c})
          /\ Cardinality(MayCount(l) \ {c}) = Cardinality(MayCount(l)) - 1
      BY <3>2, <3>6, FS_RemoveElement
    <3>8. /\ Cardinality(MayCount(l)') <= Cardinality(MayCount(l)) - 1
          /\ Cardinality(MayCount(l)') \in Nat
      BY <3>5, <3>7, FS_Subset, FS_CardinalityType
    <3>9. count[attempts[l]] + Cardinality(MayCount(l))
             <= MaxAttempts - 1 + Cardinality(Conn)
      BY <1>1, <1>4 DEF FailureInv, Bounded
    <3> QED BY <3>1, <3>6, <3>8, <3>9, LoginAssumption DEF Bounded
  <2>4. ASSUME NEW k \in Client, k # l PROVE Bounded(k)'
    <3>1. attempts[k] # None => count'[attempts[k]] = count[attempts[k]]
      BY <1>1, <2>1, <2>4 DEF FailureInv, Unshared, TypeOK
    <3>2. MayCount(k)' \subseteq MayCount(k)
      BY <1>2, <1>3, <2>1, <2>4, <3>1, LoginAssumption DEF MayCount, Spent, LoginPC, TypeOK
    <3> QED BY <2>1, <3>1, <3>2, Undisturbed DEF FailureInv, Fresh
  <2> QED BY <2>2, <2>3, <2>4 DEF FailureInv
<1>5. CASE ~Fresh(l)
  <2>1. PICK e \in Entry :
          /\ ~InUse(e)
          /\ attempts' = [attempts EXCEPT ![l] = e]
          /\ count' = [count EXCEPT ![e] = 1]
          /\ age' = [age EXCEPT ![e] = "fresh"]
    BY <1>1, <1>5 DEF Record, Fresh, IsNew
  <2>2. Unshared'
    BY <1>1, <2>1 DEF FailureInv, Unshared, InUse, TypeOK
  <2>3. Bounded(l)'
    <3>1. count'[attempts'[l]] = 1
      BY <1>1, <2>1 DEF TypeOK
    <3>2. MayCount(l)' \subseteq Conn \ {c}
      BY <1>2 DEF MayCount
    <3>3. /\ IsFiniteSet(Conn) /\ IsFiniteSet(Conn \ {c})
          /\ Cardinality(Conn) \in Nat
          /\ Cardinality(Conn \ {c}) = Cardinality(Conn) - 1
      BY FS_RemoveElement, FS_CardinalityType, LoginAssumption
    <3>4. /\ Cardinality(MayCount(l)') <= Cardinality(Conn) - 1
          /\ Cardinality(MayCount(l)') \in Nat
      BY <3>2, <3>3, FS_Subset, FS_CardinalityType
    <3> QED BY <3>1, <3>3, <3>4, LoginAssumption DEF Bounded
  <2>4. ASSUME NEW k \in Client, k # l PROVE Bounded(k)'
    <3>1. /\ attempts'[k] = attempts[k] /\ attempts[k] # e
          /\ attempts[k] # None => attempts[k] \in Entry
      BY <1>1, <2>1, <2>4 DEF InUse, TypeOK
    <3>2. attempts[k] # None =>
             count'[attempts[k]] = count[attempts[k]] /\ age'[attempts[k]] = age[attempts[k]]
      BY <2>1, <3>1 DEF TypeOK
    <3>3. \A d \in Conn : info[d] = attempts[k] /\ info[d] \in Entry =>
             count'[info[d]] = count[info[d]]
      BY <3>1, <3>2, LoginAssumption
    <3>4. MayCount(k)' \subseteq MayCount(k)
      BY <1>2, <1>3, <2>4, <3>1, <3>3 DEF MayCount, Spent, LoginPC, TypeOK
    <3> QED BY <3>1, <3>2, <3>4, Undisturbed DEF FailureInv, Fresh
  <2> QED BY <2>2, <2>3, <2>4 DEF FailureInv
<1> QED BY <1>4, <1>5

\* Time and the cleanup take entries out of their window, or away.
LEMMA FailureEnvironment ==
    ASSUME TypeOK, FailureInv, CleanAttempts \/ \E e \in Entry : GrowOld(e)
    PROVE  FailureInv'
<1>1. UNCHANGED <<count, pc, client, info>>
  BY DEF CleanAttempts, GrowOld
<1>2. \A k \in Client : attempts'[k] # None => attempts'[k] = attempts[k]
  BY DEF CleanAttempts, GrowOld, TypeOK
<1>3. \A k \in Client : Fresh(k)' => Fresh(k)
  BY <1>2 DEF Fresh, CleanAttempts, GrowOld, TypeOK, Age
<1>4. ASSUME NEW k \in Client PROVE Bounded(k)'
  <2>1. CASE attempts'[k] = None
    BY <2>1 DEF Bounded, Fresh
  <2>2. CASE attempts'[k] # None
    <3>1. MayCount(k)' \subseteq MayCount(k)
      BY <1>1, <1>2, <2>2 DEF MayCount, Spent
    <3> QED BY <1>1, <1>2, <1>3, <2>2, <3>1, Undisturbed DEF FailureInv
  <2> QED BY <2>1, <2>2
<1>5. Unshared'
  BY <1>2 DEF FailureInv, Unshared
<1> QED BY <1>4, <1>5 DEF FailureInv

\* The inductive step of the failures.
LEMMA FailureStep == TypeOK /\ FailureInv /\ [Next]_vars => FailureInv'
<1> SUFFICES ASSUME TypeOK, FailureInv, [Next]_vars PROVE FailureInv'
  OBVIOUS
<1>1. ASSUME NEW c \in Conn, LoginStep(c) PROVE FailureInv'
  <2>1. CASE Create(c)
    BY <2>1, OtherSteps DEF Create, Goes, Forgets, LoginPC, TypeOK
  <2> QED BY <1>1, <2>1, FailureAllow, FailureRecord DEF LoginStep
<1>2. ASSUME NEW c \in Conn, PageStep(c) PROVE FailureInv'
  BY <1>2, OtherSteps
  DEF PageStep, CheckExpiry, DeleteExpired, Reply, Goes, LoginPC, TypeOK
<1>3. ASSUME NEW c \in Conn, NEW t \in issued, OpenPage(c, t) PROVE FailureInv'
  BY <1>3, OtherSteps DEF OpenPage, Goes, LoginPC, TypeOK
<1>4. CASE \/ \E t \in issued : Logout(t) \/ Expire(t)
           \/ CleanSessions \/ UNCHANGED vars
  BY <1>4
  DEF Logout, Expire, CleanSessions, vars, limiterVars, FailureInv, Unshared, Bounded,
      Fresh, MayCount, Spent
<1> QED
  BY <1>1, <1>2, <1>3, <1>4, FailureLoginPost, FailureEnvironment DEF Next

(***************************************************************************)
(* However Allow, Record, expiry and cleanup interleave, one window counts *)
(* at most MaxAttempts - 1 failures and one for each concurrent request.   *)
(***************************************************************************)
THEOREM FailuresAreBoundedHolds == Spec => []FailuresAreBounded
<1>1. Init => FailureInv
  BY DEF Init, FailureInv, Unshared, Bounded, Fresh
<1>2. TypeOK /\ FailureInv => FailuresAreBounded
  <2> SUFFICES ASSUME TypeOK, FailureInv, NEW k \in Client, Fresh(k)
               PROVE  count[attempts[k]] <= MaxAttempts - 1 + Cardinality(Conn)
    BY DEF FailuresAreBounded, Fresh
  <2>1. MayCount(k) \in SUBSET Conn
    BY DEF MayCount
  <2>2. Cardinality(MayCount(k)) \in Nat /\ Cardinality(Conn) \in Nat
    BY <2>1, MayCountFinite
  <2> QED BY <2>2, LoginAssumption DEF FailureInv, Bounded, Fresh, TypeOK
<1> QED BY <1>1, <1>2, FailureStep, TypeCorrect, PTL DEF Spec
=============================================================================
