-------------------------------- MODULE Login --------------------------------
(***************************************************************************)
(* The dashboard's login: LoginPost and Logout (internal/web/handler.go),  *)
(* the session check in front of every page (router.go), the session store *)
(* (session.go) and the limiter of failed logins (ratelimit.go).           *)
(*                                                                         *)
(* Store and limiter each have a lock, which every method releases between *)
(* what it reads and what it does about it: a request is a sequence of     *)
(* steps, one per critical section or test.  An attemptInfo is an object:  *)
(* the map and the calls of Allow that hold it share it, and it lives as   *)
(* long as one of them does.                                               *)
(*                                                                         *)
(* There is no clock.  An entry of the limiter is fresh during its window, *)
(* then expired, then old (two windows: the age at which the cleanup takes *)
(* it); a session expires at some time after its login.                    *)
(***************************************************************************)
EXTENDS Integers, FiniteSets

CONSTANTS
    Client,      \* addresses (c.IP())
    Conn,        \* request goroutines, a bound on how many run at once
    Entry,       \* attemptInfo objects, reused when nobody refers to them
    Session,     \* tokens, never reused: a bound on successful logins
    MaxAttempts, \* LoginLimiter.maxAttempts
    None         \* nil

ASSUME LoginAssumption ==
    /\ MaxAttempts \in Nat \ {0}
    /\ IsFiniteSet(Conn)
    /\ None \notin Client \cup Entry \cup Session

VARIABLES
    attempts,   \* LoginLimiter.attempts
    count,      \* attemptInfo.count
    age,        \* what time.Since(attemptInfo.firstAt) compares to
    issued,     \* tokens generated and handed out as cookies
    sessions,   \* SessionStore.sessions
    expired,    \* tokens past ExpiresAt
    \* one request
    pc,         \* control point
    client,     \* c.IP() of a login
    info,       \* the attemptInfo a call of Allow has read
    token,      \* the cookie of a page request
    \* observer, read by properties only
    loggedOut,  \* tokens whose logout was answered
    begunStale  \* page requests that began with a dead token

limiterVars == <<attempts, count, age>>
sessionVars == <<issued, sessions, expired>>
observer == <<loggedOut, begunStale>>
vars == <<limiterVars, sessionVars, pc, client, info, token, observer>>

Age == {"fresh", "expired", "old"}
ConnPC == {"idle",
           "window", "forget", "count", "compare",  \* LoginPost
           "expiry", "delete", "serve", "redirect"} \* sessionMiddleware

TypeOK ==
    /\ attempts \in [Client -> Entry \cup {None}]
    /\ count \in [Entry -> Nat]
    /\ age \in [Entry -> Age]
    /\ issued \in SUBSET Session
    /\ sessions \in SUBSET issued
    /\ expired \in SUBSET issued
    /\ loggedOut \in SUBSET issued
    /\ begunStale \in SUBSET Conn
    /\ pc \in [Conn -> ConnPC]
    /\ client \in [Conn -> Client \cup {None}]
    /\ info \in [Conn -> Entry \cup {None}]
    /\ token \in [Conn -> issued \cup {None}]
    /\ \A c \in Conn :
          /\ pc[c] \in {"window", "forget", "count", "compare"} => client[c] \in Client
          /\ pc[c] \in {"window", "count"} => info[c] \in Entry
          /\ pc[c] \in {"expiry", "delete", "serve", "redirect"} => token[c] \in issued

Init ==
    /\ attempts = [k \in Client |-> None]
    /\ count = [e \in Entry |-> 0]
    /\ age = [e \in Entry |-> "fresh"]
    /\ issued = {} /\ sessions = {} /\ expired = {} /\ loggedOut = {}
    /\ begunStale = {}
    /\ pc = [c \in Conn |-> "idle"]
    /\ client = [c \in Conn |-> None]
    /\ info = [c \in Conn |-> None]
    /\ token = [c \in Conn |-> None]

-----------------------------------------------------------------------------
Goes(c, from, to) == pc[c] = from /\ pc' = [pc EXCEPT ![c] = to]
Forgets(f, c) == [f EXCEPT ![c] = None]

\* A new attemptInfo is an object that nobody refers to.  There is one while Entry
\* has as many members as Client and Conn together: the request that records
\* holds none.
InUse(e) == (\E k \in Client : attempts[k] = e) \/ (\E c \in Conn : info[c] = e)
IsNew(e) == ~InUse(e) /\ e = CHOOSE f \in Entry : ~InUse(f)

\* Mutant of LoginPost: the address of the request is not kept.
LoginPostUnresolved(c, k) ==
    /\ Goes(c, "idle", IF attempts[k] = None THEN "compare" ELSE "window")
    /\ info' = [info EXCEPT ![c] = attempts[k]]
    /\ UNCHANGED <<limiterVars, sessionVars, client, token, observer>>

(***************************************************************************)
(* LoginPost.  Allow reads the entry of the address under the read lock;   *)
(* an address without one may go on.                                       *)
(***************************************************************************)
LoginPost(c, k) ==
    /\ Goes(c, "idle", IF attempts[k] = None THEN "compare" ELSE "window")
    /\ client' = [client EXCEPT ![c] = k]
    /\ info' = [info EXCEPT ![c] = attempts[k]]
    /\ UNCHANGED <<limiterVars, sessionVars, token, observer>>

\* Mutant of AllowWindow: only the cleanup forgets failures.
AllowWindowKept(c) ==
    /\ Goes(c, "window", "count")
    /\ UNCHANGED <<limiterVars, sessionVars, client, info, token, observer>>

\* Is the window of the entry over?
AllowWindow(c) ==
    /\ Goes(c, "window", IF age[info[c]] = "fresh" THEN "count" ELSE "forget")
    /\ UNCHANGED <<limiterVars, sessionVars, client, info, token, observer>>

\* Then whatever entry the address has by now is deleted.
AllowForget(c) ==
    /\ Goes(c, "forget", "compare")
    /\ attempts' = [attempts EXCEPT ![client[c]] = None]
    /\ info' = Forgets(info, c)
    /\ UNCHANGED <<count, age, sessionVars, client, token, observer>>

\* Mutant of AllowCount: one attempt too many.
AllowCountInclusive(c) ==
    /\ info' = Forgets(info, c)
    /\ \/ /\ Goes(c, "count", "compare")
          /\ count[info[c]] <= MaxAttempts
          /\ UNCHANGED client
       \/ /\ Goes(c, "count", "idle")
          /\ ~(count[info[c]] <= MaxAttempts)
          /\ client' = Forgets(client, c)
    /\ UNCHANGED <<limiterVars, sessionVars, token, observer>>

\* Otherwise the attempts decide, read without a lock.
AllowCount(c) ==
    /\ info' = Forgets(info, c)
    /\ \/ /\ Goes(c, "count", "compare")
          /\ count[info[c]] < MaxAttempts
          /\ UNCHANGED client
       \/ /\ Goes(c, "count", "idle")
          /\ ~(count[info[c]] < MaxAttempts)
          /\ client' = Forgets(client, c)
    /\ UNCHANGED <<limiterVars, sessionVars, token, observer>>

\* Wrong credentials: Record, in one critical section.
Record(c) ==
    LET k == client[c]
        Counts == attempts[k] # None /\ age[attempts[k]] = "fresh"
    IN
    /\ Goes(c, "compare", "idle")
    /\ \/ /\ Counts
          /\ count' = [count EXCEPT ![attempts[k]] = @ + 1]
          /\ UNCHANGED <<attempts, age>>
       \/ /\ ~Counts
          /\ \E e \in Entry :
                /\ IsNew(e)
                /\ attempts' = [attempts EXCEPT ![k] = e]
                /\ count' = [count EXCEPT ![e] = 1]
                /\ age' = [age EXCEPT ![e] = "fresh"]
    /\ client' = Forgets(client, c)
    /\ UNCHANGED <<sessionVars, info, token, observer>>

\* Right credentials: a new token, its session, its cookie.
Create(c) ==
    /\ Goes(c, "compare", "idle")
    /\ \E t \in Session \ issued :
          /\ issued' = issued \cup {t}
          /\ sessions' = sessions \cup {t}
    /\ client' = Forgets(client, c)
    /\ UNCHANGED <<limiterVars, expired, info, token, observer>>

-----------------------------------------------------------------------------
\* The token was not logged out and its time is not over.
Valid(t) == t \in issued \ (loggedOut \cup expired)

(***************************************************************************)
(* sessionMiddleware.  Validate reads the session under the read lock and  *)
(* tests its expiry after that; a request without a cookie changes         *)
(* nothing.  Any cookie ever handed out may come back, also after a        *)
(* logout (another tab, a request under way).                              *)
(***************************************************************************)
OpenPage(c, t) ==
    /\ Goes(c, "idle", IF t \in sessions THEN "expiry" ELSE "redirect")
    /\ token' = [token EXCEPT ![c] = t]
    /\ begunStale' = IF Valid(t) THEN begunStale \ {c} ELSE begunStale \cup {c}
    /\ UNCHANGED <<limiterVars, sessionVars, client, info, loggedOut>>

CheckExpiry(c) ==
    /\ Goes(c, "expiry", IF token[c] \in expired THEN "delete" ELSE "serve")
    /\ UNCHANGED <<limiterVars, sessionVars, client, info, token, observer>>

DeleteExpired(c) ==
    /\ Goes(c, "delete", "redirect")
    /\ sessions' = sessions \ {token[c]}
    /\ UNCHANGED <<limiterVars, issued, expired, client, info, token, observer>>

\* The handler behind the middleware, or the redirect to the login page.
Reply(c) ==
    /\ pc[c] \in {"serve", "redirect"}
    /\ pc' = [pc EXCEPT ![c] = "idle"]
    /\ token' = Forgets(token, c)
    /\ begunStale' = begunStale \ {c}
    /\ UNCHANGED <<limiterVars, sessionVars, client, info, loggedOut>>

\* Mutant of Logout: the cookie is cleared, the session stays.
LogoutCookieOnly(t) ==
    /\ loggedOut' = loggedOut \cup {t}
    /\ UNCHANGED <<limiterVars, sessionVars, pc, client, info, token, begunStale>>

Logout(t) ==
    /\ sessions' = sessions \ {t}
    /\ loggedOut' = loggedOut \cup {t}
    /\ UNCHANGED <<limiterVars, issued, expired, pc, client, info, token, begunStale>>

-----------------------------------------------------------------------------
\* The cleanup goroutines, each pass under its lock.
CleanAttempts ==
    /\ attempts' = [k \in Client |->
          IF attempts[k] # None /\ age[attempts[k]] = "old" THEN None ELSE attempts[k]]
    /\ UNCHANGED <<count, age, sessionVars, pc, client, info, token, observer>>

CleanSessions ==
    /\ sessions' = sessions \ expired
    /\ UNCHANGED <<limiterVars, issued, expired, pc, client, info, token, observer>>

\* Time passes for one entry, or for one session.
GrowOld(e) ==
    /\ InUse(e) /\ age[e] # "old"
    /\ age' = [age EXCEPT ![e] = IF @ = "fresh" THEN "expired" ELSE "old"]
    /\ UNCHANGED <<attempts, count, sessionVars, pc, client, info, token, observer>>

Expire(t) ==
    /\ expired' = expired \cup {t}
    /\ UNCHANGED <<limiterVars, issued, sessions, pc, client, info, token, observer>>

LoginStep(c) ==
    \/ AllowWindow(c)
    \/ AllowForget(c)
    \/ AllowCount(c)
    \/ Record(c)
    \/ Create(c)

PageStep(c) ==
    \/ CheckExpiry(c)
    \/ DeleteExpired(c)
    \/ Reply(c)

Next ==
    \/ \E c \in Conn :
          \/ LoginStep(c)
          \/ PageStep(c)
          \/ \E k \in Client : LoginPost(c, k)
          \/ \E t \in issued : OpenPage(c, t)
    \/ \E t \in issued : Logout(t) \/ Expire(t)
    \/ \E e \in Entry : GrowOld(e)
    \/ CleanAttempts
    \/ CleanSessions

Spec == Init /\ [][Next]_vars

\* A login that has begun goes on, and the window of an entry passes.
Fairness ==
    /\ \A c \in Conn : WF_vars(LoginStep(c))
    /\ \A e \in Entry : WF_vars(GrowOld(e))

FairSpec == Spec /\ Fairness

-----------------------------------------------------------------------------
(***************************************************************************)
(* Properties.                                                             *)
(***************************************************************************)
(***************************************************************************)
(* Within one window at most MaxAttempts - 1 failures and one for every    *)
(* request under way are counted, although Allow and Record are two        *)
(* critical sections and an Allow may decide on, or delete, an entry that  *)
(* is no longer the one it read.                                           *)
(***************************************************************************)
FailuresAreBounded ==
    \A k \in Client :
        attempts[k] # None /\ age[attempts[k]] = "fresh"
        => count[attempts[k]] <= MaxAttempts - 1 + Cardinality(Conn)

(***************************************************************************)
(* The answers of concurrent page requests agree with the life of the      *)
(* session: one is served only if its token was good when it began, and    *)
(* sent to the login page only if its token is dead when it is answered.   *)
(***************************************************************************)
AnswersMatchSessions ==
    \A c \in Conn :
        /\ pc[c] = "serve" => c \notin begunStale
        /\ pc[c] = "redirect" => ~Valid(token[c])

(***************************************************************************)
(* A lockout ends: an address that keeps trying gets through again and     *)
(* again, although rejected attempts and the cleanup race and the cleanup  *)
(* may never run.                                                          *)
(***************************************************************************)
LockoutEnds ==
    \A k \in Client :
        []<>(\E c \in Conn : client[c] = k /\ pc[c] = "window")
        => []<>(\E c \in Conn : client[c] = k /\ pc[c] = "compare")
=============================================================================
