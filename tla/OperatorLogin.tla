---------------------------- MODULE OperatorLogin ----------------------------
(***************************************************************************)
(* Logging in to the operator's console with a PIN (provider/              *)
(* operator_auth.py, staging/wsgi.py).  Failures are counted and the lock   *)
(* kept in Redis, under keys with a life; an attempt is a series of Redis   *)
(* commands between which others come.  A command that raises falls back    *)
(* to a memory that is built with the request and dies with it.  Hashes,    *)
(* signatures and addresses are left out: all attempts come from one        *)
(* address, whose counter both consoles share.                              *)
(***************************************************************************)
EXTENDS Integers, FiniteSets

CONSTANTS
  Attempts,    \* bound: attempts to log in
  LoginLimit,  \* PIN_RATE_LIMIT
  LockLife,    \* PIN_LOCKOUT_TTL
  TokenLife,   \* OPERATOR_TOKEN_TTL
  LoginEnd     \* bound: time

ASSUME LoginAssumption == {LoginLimit, LockLife, TokenLife, LoginEnd} \subseteq Nat \ {0}

VARIABLES
  olNow, olRate, olLock,   \* the clock, the counter of failures, when the lock ends
  olTry,                   \* the attempts
  olCounted,               \* history: attempts counted since the counter last began
  olTorn,                  \* history: attempts of which a command raised, or that stopped
  olServed                 \* history: requests served under a token; one is enough to judge
olVars == <<olNow, olRate, olLock, olTry, olCounted, olTorn, olServed>>

Consoles == {"operator", "admin"}
NoLife == LoginEnd + LockLife + 1   \* a counter without an expiry
Asked == DOMAIN olTry
OlAt(c, at) == c \in Asked /\ olTry[c].at = at

OlInit ==
  /\ olNow = 1 /\ olRate = [count |-> 0, until |-> 0] /\ olLock = 0
  /\ olTry = <<>>   \* no attempt has begun
  /\ olCounted = {} /\ olTorn = {} /\ olServed = {}

OlGoes(c, at) == olTry' = [olTry EXCEPT ![c].at = at]
OlKept == UNCHANGED <<olNow, olTorn, olServed>>

\* "locked" is the lock as it stands when the attempt begins.  A wrong PIN is treated alike by
\* both consoles.
OlAsks(c, scope, right) ==
  /\ c \notin Asked /\ (right \/ scope = "operator")
  /\ olTry' = [d \in Asked \cup {c} |->
               IF d = c THEN [at |-> "lock", scope |-> scope, right |-> right, locked |-> olLock, checked |-> 0, expires |-> 0]
               ELSE olTry[d]]
  /\ UNCHANGED <<olRate, olLock, olCounted>> /\ OlKept

OlChecksLock(c) ==
  /\ OlAt(c, "lock")
  /\ olTry' = [olTry EXCEPT ![c].at = IF olLock > olNow THEN "refused" ELSE "verify", ![c].checked = olNow]
  /\ UNCHANGED <<olRate, olLock, olCounted>> /\ OlKept

OlVerifies(c) ==
  /\ OlAt(c, "verify")
  /\ OlGoes(c, IF olTry[c].right THEN "clear" ELSE "incr")
  /\ UNCHANGED <<olRate, olLock, olCounted>> /\ OlKept

(***************************************************************************)
(* _record_failure: INCR, EXPIRE where it is the first, SET of the lock     *)
(* where the limit is reached.                                              *)
(***************************************************************************)
AfterCount(n) == IF n >= LoginLimit THEN "setlock" ELSE "failed"

OlIncrs(c) ==
  /\ OlAt(c, "incr")
  /\ olRate' = IF olRate.count = 0 THEN [count |-> 1, until |-> NoLife] ELSE [olRate EXCEPT !.count = @ + 1]
  /\ olCounted' = olCounted \cup {c}
  /\ OlGoes(c, IF olRate'.count = 1 THEN "expire" ELSE AfterCount(olRate'.count))
  /\ UNCHANGED olLock /\ OlKept

OlExpires(c) ==
  /\ OlAt(c, "expire")
  /\ olRate' = IF olRate.count = 0 THEN olRate ELSE [olRate EXCEPT !.until = olNow + LockLife]
  /\ OlGoes(c, AfterCount(1))
  /\ UNCHANGED <<olLock, olCounted>> /\ OlKept

OlLocks(c) ==
  /\ OlAt(c, "setlock")
  /\ olLock' = olNow + LockLife
  /\ OlGoes(c, "failed")
  /\ UNCHANGED <<olRate, olCounted>> /\ OlKept

\* _clear_failures, and the token: the lock, if another attempt set one meanwhile, stays.
OlClears(c) ==
  /\ OlAt(c, "clear")
  /\ olRate' = [count |-> 0, until |-> 0] /\ olCounted' = {}
  /\ olTry' = [olTry EXCEPT ![c].at = "entered", ![c].expires = olNow + TokenLife]
  /\ UNCHANGED olLock /\ OlKept

(***************************************************************************)
(* A command raises: the lock is not found, the failure is counted and the  *)
(* counter cleared in a memory nobody else sees.  An instance may stop.     *)
(***************************************************************************)
OlRaises(c) ==
  /\ olTorn = {} /\ c \in Asked /\ olTry[c].at \in {"lock", "incr", "expire", "setlock", "clear"}
  /\ olTry' = [olTry EXCEPT ![c].at = CASE olTry[c].at = "lock" -> "verify" [] olTry[c].at = "clear" -> "entered" [] OTHER -> "failed",
                            ![c].checked = IF olTry[c].at = "lock" THEN olNow ELSE @,
                            ![c].expires = IF olTry[c].at = "clear" THEN olNow + TokenLife ELSE @]
  /\ olTorn' = {c}
  /\ UNCHANGED <<olNow, olRate, olLock, olCounted, olServed>>

OlStops(c) ==
  /\ olTorn = {} /\ c \in Asked /\ olTry[c].at \in {"lock", "verify", "incr", "expire", "setlock", "clear"}
  /\ OlGoes(c, "stopped") /\ olTorn' = {c}
  /\ UNCHANGED <<olNow, olRate, olLock, olCounted, olServed>>

\* verify: a request that carries the token of attempt c, for a console.
OlUses(c, scope) ==
  /\ OlAt(c, "entered") /\ olServed = {}
  /\ olTry[c].expires > olNow /\ olTry[c].scope = scope
  /\ olServed' = {[scope |-> scope, time |-> olNow]}
  /\ UNCHANGED <<olNow, olRate, olLock, olTry, olCounted, olTorn>>

\* A tick is minutes: none passes between counting a failure and what follows from it.
OlTick ==
  /\ olNow < LoginEnd /\ \A c \in Asked : olTry[c].at \notin {"expire", "setlock"}
  /\ olNow' = olNow + 1
  /\ IF olRate.until <= olNow' THEN olRate' = [count |-> 0, until |-> 0] /\ olCounted' = {}
     ELSE UNCHANGED <<olRate, olCounted>>
  /\ UNCHANGED <<olLock, olTry, olTorn, olServed>>

OlNext ==
  \/ OlTick
  \/ \E c \in Attempts :
       \/ \E scope \in Consoles, right \in BOOLEAN : OlAsks(c, scope, right)
       \/ OlChecksLock(c) \/ OlVerifies(c) \/ OlIncrs(c) \/ OlExpires(c) \/ OlLocks(c) \/ OlClears(c)
       \/ OlRaises(c) \/ OlStops(c) \/ \E scope \in Consoles : OlUses(c, scope)

(***************************************************************************)
(* Properties.                                                              *)
(***************************************************************************)
OlTypeOK ==
  /\ olNow \in 1..LoginEnd /\ olRate.count \in 0..Cardinality(Attempts) /\ olRate.until \in 0..NoLife
  /\ olLock \in 0..NoLife /\ olCounted \subseteq Attempts /\ olTorn \subseteq Attempts
  /\ Asked \subseteq Attempts
  /\ \A c \in Asked : olTry[c].checked \in 0..LoginEnd /\ olTry[c].locked \in 0..NoLife

\* While a lock that an attempt found when it began lasts, its PIN is not looked at,
\* unless the question whether there is one raised.
LockHeeded ==
  \A c \in Asked :
    olTry[c].at \notin {"lock", "refused", "stopped"} => olTry[c].locked <= olTry[c].checked \/ c \in olTorn

\* Once the limit's worth of failures is counted, whatever the order the attempts came in,
\* the lock holds at least as long as the counter: the failure that follows it is a first one.
LimitLocks ==
  (/\ Cardinality(olCounted) >= LoginLimit
   /\ \A c \in olCounted : olTry[c].at = "failed" /\ c \notin olTorn)
  => olLock >= olRate.until /\ olLock > olNow

\* The counter has a life unless the attempt that began it is about to give it one or broke off.
FailuresForgotten ==
  olRate.until = NoLife => \E c \in Asked : olTry[c].at = "expire" \/ c \in olTorn

\* A console answers only to a PIN of its own, given within the life of the token.
TokensEarned ==
  \A s \in olServed : \E c \in Asked :
    /\ olTry[c].right /\ olTry[c].scope = s.scope
    /\ olTry[c].checked <= s.time /\ s.time < olTry[c].expires

\* What the PIN of a console promises.
LoginSafe == LockHeeded /\ LimitLocks /\ FailuresForgotten /\ TokensEarned
=============================================================================
