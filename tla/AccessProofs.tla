---------------------------- MODULE AccessProofs ----------------------------
(***************************************************************************)
(* Who may do what on the staging deployment: the PIN of its consoles       *)
(* (OperatorLogin), the provider keys (StagingKeys), the demo tables        *)
(* (DemoSessions) and the players' tokens (AdminSessions).  For every       *)
(* limit, life and number of requests, each part has the invariant its      *)
(* steps keep, what follows from it, and at the end the bounds its types    *)
(* state.  StagingProofs concludes from here for the whole deployment.      *)
(***************************************************************************)
EXTENDS OperatorLogin, StagingKeys, DemoSessions, AdminSessions, FoldLemmas, SequenceTheorems, TLAPS

-----------------------------------------------------------------------------
(* The PIN of the consoles: the inductive invariant.                        *)


Places == {"lock", "verify", "refused", "incr", "expire", "setlock", "failed", "clear", "entered", "stopped"}
OneTry == [at : Places, scope : Consoles, right : BOOLEAN, locked : Nat, checked : Nat, expires : Nat]

LoginTypes ==
  /\ Asked \subseteq Attempts /\ olTry \in [Asked -> OneTry]
  /\ olNow \in Nat \ {0} /\ olNow <= LoginEnd
  /\ olRate \in [count : Nat, until : Nat] /\ olLock \in Nat
  /\ olTorn \subseteq Attempts

\* The lock and the counter's life end within a lock's life from now, and an attempt found no
\* later a lock than there is.
LivesNear ==
  /\ olLock <= olNow + LockLife
  /\ olRate.until = NoLife \/ olRate.until <= olNow + LockLife
  /\ \A c \in Asked : olTry[c].locked <= olLock

\* The counter counts, and is without a life only for who is about to give it one.
Tally ==
  /\ IsFiniteSet(olCounted) /\ olRate.count = Cardinality(olCounted)
  /\ olCounted \subseteq {c \in Asked : olTry[c].at \in {"expire", "setlock", "failed", "stopped"}}
  /\ olRate.count = 0 => olRate.until = 0
  /\ olRate.until = NoLife => \E c \in olCounted : olTry[c].at = "expire" \/ c \in olTorn

\* The limit was reached, and who reached it has set the lock.
Pending(c) == olTry[c].at = "setlock" \/ (olTry[c].at = "expire" /\ LoginLimit <= 1)
Reached == olRate.count >= LoginLimit /\ \A c \in olCounted : ~Pending(c) /\ c \notin olTorn

LockOutlives ==
  Reached =>
    /\ olLock > olNow /\ (olRate.until = NoLife \/ olRate.until <= olLock)
    /\ (\E c \in Asked : olTry[c].at = "expire") => olLock = olNow + LockLife

\* Who was served had entered with a PIN of its own.
TokensDue ==
  /\ \A s \in olServed : \E c \in Asked :
       /\ olTry[c].at = "entered" /\ olTry[c].right /\ olTry[c].scope = s.scope
       /\ olTry[c].checked <= s.time /\ s.time < olTry[c].expires
  /\ \A c \in Asked : /\ olTry[c].checked <= olNow
                      /\ olTry[c].at \in {"clear", "entered"} => olTry[c].right

LoginInv == LoginTypes /\ LivesNear /\ LockHeeded /\ Tally /\ LockOutlives /\ TokensDue

Attempt(c) ==
  \/ \E scope \in Consoles, right \in BOOLEAN : OlAsks(c, scope, right)
  \/ OlChecksLock(c) \/ OlVerifies(c) \/ OlIncrs(c) \/ OlExpires(c) \/ OlLocks(c) \/ OlClears(c)
  \/ OlRaises(c) \/ OlStops(c) \/ \E scope \in Consoles : OlUses(c, scope)

LEMMA LoginSteps ==
  ASSUME [OlNext]_olVars
  PROVE  UNCHANGED olVars \/ OlTick \/ \E c \in Attempts : Attempt(c)
  BY DEF OlNext, Attempt

\* An attempt moves alone, and stays what it was made.
LEMMA TryTypes ==
  ASSUME LoginTypes, NEW c \in Attempts, Attempt(c)
  PROVE  /\ Asked' = Asked \cup {c} /\ olTry' \in [Asked' -> OneTry]
         /\ \A d \in Asked : d # c => olTry'[d] = olTry[d]
         /\ c \in Asked => /\ olTry'[c].right = olTry[c].right /\ olTry'[c].scope = olTry[c].scope
                           /\ olTry'[c].locked = olTry[c].locked
<1>t. /\ olTry \in [Asked -> OneTry] /\ olNow \in Nat /\ olLock \in Nat /\ TokenLife \in Nat
  BY LoginAssumption DEF LoginTypes
<1>1. ASSUME NEW scope \in Consoles, NEW right \in BOOLEAN, OlAsks(c, scope, right)
      PROVE  /\ Asked' = Asked \cup {c} /\ olTry' \in [Asked' -> OneTry] /\ c \notin Asked
             /\ \A d \in Asked : d # c => olTry'[d] = olTry[d]
  <2> DEFINE New == [at |-> "lock", scope |-> scope, right |-> right, locked |-> olLock, checked |-> 0, expires |-> 0]
  <2>1. New \in OneTry
    BY <1>t DEF OneTry, Places
  <2>2. olTry' = [d \in Asked \cup {c} |-> IF d = c THEN New ELSE olTry[d]] /\ c \notin Asked
    BY <1>1 DEF OlAsks
  <2> HIDE DEF New
  <2> QED
    BY <1>t, <2>1, <2>2 DEF Asked
<1>2. ASSUME NEW e \in OneTry, c \in Asked, olTry' = [olTry EXCEPT ![c] = e]
      PROVE  /\ Asked' = Asked \cup {c} /\ olTry' \in [Asked' -> OneTry] /\ olTry'[c] = e
             /\ \A d \in Asked : d # c => olTry'[d] = olTry[d]
  BY <1>t, <1>2 DEF Asked
<1>3. ASSUME NEW at \in Places, c \in Asked, OlGoes(c, at)
      PROVE  \E e \in OneTry : /\ olTry' = [olTry EXCEPT ![c] = e]
                               /\ e.right = olTry[c].right /\ e.scope = olTry[c].scope /\ e.locked = olTry[c].locked
  <2> DEFINE e == [olTry[c] EXCEPT !.at = at]
  <2>1. olTry[c] \in OneTry
    BY <1>t, <1>3
  <2>2. e \in OneTry /\ e.right = olTry[c].right /\ e.scope = olTry[c].scope /\ e.locked = olTry[c].locked
    BY <2>1 DEF OneTry
  <2>3. olTry' = [olTry EXCEPT ![c] = e]
    BY <1>t, <1>3 DEF OlGoes
  <2> HIDE DEF e
  <2> QED
    BY <2>2, <2>3
<1>4. OlChecksLock(c) \/ OlClears(c) \/ OlRaises(c) =>
        c \in Asked /\ \E e \in OneTry : /\ olTry' = [olTry EXCEPT ![c] = e]
                                         /\ e.right = olTry[c].right /\ e.scope = olTry[c].scope /\ e.locked = olTry[c].locked
  <2>1. ASSUME c \in Asked, NEW at \in Places, NEW checked \in Nat, NEW expires \in Nat,
               olTry' = [olTry EXCEPT ![c] = [[[olTry[c] EXCEPT !.at = at] EXCEPT !.checked = checked] EXCEPT !.expires = expires]]
        PROVE  \E e \in OneTry : /\ olTry' = [olTry EXCEPT ![c] = e]
                                 /\ e.right = olTry[c].right /\ e.scope = olTry[c].scope /\ e.locked = olTry[c].locked
    <3>1. olTry[c] \in OneTry
      BY <1>t, <2>1
    <3>2. [[[olTry[c] EXCEPT !.at = at] EXCEPT !.checked = checked] EXCEPT !.expires = expires] \in OneTry
      BY <3>1, <2>1 DEF OneTry
    <3> QED
      BY <2>1, <3>1, <3>2 DEF OneTry
  <2>2. CASE OlChecksLock(c)
    <3> DEFINE at == IF olLock > olNow THEN "refused" ELSE "verify"
    <3>1. c \in Asked /\ olTry[c] \in OneTry /\ at \in Places
      BY <1>t, <2>2 DEF OlChecksLock, OlAt, Places
    <3>2. olTry' = [olTry EXCEPT ![c].at = at, ![c].checked = olNow]
      BY <2>2 DEF OlChecksLock
    <3> HIDE DEF at
    <3>3. [[[olTry[c] EXCEPT !.at = at] EXCEPT !.checked = olNow] EXCEPT !.expires = olTry[c].expires]
            = [[olTry[c] EXCEPT !.at = at] EXCEPT !.checked = olNow]
      BY <3>1 DEF OneTry
    <3>4. olTry' = [olTry EXCEPT ![c] = [[[olTry[c] EXCEPT !.at = at] EXCEPT !.checked = olNow] EXCEPT !.expires = olTry[c].expires]]
      BY <1>t, <3>1, <3>2, <3>3
    <3>5. olTry[c].expires \in Nat
      BY <3>1 DEF OneTry
    <3> QED
      BY <1>t, <2>1, <3>1, <3>4, <3>5
  <2>3. CASE OlClears(c)
    <3>1. c \in Asked /\ olTry[c] \in OneTry /\ "entered" \in Places /\ olNow + TokenLife \in Nat
      BY <1>t, <2>3 DEF OlClears, OlAt, Places
    <3>2. olTry' = [olTry EXCEPT ![c].at = "entered", ![c].expires = olNow + TokenLife]
      BY <2>3 DEF OlClears
    <3>3. [[[olTry[c] EXCEPT !.at = "entered"] EXCEPT !.checked = olTry[c].checked] EXCEPT !.expires = olNow + TokenLife]
            = [[olTry[c] EXCEPT !.at = "entered"] EXCEPT !.expires = olNow + TokenLife]
      BY <3>1 DEF OneTry
    <3>4. olTry' = [olTry EXCEPT ![c] = [[[olTry[c] EXCEPT !.at = "entered"] EXCEPT !.checked = olTry[c].checked] EXCEPT !.expires = olNow + TokenLife]]
      BY <1>t, <3>1, <3>2, <3>3
    <3>5. olTry[c].checked \in Nat
      BY <3>1 DEF OneTry
    <3> QED
      BY <1>t, <2>1, <3>1, <3>4, <3>5
  <2>4. CASE OlRaises(c)
    <3> DEFINE at == CASE olTry[c].at = "lock" -> "verify" [] olTry[c].at = "clear" -> "entered" [] OTHER -> "failed"
               checked == IF olTry[c].at = "lock" THEN olNow ELSE olTry[c].checked
               expires == IF olTry[c].at = "clear" THEN olNow + TokenLife ELSE olTry[c].expires
    <3>1. c \in Asked /\ olTry[c] \in OneTry
      BY <1>t, <2>4 DEF OlRaises
    <3>2. at \in Places /\ checked \in Nat /\ expires \in Nat
      BY <1>t, <3>1 DEF OneTry, Places
    <3>3. olTry' = [olTry EXCEPT ![c].at = at, ![c].checked = checked, ![c].expires = expires]
      BY <1>t, <2>4, <3>1 DEF OlRaises, OneTry
    <3> HIDE DEF at, checked, expires
    <3>4. olTry' = [olTry EXCEPT ![c] = [[[olTry[c] EXCEPT !.at = at] EXCEPT !.checked = checked] EXCEPT !.expires = expires]]
      BY <1>t, <3>1, <3>3
    <3> QED
      BY <2>1, <3>1, <3>2, <3>4
  <2> QED
    BY <2>2, <2>3, <2>4
<1>5. OlVerifies(c) \/ OlIncrs(c) \/ OlExpires(c) \/ OlLocks(c) \/ OlStops(c) => c \in Asked /\ \E at \in Places : OlGoes(c, at)
  <2>1. \A n : AfterCount(n) \in Places
    BY DEF AfterCount, Places
  <2> QED
    BY <2>1 DEF OlVerifies, OlIncrs, OlExpires, OlLocks, OlStops, OlAt, Places
<1>6. (\E scope \in Consoles : OlUses(c, scope)) => olTry' = olTry /\ c \in Asked
  BY DEF OlUses, OlAt
<1>7. CASE \E scope \in Consoles : OlUses(c, scope)
  BY <1>t, <1>6, <1>7 DEF Asked
<1>8. CASE \E scope \in Consoles, right \in BOOLEAN : OlAsks(c, scope, right)
  BY <1>1, <1>8
<1>9. CASE c \in Asked /\ \E e \in OneTry : /\ olTry' = [olTry EXCEPT ![c] = e]
                                         /\ e.right = olTry[c].right /\ e.scope = olTry[c].scope /\ e.locked = olTry[c].locked
  <2>1. PICK e \in OneTry : /\ olTry' = [olTry EXCEPT ![c] = e]
                            /\ e.right = olTry[c].right /\ e.scope = olTry[c].scope /\ e.locked = olTry[c].locked
    BY <1>9
  <2> QED
    BY <1>2, <1>9, <2>1
<1> QED
  BY <1>3, <1>4, <1>5, <1>7, <1>8, <1>9 DEF Attempt

\* Where an attempt was and where it is.
LEMMA TryMoves ==
  ASSUME LoginTypes, NEW c \in Attempts, Attempt(c)
  PROVE  /\ OlChecksLock(c) => olTry[c].at = "lock" /\ olTry'[c].at \in {"refused", "verify"} /\ olTry'[c].checked = olNow
                               /\ (olTry'[c].at = "verify" => olLock <= olNow)
         /\ OlVerifies(c) => olTry[c].at = "verify" /\ olTry'[c].at = (IF olTry[c].right THEN "clear" ELSE "incr")
         /\ OlIncrs(c) => olTry[c].at = "incr" /\ olTry'[c].at = (IF olRate'.count = 1 THEN "expire" ELSE AfterCount(olRate'.count))
         /\ OlExpires(c) => olTry[c].at = "expire" /\ olTry'[c].at = AfterCount(1)
         /\ OlLocks(c) => olTry[c].at = "setlock" /\ olTry'[c].at = "failed"
         /\ OlClears(c) => olTry[c].at = "clear" /\ olTry'[c].at = "entered"
         /\ OlRaises(c) => \/ olTry[c].at = "lock" /\ olTry'[c].at = "verify" /\ olTry'[c].checked = olNow
                           \/ olTry[c].at = "clear" /\ olTry'[c].at = "entered" /\ olTry'[c].checked = olTry[c].checked
                           \/ olTry[c].at \in {"incr", "expire", "setlock"} /\ olTry'[c].at = "failed" /\ olTry'[c].checked = olTry[c].checked
         /\ OlStops(c) => olTry[c].at \notin {"failed", "entered", "refused", "stopped"} /\ olTry'[c].at = "stopped"
         /\ ~OlChecksLock(c) /\ ~OlRaises(c) /\ c \in Asked => olTry'[c].checked = olTry[c].checked
         /\ ~(\E scope \in Consoles, right \in BOOLEAN : OlAsks(c, scope, right)) => c \in Asked
<1>t. olTry \in [Asked -> OneTry] /\ olNow \in Nat /\ olLock \in Nat
  BY DEF LoginTypes
<1>1. c \in Asked => olTry[c] = [at |-> olTry[c].at, scope |-> olTry[c].scope, right |-> olTry[c].right,
                                 locked |-> olTry[c].locked, checked |-> olTry[c].checked, expires |-> olTry[c].expires]
  BY <1>t DEF OneTry
<1>2. ASSUME NEW at, c \in Asked, OlGoes(c, at)
      PROVE  olTry'[c].at = at /\ olTry'[c].checked = olTry[c].checked
  BY <1>t, <1>1, <1>2 DEF OlGoes, Asked
<1>3. OlChecksLock(c) => olTry[c].at = "lock" /\ olTry'[c].at \in {"refused", "verify"} /\ olTry'[c].checked = olNow
                         /\ (olTry'[c].at = "verify" => olLock <= olNow)
  <2> DEFINE at == IF olLock > olNow THEN "refused" ELSE "verify"
  <2> SUFFICES ASSUME OlChecksLock(c)
               PROVE  olTry[c].at = "lock" /\ olTry'[c].at \in {"refused", "verify"} /\ olTry'[c].checked = olNow
                      /\ (olTry'[c].at = "verify" => olLock <= olNow)
    OBVIOUS
  <2>1. olTry' = [olTry EXCEPT ![c].at = at, ![c].checked = olNow] /\ c \in Asked /\ olTry[c].at = "lock"
    BY DEF OlChecksLock, OlAt
  <2>2. at \in {"refused", "verify"} /\ (at = "verify" => olLock <= olNow)
    BY <1>t
  <2> HIDE DEF at
  <2>3. olTry'[c].at = at /\ olTry'[c].checked = olNow
    BY <1>t, <1>1, <2>1 DEF Asked
  <2> QED
    BY <2>1, <2>2, <2>3
<1>4. OlClears(c) => olTry[c].at = "clear" /\ olTry'[c].at = "entered" /\ olTry'[c].checked = olTry[c].checked
  BY <1>t, <1>1 DEF OlClears, OlAt, Asked
<1>5. OlRaises(c) => \/ olTry[c].at = "lock" /\ olTry'[c].at = "verify" /\ olTry'[c].checked = olNow
                     \/ olTry[c].at = "clear" /\ olTry'[c].at = "entered" /\ olTry'[c].checked = olTry[c].checked
                     \/ olTry[c].at \in {"incr", "expire", "setlock"} /\ olTry'[c].at = "failed" /\ olTry'[c].checked = olTry[c].checked
  <2> DEFINE at == CASE olTry[c].at = "lock" -> "verify" [] olTry[c].at = "clear" -> "entered" [] OTHER -> "failed"
             checked == IF olTry[c].at = "lock" THEN olNow ELSE olTry[c].checked
             expires == IF olTry[c].at = "clear" THEN olNow + TokenLife ELSE olTry[c].expires
  <2> SUFFICES ASSUME OlRaises(c)
               PROVE  \/ olTry[c].at = "lock" /\ olTry'[c].at = "verify" /\ olTry'[c].checked = olNow
                      \/ olTry[c].at = "clear" /\ olTry'[c].at = "entered" /\ olTry'[c].checked = olTry[c].checked
                      \/ olTry[c].at \in {"incr", "expire", "setlock"} /\ olTry'[c].at = "failed" /\ olTry'[c].checked = olTry[c].checked
    OBVIOUS
  <2>1. c \in Asked /\ olTry[c].at \in {"lock", "incr", "expire", "setlock", "clear"}
    BY DEF OlRaises
  <2>2. olTry' = [olTry EXCEPT ![c].at = at, ![c].checked = checked, ![c].expires = expires]
    BY <1>t, <2>1 DEF OlRaises, OneTry
  <2>3. \/ olTry[c].at = "lock" /\ at = "verify" /\ checked = olNow
        \/ olTry[c].at = "clear" /\ at = "entered" /\ checked = olTry[c].checked
        \/ olTry[c].at \in {"incr", "expire", "setlock"} /\ at = "failed" /\ checked = olTry[c].checked
    BY <2>1
  <2> HIDE DEF at, checked, expires
  <2>4. olTry'[c].at = at /\ olTry'[c].checked = checked
    BY <1>t, <1>1, <2>1, <2>2 DEF Asked
  <2> QED
    BY <2>3, <2>4
<1>6. OlVerifies(c) => olTry[c].at = "verify" /\ olTry'[c].at = (IF olTry[c].right THEN "clear" ELSE "incr") /\ olTry'[c].checked = olTry[c].checked
  BY <1>2 DEF OlVerifies, OlAt
<1>7. OlIncrs(c) => olTry[c].at = "incr" /\ olTry'[c].at = (IF olRate'.count = 1 THEN "expire" ELSE AfterCount(olRate'.count))
                    /\ olTry'[c].checked = olTry[c].checked
  BY <1>2 DEF OlIncrs, OlAt
<1>8. /\ OlExpires(c) => olTry[c].at = "expire" /\ olTry'[c].at = AfterCount(1) /\ olTry'[c].checked = olTry[c].checked
      /\ OlLocks(c) => olTry[c].at = "setlock" /\ olTry'[c].at = "failed" /\ olTry'[c].checked = olTry[c].checked
  BY <1>2 DEF OlExpires, OlLocks, OlAt
<1>9. OlStops(c) => olTry[c].at \notin {"failed", "entered", "refused", "stopped"} /\ olTry'[c].at = "stopped"
                    /\ olTry'[c].checked = olTry[c].checked
  BY <1>2 DEF OlStops
<1>10. (\E scope \in Consoles : OlUses(c, scope)) => olTry' = olTry /\ c \in Asked
  BY DEF OlUses, OlAt
<1>11. (\E scope \in Consoles, right \in BOOLEAN : OlAsks(c, scope, right)) => c \notin Asked
  BY DEF OlAsks
<1>12. OlChecksLock(c) \/ OlVerifies(c) \/ OlIncrs(c) \/ OlExpires(c) \/ OlLocks(c) \/ OlClears(c) \/ OlRaises(c) \/ OlStops(c)
         => c \in Asked
  BY DEF OlChecksLock, OlVerifies, OlIncrs, OlExpires, OlLocks, OlClears, OlRaises, OlStops, OlAt
<1> QED
  BY <1>3, <1>4, <1>5, <1>6, <1>7, <1>8, <1>9, <1>10, <1>11, <1>12 DEF Attempt

LEMMA LoginTypesStep ==
  ASSUME LoginTypes, [OlNext]_olVars
  PROVE  LoginTypes'
<1>t. /\ Asked \subseteq Attempts /\ olTry \in [Asked -> OneTry]
      /\ olNow \in Nat \ {0} /\ olNow <= LoginEnd
      /\ olRate \in [count : Nat, until : Nat] /\ olLock \in Nat /\ olTorn \subseteq Attempts
      /\ LockLife \in Nat \ {0} /\ LoginEnd \in Nat \ {0}
  BY LoginAssumption DEF LoginTypes
<1>0. [count |-> 0, until |-> 0] \in [count : Nat, until : Nat] /\ NoLife \in Nat /\ olNow + LockLife \in Nat
  BY <1>t DEF NoLife
<1>1. CASE UNCHANGED olVars
  BY <1>1 DEF olVars, LoginTypes, Asked
<1>2. CASE OlTick
  <2>1. olNow' \in Nat \ {0} /\ olNow' <= LoginEnd
    BY <1>t, <1>2 DEF OlTick
  <2>2. olRate' \in [count : Nat, until : Nat]
    BY <1>t, <1>0, <1>2 DEF OlTick
  <2> QED
    BY <1>t, <1>2, <2>1, <2>2 DEF OlTick, LoginTypes, Asked
<1>3. ASSUME NEW c \in Attempts, Attempt(c)
      PROVE  LoginTypes'
  <2>1. Asked' \subseteq Attempts /\ olTry' \in [Asked' -> OneTry]
    BY <1>t, <1>3, TryTypes
  <2>2. olNow' = olNow /\ olTorn' \subseteq Attempts
    BY <1>t, <1>3 DEF Attempt, OlAsks, OlChecksLock, OlVerifies, OlIncrs, OlExpires, OlLocks, OlClears, OlRaises, OlStops, OlUses, OlKept
  <2>3. olRate' \in [count : Nat, until : Nat]
    <3>1. CASE OlIncrs(c)
      BY <1>t, <1>0, <3>1 DEF OlIncrs
    <3>2. CASE OlExpires(c)
      BY <1>t, <1>0, <3>2 DEF OlExpires
    <3>3. CASE OlClears(c)
      BY <1>0, <3>3 DEF OlClears
    <3>4. ~OlIncrs(c) /\ ~OlExpires(c) /\ ~OlClears(c) => olRate' = olRate
      BY SMTT(60), <1>3 DEF Attempt, OlAsks, OlChecksLock, OlVerifies, OlLocks, OlRaises, OlStops, OlUses
    <3> QED
      BY <1>t, <3>1, <3>2, <3>3, <3>4
  <2>4. olLock' \in Nat
    BY <1>t, <1>0, <1>3 DEF Attempt, OlAsks, OlChecksLock, OlVerifies, OlIncrs, OlExpires, OlLocks, OlClears, OlRaises, OlStops, OlUses
  <2> QED
    BY <1>t, <2>1, <2>2, <2>3, <2>4 DEF LoginTypes
<1> QED
  BY <1>1, <1>2, <1>3, LoginSteps

LEMMA LivesStep ==
  ASSUME LoginTypes, LivesNear, [OlNext]_olVars
  PROVE  LivesNear' /\ olLock <= olLock'
<1>t. /\ olNow \in Nat /\ olNow <= LoginEnd /\ olRate \in [count : Nat, until : Nat] /\ olLock \in Nat
      /\ olTry \in [Asked -> OneTry] /\ LockLife \in Nat \ {0} /\ LoginEnd \in Nat \ {0}
      /\ olLock <= olNow + LockLife /\ (olRate.until = NoLife \/ olRate.until <= olNow + LockLife)
      /\ \A c \in Asked : olTry[c].locked <= olLock /\ olTry[c].locked \in Nat
  BY LoginAssumption DEF LoginTypes, LivesNear, OneTry
<1>1. CASE UNCHANGED olVars
  BY <1>1, <1>t DEF olVars, LivesNear, Asked, NoLife
<1>2. CASE OlTick
  <2>1. olNow' = olNow + 1 /\ olLock' = olLock /\ olTry' = olTry
    BY <1>2 DEF OlTick
  <2>2. olRate' = olRate \/ olRate' = [count |-> 0, until |-> 0]
    BY <1>2 DEF OlTick
  <2>3. olRate'.until = NoLife \/ olRate'.until <= olNow' + LockLife
    BY <1>t, <2>1, <2>2 DEF NoLife
  <2> QED
    BY <1>t, <2>1, <2>3 DEF LivesNear, Asked, NoLife
<1>3. ASSUME NEW c \in Attempts, Attempt(c)
      PROVE  LivesNear' /\ olLock <= olLock'
  <2>1. olNow' = olNow
    BY <1>3 DEF Attempt, OlAsks, OlChecksLock, OlVerifies, OlIncrs, OlExpires, OlLocks, OlClears, OlRaises, OlStops, OlUses, OlKept
  <2>2. olLock' = olLock \/ olLock' = olNow + LockLife
    BY <1>3 DEF Attempt, OlAsks, OlChecksLock, OlVerifies, OlIncrs, OlExpires, OlLocks, OlClears, OlRaises, OlStops, OlUses
  <2>3. olLock <= olLock' /\ olLock' <= olNow' + LockLife
    BY SMTT(60), <1>t, <2>1, <2>2
  <2>4. olRate'.until \in {olRate.until, NoLife, olNow + LockLife, 0}
    BY <1>t, <1>3 DEF Attempt, OlAsks, OlChecksLock, OlVerifies, OlIncrs, OlExpires, OlLocks, OlClears, OlRaises, OlStops, OlUses
  <2>5. olRate'.until = NoLife \/ olRate'.until <= olNow' + LockLife
    BY <1>t, <2>1, <2>4
  <2>6. ASSUME NEW d \in Asked' PROVE olTry'[d].locked <= olLock'
    <3>1. CASE d \in Asked
      <4>1. olTry'[d].locked = olTry[d].locked
        BY <1>3, <3>1, TryTypes
      <4> QED
        BY <1>t, <2>2, <2>3, <3>1, <4>1
    <3>2. CASE d \notin Asked
      <4>1. d = c
        BY <1>3, <2>6, <3>2, TryTypes
      <4>2. PICK scope \in Consoles, right \in BOOLEAN : OlAsks(c, scope, right)
        BY <1>3, <3>2, <4>1, TryMoves
      <4>3. olTry'[c].locked = olLock /\ olLock' = olLock
        BY <4>2 DEF OlAsks
      <4> QED
        BY <1>t, <4>1, <4>3
    <3> QED
      BY <3>1, <3>2
  <2> QED
    BY SMTT(60), <2>3, <2>5, <2>6 DEF LivesNear, NoLife
<1> QED
  BY <1>1, <1>2, <1>3, LoginSteps

LEMMA HeededStep ==
  ASSUME LoginTypes, LivesNear, LockHeeded, [OlNext]_olVars
  PROVE  LockHeeded'
<1>1. CASE UNCHANGED olVars \/ OlTick
  BY <1>1 DEF olVars, OlTick, LockHeeded, Asked
<1>2. ASSUME NEW c \in Attempts, Attempt(c), NEW d \in Asked', olTry'[d].at \notin {"lock", "refused", "stopped"}, d \notin olTorn'
      PROVE  olTry'[d].locked <= olTry'[d].checked
  <2>1. olTorn \subseteq olTorn'
    BY <1>2 DEF Attempt, OlAsks, OlChecksLock, OlVerifies, OlIncrs, OlExpires, OlLocks, OlClears, OlRaises, OlStops, OlUses, OlKept
  <2>2. CASE d # c
    <3>1. d \in Asked /\ olTry'[d] = olTry[d]
      BY <1>2, <2>2, TryTypes
    <3> QED
      BY <1>2, <2>1, <3>1 DEF LockHeeded
  <2>3. CASE d = c
    <3>1. ~(\E scope \in Consoles, right \in BOOLEAN : OlAsks(c, scope, right))
      <4>1. ASSUME NEW scope \in Consoles, NEW right \in BOOLEAN, OlAsks(c, scope, right)
            PROVE  olTry'[c].at = "lock"
        BY <4>1 DEF OlAsks
      <4> QED
        BY <1>2, <2>3, <4>1
    <3>2. c \in Asked /\ olTry'[c].locked = olTry[c].locked
      BY <1>2, <3>1, TryTypes, TryMoves
    <3>3. ~OlRaises(c) /\ ~OlStops(c)
      BY <1>2, <2>3 DEF OlRaises, OlStops
    <3>4. CASE OlChecksLock(c)
      <4>1. olLock <= olNow /\ olTry'[c].checked = olNow
        BY <1>2, <2>3, <3>4, TryMoves
      <4>2. olTry[c].locked <= olLock /\ olTry[c].locked \in Nat /\ olLock \in Nat /\ olNow \in Nat
        BY <3>2 DEF LivesNear, LoginTypes, OneTry
      <4> QED
        BY <2>3, <3>2, <4>1, <4>2
    <3>5. CASE ~OlChecksLock(c)
      <4>1. olTry'[c].checked = olTry[c].checked
        BY <1>2, <3>2, <3>3, <3>5, TryMoves
      <4>2. olTry[c].at \notin {"lock", "refused", "stopped"}
        <5>1. OlVerifies(c) \/ OlIncrs(c) \/ OlExpires(c) \/ OlLocks(c) \/ OlClears(c) => olTry[c].at \notin {"lock", "refused", "stopped"}
          BY <1>2, TryMoves
        <5>2. (\E scope \in Consoles : OlUses(c, scope)) => olTry'[c].at = olTry[c].at
          BY DEF OlUses
        <5> QED
          BY <1>2, <2>3, <3>1, <3>3, <3>5, <5>1, <5>2 DEF Attempt
      <4> QED
        BY <1>2, <2>1, <2>3, <3>2, <4>1, <4>2 DEF LockHeeded
    <3> QED
      BY <3>4, <3>5
  <2> QED
    BY SMTT(60), <2>2, <2>3
<1> QED
  BY <1>1, <1>2, LoginSteps DEF LockHeeded

\* Only who was counted waits at "expire" or "setlock", or has broken off after it.
LEMMA TallyStep ==
  ASSUME LoginTypes, Tally, [OlNext]_olVars
  PROVE  Tally'
<1>t. /\ olTry \in [Asked -> OneTry] /\ olNow \in Nat /\ olNow <= LoginEnd
      /\ olRate \in [count : Nat, until : Nat] /\ LockLife \in Nat \ {0} /\ LoginEnd \in Nat \ {0}
      /\ IsFiniteSet(olCounted) /\ olRate.count = Cardinality(olCounted)
      /\ olCounted \subseteq {c \in Asked : olTry[c].at \in {"expire", "setlock", "failed", "stopped"}}
  BY LoginAssumption DEF LoginTypes, Tally
<1>0. ASSUME olRate' = [count |-> 0, until |-> 0], olCounted' = {}
      PROVE  Tally'
  <2>1. IsFiniteSet({}) /\ Cardinality({}) = 0 /\ NoLife # 0
    BY <1>t, FS_EmptySet DEF NoLife
  <2> QED
    BY <1>0, <2>1 DEF Tally, NoLife
<1>1. CASE UNCHANGED olVars
  BY <1>1 DEF olVars, Tally, Asked, NoLife
<1>2. CASE OlTick
  <2>1. CASE UNCHANGED <<olRate, olCounted>>
    BY <1>2, <2>1 DEF OlTick, Tally, Asked, NoLife
  <2> QED
    BY <1>0, <1>2, <2>1 DEF OlTick
<1>3. ASSUME NEW c \in Attempts, Attempt(c)
      PROVE  Tally'
  <2>1. CASE OlClears(c)
    BY <1>0, <2>1 DEF OlClears
  <2>2. CASE OlIncrs(c)
    <3>1. c \in Asked /\ olTry[c].at = "incr" /\ olCounted' = olCounted \cup {c} /\ UNCHANGED olTorn
      BY <2>2 DEF OlIncrs, OlAt, OlKept
    <3>2. c \notin olCounted
      BY <1>t, <3>1
    <3>3. IsFiniteSet(olCounted') /\ Cardinality(olCounted') = olRate.count + 1
      BY <1>t, <3>1, <3>2, FS_AddElement
    <3>4. olRate'.count = olRate.count + 1 /\ (olRate'.until = olRate.until \/ olRate'.count = 1)
      BY <1>t, <2>2 DEF OlIncrs
    <3>5. olTry'[c].at = (IF olRate'.count = 1 THEN "expire" ELSE AfterCount(olRate'.count))
      BY <1>3, <2>2, TryMoves
    <3>6. \A d \in Asked : d # c => olTry'[d] = olTry[d] /\ d \in Asked'
      BY <1>3, TryTypes
    <3>7. olCounted' \subseteq {d \in Asked' : olTry'[d].at \in {"expire", "setlock", "failed", "stopped"}}
      <4>1. olTry'[c].at \in {"expire", "setlock", "failed", "stopped"} /\ c \in Asked'
        BY <1>3, <3>5, TryTypes DEF AfterCount
      <4>2. \A d \in olCounted : d # c /\ d \in Asked /\ olTry[d].at \in {"expire", "setlock", "failed", "stopped"}
        BY <1>t, <3>2
      <4> QED
        BY <3>1, <3>6, <4>1, <4>2
    <3>8. olRate'.until = NoLife => \E d \in olCounted' : olTry'[d].at = "expire" \/ d \in olTorn'
      <4>1. CASE olRate'.count = 1
        BY <3>1, <3>5, <4>1
      <4>2. CASE olRate'.count # 1 /\ olRate'.until = NoLife
        <5>1. PICK d \in olCounted : olTry[d].at = "expire" \/ d \in olTorn
          BY <3>4, <4>2 DEF Tally
        <5>2. d # c /\ d \in Asked
          BY <1>t, <3>2
        <5> QED
          BY <3>1, <3>6, <5>1, <5>2
      <4> QED
        BY <4>1, <4>2
    <3>9. olRate'.count # 0
      BY <1>t, <3>4
    <3> QED
      BY <3>3, <3>4, <3>7, <3>8, <3>9 DEF Tally, NoLife
  <2>3. CASE ~OlClears(c) /\ ~OlIncrs(c)
    <3>1. olCounted' = olCounted /\ olTorn \subseteq olTorn'
      BY <1>3, <2>3 DEF Attempt, OlAsks, OlChecksLock, OlVerifies, OlExpires, OlLocks, OlRaises, OlStops, OlUses, OlKept
    <3>2. \A d \in Asked : d # c => olTry'[d] = olTry[d] /\ d \in Asked'
      BY <1>3, TryTypes
    <3>3. c \in olCounted => c \in Asked' /\ olTry'[c].at \in {"expire", "setlock", "failed", "stopped"}
      <4> SUFFICES ASSUME c \in olCounted PROVE c \in Asked' /\ olTry'[c].at \in {"expire", "setlock", "failed", "stopped"}
        OBVIOUS
      <4>1. c \in Asked /\ olTry[c].at \in {"expire", "setlock", "failed", "stopped"} /\ c \in Asked'
        BY <1>t, <1>3, TryTypes
      <4>2. ~OlChecksLock(c) /\ ~OlVerifies(c)
        BY <1>3, <4>1, TryMoves
      <4>3. ~(\E scope \in Consoles, right \in BOOLEAN : OlAsks(c, scope, right))
        BY <4>1 DEF OlAsks
      <4>4. ~(\E scope \in Consoles : OlUses(c, scope))
        BY <4>1 DEF OlUses, OlAt
      <4>5. OlExpires(c) \/ OlLocks(c) \/ OlRaises(c) \/ OlStops(c)
        BY <1>3, <2>3, <4>2, <4>3, <4>4 DEF Attempt
      <4> QED
        BY <1>3, <4>1, <4>5, TryMoves DEF AfterCount
    <3>4. olCounted' \subseteq {d \in Asked' : olTry'[d].at \in {"expire", "setlock", "failed", "stopped"}}
      BY <1>t, <3>1, <3>2, <3>3
    <3>5. CASE OlExpires(c)
      <4>1. olRate.count = 0 => olRate' = olRate
        BY <3>5 DEF OlExpires
      <4>2. olRate.count # 0 => olRate'.count = olRate.count /\ olRate'.until = olNow + LockLife /\ olRate'.until # NoLife
        BY <1>t, <3>5 DEF OlExpires, NoLife
      <4>3. olRate.count = 0 => olRate.until = 0 /\ NoLife # 0
        BY <1>t DEF Tally, NoLife
      <4> QED
        BY <1>t, <3>1, <3>4, <4>1, <4>2, <4>3 DEF Tally, NoLife
    <3>6. CASE ~OlExpires(c)
      <4>1. olRate' = olRate
        BY <1>3, <2>3, <3>6 DEF Attempt, OlAsks, OlChecksLock, OlVerifies, OlLocks, OlRaises, OlStops, OlUses
      <4>2. ASSUME olRate.until = NoLife PROVE \E d \in olCounted' : olTry'[d].at = "expire" \/ d \in olTorn'
        <5>1. PICK d \in olCounted : olTry[d].at = "expire" \/ d \in olTorn
          BY <4>2 DEF Tally
        <5>2. d \in Asked
          BY <1>t
        <5>3. CASE d # c
          BY <3>1, <3>2, <5>1, <5>2, <5>3
        <5>4. CASE d = c /\ d \notin olTorn
          <6>1. olTry[c].at = "expire"
            BY <5>1, <5>4
          <6>2. ~OlChecksLock(c) /\ ~OlVerifies(c) /\ ~OlLocks(c)
            BY <1>3, <6>1, TryMoves
          <6>3. ~(\E scope \in Consoles, right \in BOOLEAN : OlAsks(c, scope, right)) /\ ~(\E scope \in Consoles : OlUses(c, scope))
            BY <5>2, <5>4, <6>1 DEF OlAsks, OlUses, OlAt
          <6>4. OlRaises(c) \/ OlStops(c)
            BY <1>3, <2>3, <3>6, <6>2, <6>3 DEF Attempt
          <6>5. c \in olTorn'
            BY <6>4 DEF OlRaises, OlStops
          <6> QED
            BY <3>1, <5>4, <6>5
        <5>5. CASE d \in olTorn
          BY <3>1, <5>5
        <5> QED
          BY <5>3, <5>4, <5>5
      <4> QED
        BY <1>t, <3>1, <3>4, <4>1, <4>2 DEF Tally, NoLife
    <3> QED
      BY <3>5, <3>6
  <2> QED
    BY <2>1, <2>2, <2>3
<1> QED
  BY <1>1, <1>2, <1>3, LoginSteps

\* Who reaches the limit sets the lock before the clock moves on.
LEMMA OutlivesStep ==
  ASSUME LoginTypes, LivesNear, Tally, LockOutlives, [OlNext]_olVars
  PROVE  LockOutlives'
<1>t. /\ olTry \in [Asked -> OneTry] /\ olNow \in Nat /\ olNow <= LoginEnd /\ olLock \in Nat
      /\ olRate \in [count : Nat, until : Nat] /\ LockLife \in Nat \ {0} /\ LoginEnd \in Nat \ {0} /\ LoginLimit \in Nat \ {0}
      /\ olCounted \subseteq {c \in Asked : olTry[c].at \in {"expire", "setlock", "failed", "stopped"}}
      /\ olRate.until = NoLife \/ olRate.until <= olNow + LockLife
  BY LoginAssumption DEF LoginTypes, Tally, LivesNear
<1>1. CASE UNCHANGED olVars
  BY <1>1 DEF olVars, LockOutlives, Reached, Pending, Asked, NoLife
<1>2. CASE OlTick
  <2> SUFFICES ASSUME Reached' PROVE /\ olLock' > olNow' /\ (olRate'.until = NoLife \/ olRate'.until <= olLock')
                                     /\ ~(\E c \in Asked' : olTry'[c].at = "expire")
    BY DEF LockOutlives, NoLife
  <2>1. olNow' = olNow + 1 /\ olLock' = olLock /\ olTry' = olTry /\ olTorn' = olTorn
    BY <1>2 DEF OlTick
  <2>2. olRate'.count # 0
    BY <1>t DEF Reached
  <2>3. UNCHANGED <<olRate, olCounted>> /\ olRate.until > olNow'
    <3>1. olRate' # [count |-> 0, until |-> 0]
      BY <2>2
    <3>2. ~(olRate.until <= olNow') /\ UNCHANGED <<olRate, olCounted>>
      BY <1>2, <3>1 DEF OlTick
    <3> QED
      BY <1>t, <2>1, <3>2
  <2>4. Reached
    BY <2>1, <2>3 DEF Reached, Pending
  <2>5. olRate.until # NoLife
    BY <1>2, <1>t, <2>4 DEF Reached, Tally, OlTick
  <2>6. olRate.until <= olLock
    BY <2>4, <2>5 DEF LockOutlives
  <2>7. olLock > olNow'
    BY <1>t, <2>1, <2>3, <2>6
  <2> QED
    BY <1>2, <2>1, <2>3, <2>6, <2>7 DEF OlTick, Asked
<1>3. ASSUME NEW c \in Attempts, Attempt(c)
      PROVE  LockOutlives'
  <2> SUFFICES ASSUME Reached'
               PROVE  /\ olLock' > olNow' /\ (olRate'.until = NoLife \/ olRate'.until <= olLock')
                      /\ (\E d \in Asked' : olTry'[d].at = "expire") => olLock' = olNow' + LockLife
    BY DEF LockOutlives, NoLife
  <2>n. olNow' = olNow
    BY <1>3 DEF Attempt, OlAsks, OlChecksLock, OlVerifies, OlIncrs, OlExpires, OlLocks, OlClears, OlRaises, OlStops, OlUses, OlKept
  <2>a. /\ \A d \in Asked : d # c => olTry'[d] = olTry[d] /\ d \in Asked'
        /\ Asked' = Asked \cup {c}
    BY <1>3, TryTypes
  <2>1. CASE OlLocks(c)
    <3>1. olLock' = olNow + LockLife /\ olRate' = olRate
      BY <2>1 DEF OlLocks
    <3> QED
      BY <1>t, <2>n, <3>1
  <2>2. CASE OlClears(c)
    <3>1. olRate'.count = 0
      BY <2>2 DEF OlClears
    <3> QED
      BY <1>t, <3>1 DEF Reached
  <2>3. CASE OlIncrs(c)
    <3>1. olTry'[c].at = (IF olRate'.count = 1 THEN "expire" ELSE AfterCount(olRate'.count)) /\ c \in olCounted'
      BY <1>3, <2>3, TryMoves DEF OlIncrs
    <3>2. olRate'.count >= LoginLimit /\ ~Pending(c)' /\ olRate'.count \in Nat
      BY <1>t, <2>3, <3>1 DEF Reached, OlIncrs
    <3> QED
      BY <1>t, <3>1, <3>2 DEF Pending, AfterCount
  <2>4. CASE ~OlLocks(c) /\ ~OlClears(c) /\ ~OlIncrs(c)
    <3>1. olCounted' = olCounted /\ olTorn \subseteq olTorn' /\ olLock' = olLock /\ olRate'.count = olRate.count
      BY <1>t, <1>3, <2>4 DEF Attempt, OlAsks, OlChecksLock, OlVerifies, OlExpires, OlRaises, OlStops, OlUses, OlKept
    <3>2. olTry'[c].at = "expire" => c \in Asked /\ olTry[c].at = "expire"
      <4>1. ASSUME NEW scope \in Consoles, NEW right \in BOOLEAN, OlAsks(c, scope, right)
            PROVE  olTry'[c].at = "lock"
        BY <4>1 DEF OlAsks
      <4>2. (\E scope \in Consoles : OlUses(c, scope)) => olTry' = olTry /\ c \in Asked
        BY DEF OlUses, OlAt
      <4>3. OlChecksLock(c) \/ OlVerifies(c) \/ OlExpires(c) \/ OlRaises(c) \/ OlStops(c) => olTry'[c].at # "expire"
        BY <1>3, TryMoves DEF AfterCount
      <4> QED
        BY <1>3, <2>4, <4>1, <4>2, <4>3 DEF Attempt
    <3>3. ASSUME c \in olCounted PROVE ~Pending(c)
      <4>1. c \in Asked /\ olTry[c].at \in {"expire", "setlock", "failed", "stopped"} /\ c \notin olTorn' /\ ~Pending(c)'
        BY <1>t, <3>1, <3>3 DEF Reached
      <4>2. ~OlRaises(c) /\ ~OlStops(c)
        BY <4>1 DEF OlRaises, OlStops
      <4>3. ~OlChecksLock(c) /\ ~OlVerifies(c)
        BY <1>3, <4>1, TryMoves
      <4>4. ~(\E scope \in Consoles, right \in BOOLEAN : OlAsks(c, scope, right)) /\ ~(\E scope \in Consoles : OlUses(c, scope))
        BY <4>1 DEF OlAsks, OlUses, OlAt
      <4>5. OlExpires(c)
        BY <1>3, <2>4, <4>2, <4>3, <4>4 DEF Attempt
      <4>6. olTry[c].at = "expire" /\ olTry'[c].at = AfterCount(1)
        BY <1>3, <4>5, TryMoves
      <4> QED
        BY <1>t, <4>1, <4>6 DEF Pending, AfterCount
    <3>4. Reached
      <4>1. ASSUME NEW d \in olCounted PROVE ~Pending(d) /\ d \notin olTorn
        <5>1. d \notin olTorn /\ ~Pending(d)' /\ d \in Asked
          BY <1>t, <3>1 DEF Reached
        <5>2. CASE d = c
          BY <3>3, <5>1, <5>2
        <5>3. CASE d # c
          BY <2>a, <5>1, <5>3 DEF Pending
        <5> QED
          BY <5>2, <5>3
      <4> QED
        BY <3>1, <4>1 DEF Reached
    <3>5. (\E d \in Asked' : olTry'[d].at = "expire") => \E d \in Asked : olTry[d].at = "expire"
      BY <2>a, <3>2
    <3>6. /\ olLock > olNow /\ (olRate.until = NoLife \/ olRate.until <= olLock)
          /\ (\E d \in Asked : olTry[d].at = "expire") => olLock = olNow + LockLife
      BY <3>4 DEF LockOutlives
    <3>7. CASE OlExpires(c)
      <4>1. c \in Asked /\ olTry[c].at = "expire"
        BY <3>7 DEF OlExpires, OlAt
      <4>2. olRate' = olRate \/ olRate'.until = olNow + LockLife
        BY <1>t, <3>7 DEF OlExpires
      <4> QED
        BY <1>t, <2>n, <3>1, <3>6, <4>1, <4>2
    <3>8. CASE ~OlExpires(c)
      <4>1. olRate' = olRate
        BY <1>3, <2>4, <3>8 DEF Attempt, OlAsks, OlChecksLock, OlVerifies, OlRaises, OlStops, OlUses
      <4> QED
        BY <2>n, <3>1, <3>5, <3>6, <4>1
    <3> QED
      BY <3>7, <3>8
  <2> QED
    BY <2>1, <2>2, <2>3, <2>4
<1> QED
  BY <1>1, <1>2, <1>3, LoginSteps

LEMMA TokensStep ==
  ASSUME LoginTypes, TokensDue, [OlNext]_olVars
  PROVE  TokensDue'
<1>t. /\ olTry \in [Asked -> OneTry] /\ olNow \in Nat
      /\ \A c \in Asked : olTry[c].checked \in Nat
  BY DEF LoginTypes, OneTry
<1>1. CASE UNCHANGED olVars
  BY <1>1 DEF olVars, TokensDue, Asked
<1>2. CASE OlTick
  <2>1. olTry' = olTry /\ olServed' = olServed /\ olNow' = olNow + 1
    BY <1>2 DEF OlTick
  <2>2. \A c \in Asked : olTry[c].checked <= olNow'
    BY <1>t, <2>1 DEF TokensDue
  <2> QED
    BY <2>1, <2>2 DEF TokensDue, Asked
<1>3. ASSUME NEW c \in Attempts, Attempt(c)
      PROVE  TokensDue'
  <2>n. olNow' = olNow
    BY <1>3 DEF Attempt, OlAsks, OlChecksLock, OlVerifies, OlIncrs, OlExpires, OlLocks, OlClears, OlRaises, OlStops, OlUses, OlKept
  <2>a. /\ \A d \in Asked : d # c => olTry'[d] = olTry[d] /\ d \in Asked'
        /\ Asked' = Asked \cup {c}
        /\ c \in Asked => olTry'[c].right = olTry[c].right
    BY <1>3, TryTypes
  <2>1. ASSUME NEW scope \in Consoles, NEW right \in BOOLEAN, OlAsks(c, scope, right)
        PROVE  olTry'[c].at = "lock" /\ olTry'[c].checked = 0 /\ c \notin Asked
    BY <2>1 DEF OlAsks
  <2>2. olTry'[c].checked <= olNow
    <3>1. c \in Asked /\ (OlChecksLock(c) \/ OlRaises(c)) => olTry'[c].checked \in {olNow, olTry[c].checked}
      BY <1>3, TryMoves
    <3>2. c \in Asked /\ ~OlChecksLock(c) /\ ~OlRaises(c) => olTry'[c].checked = olTry[c].checked
      BY <1>3, TryMoves
    <3>3. c \in Asked => olTry'[c].checked <= olNow
      BY <1>t, <3>1, <3>2 DEF TokensDue
    <3>4. c \notin Asked => olTry'[c].checked = 0
      BY <1>3, <2>1, TryMoves
    <3> QED
      BY <1>t, <3>3, <3>4
  <2>3. olTry'[c].at \in {"clear", "entered"} => olTry'[c].right
    <3>1. (\E scope \in Consoles : OlUses(c, scope)) => olTry' = olTry /\ c \in Asked
      BY DEF OlUses, OlAt
    <3>2. ASSUME c \in Asked, OlChecksLock(c) \/ OlIncrs(c) \/ OlExpires(c) \/ OlLocks(c) \/ OlStops(c)
          PROVE  olTry'[c].at \notin {"clear", "entered"}
      BY <1>3, <3>2, TryMoves DEF AfterCount
    <3>3. ASSUME c \in Asked, OlVerifies(c) \/ OlClears(c) \/ OlRaises(c), olTry'[c].at \in {"clear", "entered"}
          PROVE  olTry[c].right
      BY <1>3, <3>3, TryMoves DEF TokensDue
    <3>4. c \in Asked /\ olTry'[c].at \in {"clear", "entered"} => olTry[c].right
      <4>1. CASE \E scope \in Consoles : OlUses(c, scope)
        BY <3>1, <4>1 DEF TokensDue
      <4>2. ~(\E scope \in Consoles, right \in BOOLEAN : OlAsks(c, scope, right)) \/ c \notin Asked
        BY <2>1
      <4> QED
        BY <1>3, <3>2, <3>3, <4>1, <4>2 DEF Attempt
    <3>5. c \notin Asked => olTry'[c].at = "lock"
      BY <1>3, <2>1, TryMoves
    <3> QED
      BY <2>a, <3>4, <3>5
  <2>4. \A d \in Asked' : /\ olTry'[d].checked <= olNow'
                          /\ olTry'[d].at \in {"clear", "entered"} => olTry'[d].right
    BY <2>n, <2>a, <2>2, <2>3 DEF TokensDue
  <2>5. ASSUME NEW s \in olServed'
        PROVE  \E d \in Asked' : /\ olTry'[d].at = "entered" /\ olTry'[d].right /\ olTry'[d].scope = s.scope
                                 /\ olTry'[d].checked <= s.time /\ s.time < olTry'[d].expires
    <3>1. CASE \E scope \in Consoles : OlUses(c, scope)
      <4>1. PICK scope \in Consoles : OlUses(c, scope)
        BY <3>1
      <4>2. s = [scope |-> scope, time |-> olNow] /\ c \in Asked /\ olTry' = olTry /\ olTry[c].at = "entered"
            /\ olTry[c].expires > olNow /\ olTry[c].scope = scope
        BY <2>5, <4>1 DEF OlUses, OlAt
      <4>3. olTry[c].right /\ olTry[c].checked <= olNow /\ s.scope = scope /\ s.time = olNow /\ c \in Asked'
        BY <2>a, <4>2 DEF TokensDue
      <4>4. olTry[c].expires \in Nat
        BY <4>2 DEF LoginTypes, OneTry
      <4>5. s.time < olTry[c].expires
        BY <1>t, <4>2, <4>3, <4>4
      <4> QED
        BY <4>2, <4>3, <4>5
    <3>2. CASE ~\E scope \in Consoles : OlUses(c, scope)
      <4>1. olServed' = olServed
        BY <1>3, <3>2 DEF Attempt, OlAsks, OlChecksLock, OlVerifies, OlIncrs, OlExpires, OlLocks, OlClears, OlRaises, OlStops, OlKept
      <4>2. PICK d \in Asked : /\ olTry[d].at = "entered" /\ olTry[d].right /\ olTry[d].scope = s.scope
                               /\ olTry[d].checked <= s.time /\ s.time < olTry[d].expires
        BY <2>5, <4>1 DEF TokensDue
      <4>3. d # c
        <5>1. SUFFICES ASSUME d = c PROVE FALSE
          OBVIOUS
        <5>2. ~(\E scope \in Consoles, right \in BOOLEAN : OlAsks(c, scope, right))
          BY <2>1, <5>1
        <5>3. ~OlRaises(c)
          BY <4>2, <5>1 DEF OlRaises
        <5>4. ~OlStops(c)
          BY <4>2, <5>1 DEF OlStops
        <5>5. ~(OlChecksLock(c) \/ OlVerifies(c) \/ OlIncrs(c) \/ OlExpires(c) \/ OlLocks(c) \/ OlClears(c))
          BY <4>2, <5>1 DEF OlChecksLock, OlVerifies, OlIncrs, OlExpires, OlLocks, OlClears, OlAt
        <5> QED
          BY <1>3, <3>2, <5>2, <5>3, <5>4, <5>5 DEF Attempt
      <4> QED
        BY <2>a, <4>2, <4>3
    <3> QED
      BY <3>1, <3>2
  <2> QED
    BY <2>4, <2>5 DEF TokensDue
<1> QED
  BY <1>1, <1>2, <1>3, LoginSteps

LEMMA LoginInitial == OlInit => LoginInv
<1> SUFFICES ASSUME OlInit PROVE LoginInv
  OBVIOUS
<1>1. Asked = {} /\ olTry \in [Asked -> OneTry]
  <2>1. olTry = <<>>
    BY DEF OlInit
  <2> QED
    BY <2>1, EmptySeq DEF Asked
<1>2. LoginTypes
  BY <1>1, LoginAssumption DEF OlInit, LoginTypes
<1>3. LivesNear /\ LockHeeded /\ TokensDue
  BY <1>1, LoginAssumption DEF OlInit, LivesNear, LockHeeded, TokensDue
<1>4. Tally
  <2>1. IsFiniteSet({}) /\ Cardinality({}) = 0 /\ NoLife # 0
    BY FS_EmptySet, LoginAssumption DEF NoLife
  <2> QED
    BY <1>1, <2>1 DEF OlInit, Tally
<1>5. LockOutlives
  BY LoginAssumption DEF OlInit, LockOutlives, Reached
<1> QED
  BY <1>2, <1>3, <1>4, <1>5 DEF LoginInv

LEMMA LoginStep == LoginInv /\ [OlNext]_olVars => LoginInv'
  BY LoginTypesStep, LivesStep, HeededStep, TallyStep, OutlivesStep, TokensStep DEF LoginInv

LEMMA LoginImplies == LoginInv => LoginSafe
<1> SUFFICES ASSUME LoginInv PROVE LoginSafe
  OBVIOUS
<1>1. /\ LoginTypes /\ LockHeeded /\ Tally /\ LockOutlives /\ TokensDue
      /\ olCounted \subseteq Asked /\ olRate.until \in Nat /\ olLock \in Nat /\ olNow \in Nat
  BY DEF LoginInv, LoginTypes, Tally
<1>2. LimitLocks
  <2> SUFFICES ASSUME Cardinality(olCounted) >= LoginLimit, \A c \in olCounted : olTry[c].at = "failed" /\ c \notin olTorn
               PROVE  olLock >= olRate.until /\ olLock > olNow
    BY DEF LimitLocks
  <2>1. Reached
    BY <1>1 DEF Reached, Pending, Tally
  <2>2. olRate.until # NoLife
    BY <1>1 DEF Tally
  <2> QED
    BY <1>1, <2>1, <2>2 DEF LockOutlives
<1>3. FailuresForgotten
  BY <1>1 DEF FailuresForgotten, Tally
<1>4. TokensEarned
  BY <1>1 DEF TokensDue, TokensEarned
<1> QED
  BY <1>1, <1>2, <1>3, <1>4 DEF LoginSafe
-----------------------------------------------------------------------------
(* Player sessions and their tokens (provider/sessions.py, api.py).        *)

\* The commands of a request, in no order.
CommandsIn ==
  [mint |-> {"set_session", "set_token", "add_to_index", "list"},
   create |-> {"set_session", "set_token", "add_to_index", "answer"},
   revoke |-> {"get_token", "drop_token", "remove_from_index", "end_session", "unlist"},
   delete |-> {"load", "get_index", "drop_token", "drop_index", "get_session", "end_session", "answer"},
   subscribe |-> {"get_token", "get_session", "touch", "set_session_anew", "answer"}]

TokenRequests ==
  [op : {"none", "failed", "mint", "create", "revoke", "delete", "subscribe"},
   at : Reading \cup Writing \cup {"idle", "done", "list", "unlist", "answer"},
   target : TokenCalls \cup {"none"}, raised : BOOLEAN]
AsTypes == AsTypeOK /\ asCall \in [TokenCalls -> TokenRequests] /\ asGone \subseteq TokenCalls /\ asRevived \subseteq TokenCalls

\* A token and a session that were taken back.
TakenBack(s) == s \notin asToken /\ (s \in asRevived \/ s \notin asSession)

\* Who is past the token of what it takes back, and who is past all of it.
PastToken(op, at) ==
  \/ op = "revoke" /\ at \in {"end_session", "unlist"}
  \/ op = "delete" /\ at \in {"get_session", "end_session", "answer"}
PastAll(op, at) == <<op, at>> \in {<<"revoke", "unlist">>, <<"delete", "answer">>}

\* A request is for its own session or one that was answered; the index loses a token that is gone.
RequestSound(c) ==
  LET r == asCall[c] IN
  /\ r.op = "none" <=> r.at = "idle"
  /\ r.at \notin {"idle", "done"} => r.op \in DOMAIN CommandsIn /\ r.at \in CommandsIn[r.op]
  /\ r.op \in {"mint", "create"} => r.target = c /\ (r.at \in {"list", "answer"} => c \in asIndexed)
  /\ r.op \in {"revoke", "delete", "subscribe"} => r.target \in TokenCalls /\ Answered(r.target)
  /\ r.at \in {"remove_from_index", "drop_index"} => r.target \notin asToken
  /\ ~r.raised /\ PastToken(r.op, r.at) => r.target \notin asToken
  /\ ~r.raised /\ PastAll(r.op, r.at) => TakenBack(r.target)

AsInv ==
  /\ AsTypes
  /\ \A c \in TokenCalls : RequestSound(c)
  /\ \A s \in TokenCalls : asEntry[s] # "none" => Answered(s)
  /\ LiveTokensAreIndexed
  /\ \A s \in asGone : Answered(s) /\ TakenBack(s)

TokenOps == {"mint", "create", "revoke", "delete", "subscribe"}

LEMMA PlansDistinct ==
  ASSUME NEW op \in TokenOps
  PROVE  /\ DOMAIN Plan(op) \subseteq 1..7
         /\ \A i, j \in DOMAIN Plan(op) : Plan(op)[i] = Plan(op)[j] => i = j
<1>1. CASE op = "mint"
  BY <1>1 DEF Plan, AdminMint
<1>2. CASE op = "create"
  BY <1>2 DEF Plan, OperatorCreate
<1>3. CASE op = "revoke"
  BY <1>3 DEF Plan, AdminRevoke
<1>4. CASE op = "delete"
  BY <1>4 DEF Plan, OperatorDelete
<1>5. CASE op = "subscribe"
  BY <1>5 DEF Plan, Subscribe
<1> QED BY <1>1, <1>2, <1>3, <1>4, <1>5 DEF TokenOps

LEMMA FollowingCommand ==
  ASSUME NEW op \in TokenOps, NEW i \in DOMAIN Plan(op)
  PROVE  Following(op, Plan(op)[i]) = Plan(op)[1 + i]
<1> DEFINE k == CHOOSE j \in DOMAIN Plan(op) : Plan(op)[j] = Plan(op)[i]
<1>1. k \in DOMAIN Plan(op) /\ Plan(op)[k] = Plan(op)[i]
  OBVIOUS
<1>2. k = i
  <2> HIDE DEF k
  <2> QED BY <1>1, PlansDistinct
<1> QED BY <1>2 DEF Following

\* The commands of each request, in order.
LEMMA FollowingCommands ==
  /\ Following("mint", "set_session") = "set_token" /\ Following("mint", "set_token") = "add_to_index"
  /\ Following("mint", "add_to_index") = "list"
  /\ Following("create", "set_session") = "set_token" /\ Following("create", "set_token") = "add_to_index"
  /\ Following("create", "add_to_index") = "answer"
  /\ Following("revoke", "get_token") = "drop_token" /\ Following("revoke", "drop_token") = "remove_from_index"
  /\ Following("revoke", "remove_from_index") = "end_session" /\ Following("revoke", "end_session") = "unlist"
  /\ Following("delete", "load") = "get_index" /\ Following("delete", "get_index") = "drop_token"
  /\ Following("delete", "drop_token") = "drop_index" /\ Following("delete", "drop_index") = "get_session"
  /\ Following("delete", "get_session") = "end_session" /\ Following("delete", "end_session") = "answer"
  /\ Following("subscribe", "get_token") = "get_session" /\ Following("subscribe", "get_session") = "touch"
  /\ Following("subscribe", "touch") = "set_session_anew" /\ Following("subscribe", "set_session_anew") = "answer"
<1>1. \A op \in TokenOps : \A i \in DOMAIN Plan(op) : Following(op, Plan(op)[i]) = Plan(op)[1 + i]
  BY FollowingCommand
<1>2. Plan("mint") = AdminMint /\ Plan("create") = OperatorCreate /\ Plan("revoke") = AdminRevoke
      /\ Plan("delete") = OperatorDelete /\ Plan("subscribe") = Subscribe
  BY DEF Plan
<1>3. \A i \in 1..3 : Following("mint", AdminMint[i]) = AdminMint[1 + i]
  BY <1>1, <1>2 DEF TokenOps, AdminMint
<1>4. \A i \in 1..3 : Following("create", OperatorCreate[i]) = OperatorCreate[1 + i]
  BY <1>1, <1>2 DEF TokenOps, OperatorCreate
<1>5. \A i \in 1..4 : Following("revoke", AdminRevoke[i]) = AdminRevoke[1 + i]
  BY <1>1, <1>2 DEF TokenOps, AdminRevoke
<1>6. \A i \in 1..6 : Following("delete", OperatorDelete[i]) = OperatorDelete[1 + i]
  BY <1>1, <1>2 DEF TokenOps, OperatorDelete
<1>7. \A i \in 1..4 : Following("subscribe", Subscribe[i]) = Subscribe[1 + i]
  BY <1>1, <1>2 DEF TokenOps, Subscribe
<1>8. /\ Following("mint", AdminMint[1]) = AdminMint[2] /\ Following("mint", AdminMint[2]) = AdminMint[3]
      /\ Following("mint", AdminMint[3]) = AdminMint[4]
  BY <1>3
<1>9. /\ Following("create", OperatorCreate[1]) = OperatorCreate[2] /\ Following("create", OperatorCreate[2]) = OperatorCreate[3]
      /\ Following("create", OperatorCreate[3]) = OperatorCreate[4]
  BY <1>4
<1>10. /\ Following("revoke", AdminRevoke[1]) = AdminRevoke[2] /\ Following("revoke", AdminRevoke[2]) = AdminRevoke[3]
       /\ Following("revoke", AdminRevoke[3]) = AdminRevoke[4] /\ Following("revoke", AdminRevoke[4]) = AdminRevoke[5]
  BY <1>5
<1>11. /\ Following("delete", OperatorDelete[1]) = OperatorDelete[2] /\ Following("delete", OperatorDelete[2]) = OperatorDelete[3]
       /\ Following("delete", OperatorDelete[3]) = OperatorDelete[4] /\ Following("delete", OperatorDelete[4]) = OperatorDelete[5]
       /\ Following("delete", OperatorDelete[5]) = OperatorDelete[6] /\ Following("delete", OperatorDelete[6]) = OperatorDelete[7]
  BY <1>6
<1>12. /\ Following("subscribe", Subscribe[1]) = Subscribe[2] /\ Following("subscribe", Subscribe[2]) = Subscribe[3]
       /\ Following("subscribe", Subscribe[3]) = Subscribe[4] /\ Following("subscribe", Subscribe[4]) = Subscribe[5]
  BY <1>7
<1> QED BY <1>8, <1>9, <1>10, <1>11, <1>12 DEF AdminMint, OperatorCreate, AdminRevoke, OperatorDelete, Subscribe

LEMMA SessionsBegin == AsInit => AsInv
<1> SUFFICES ASSUME AsInit PROVE AsInv
  OBVIOUS
<1>1. \A c \in TokenCalls : asCall[c] = IdleRequest
  BY DEF AsInit
<1>2. IdleRequest \in TokenRequests /\ IdleRequest.op = "none" /\ IdleRequest.at = "idle"
  BY DEF IdleRequest, TokenRequests
<1>3. AsTypes
  BY <1>1, <1>2, TokensAssumption DEF AsInit, AsTypes, AsTypeOK
<1>4. \A c \in TokenCalls : RequestSound(c)
  BY <1>1, <1>2 DEF RequestSound, PastToken, PastAll
<1> QED BY <1>3, <1>4 DEF AsInit, AsInv, LiveTokensAreIndexed

\* What was answered stays so, what is gone stays gone, and whoever does nothing stays sound.
LEMMA OthersSound ==
  ASSUME AsInv, NEW x \in TokenCalls, asCall'[x] = asCall[x],
         \A s \in TokenCalls : Answered(s) => Answered(s)',
         \A s \in TokenCalls : Answered(s) /\ s \notin asToken => s \notin asToken',
         \A s \in TokenCalls : Answered(s) /\ TakenBack(s) => TakenBack(s)',
         x \in asIndexed => x \in asIndexed' \/ Answered(x)
  PROVE  RequestSound(x)'
<1> DEFINE r == asCall[x]
<1>1. RequestSound(x)
  BY DEF AsInv
<1>2. r.op \in {"mint", "create"} /\ r.at \in {"list", "answer"} => ~Answered(x)
  BY DEF Answered
<1>3. r.at \in {"remove_from_index", "drop_index"} => r.target \in TokenCalls /\ Answered(r.target)
  BY <1>1 DEF RequestSound, CommandsIn
<1>4. PastToken(r.op, r.at) \/ PastAll(r.op, r.at) => r.target \in TokenCalls /\ Answered(r.target)
  BY <1>1 DEF RequestSound, PastToken, PastAll
<1> QED BY <1>1, <1>2, <1>3, <1>4 DEF RequestSound

\* A request is sound once what it is about and has done is.
LEMMA SoundAfter ==
  ASSUME NEW c \in TokenCalls, NEW e \in TokenRequests, asCall'[c] = e,
         e.op = "none" <=> e.at = "idle",
         e.at \notin {"idle", "done"} => e.op \in DOMAIN CommandsIn /\ e.at \in CommandsIn[e.op],
         e.op \in {"mint", "create"} => e.target = c /\ (e.at \in {"list", "answer"} => c \in asIndexed'),
         e.op \in {"revoke", "delete", "subscribe"} => e.target \in TokenCalls /\ Answered(e.target)',
         e.at \in {"remove_from_index", "drop_index"} => e.target \notin asToken',
         ~e.raised /\ PastToken(e.op, e.at) => e.target \notin asToken',
         ~e.raised /\ PastAll(e.op, e.at) => TakenBack(e.target)'
  PROVE  RequestSound(c)'
BY DEF RequestSound, Answered, TakenBack


\* What a command does to what is kept.
LEMMA CommandEffects ==
  ASSUME AsInv, NEW c \in TokenCalls, TakesEffect(c), asCall[c].at \in Writing
  PROVE  /\ asSession' \subseteq TokenCalls /\ asToken' \subseteq TokenCalls /\ asIndexed' \subseteq TokenCalls
         /\ asRevived' \subseteq TokenCalls
         /\ \A s \in TokenCalls : Answered(s) /\ s \notin asToken => s \notin asToken'
         /\ \A s \in TokenCalls : Answered(s) /\ TakenBack(s) =>
              s \notin asToken' /\ (s \in asRevived' \/ s \notin asSession')
         /\ \A s \in TokenCalls : s \in asIndexed => s \in asIndexed' \/ Answered(s)
         /\ \A s \in TokenCalls : Answered(s) /\ s \in asToken' => s \in asIndexed'
         /\ asCall[c].at = "drop_token" => asCall[c].target \notin asToken'
         /\ asCall[c].at = "add_to_index" => asCall[c].target \in asIndexed'
         /\ asCall[c].at = "end_session" => asCall[c].target \notin asSession' /\ asToken' = asToken /\ asRevived' = asRevived
         /\ asCall[c].at \in {"remove_from_index", "drop_index"} => asToken' = asToken
<1> DEFINE t == asCall[c].target
           at == asCall[c].at
           op == asCall[c].op
<1>1. /\ asSession' = (IF at \in {"set_session", "set_session_anew"} THEN asSession \cup {t}
                      ELSE IF at = "end_session" THEN asSession \ {t} ELSE asSession)
      /\ asToken' = (IF at = "set_token" THEN asToken \cup {t} ELSE IF at = "drop_token" THEN asToken \ {t} ELSE asToken)
      /\ asIndexed' = (IF at = "add_to_index" THEN asIndexed \cup {t}
                      ELSE IF at \in {"remove_from_index", "drop_index"} THEN asIndexed \ {t} ELSE asIndexed)
      /\ asRevived' = IF at = "set_session_anew" /\ t \notin asSession THEN asRevived \cup {t} ELSE asRevived
  BY DEF TakesEffect, Changed
<1>2. op \in DOMAIN CommandsIn /\ at \in CommandsIn[op] /\ at \notin {"idle", "done"}
  BY DEF AsInv, RequestSound, Writing
<1>3. /\ t \in TokenCalls /\ (at \in {"set_session", "set_token", "add_to_index"} => t = c)
      /\ at \in {"remove_from_index", "drop_index"} => t \notin asToken /\ Answered(t)
  <2>1. at \in {"set_session", "set_token", "add_to_index"} => op \in {"mint", "create"}
    BY <1>2 DEF CommandsIn
  <2>2. at \in {"remove_from_index", "drop_index"} => op \in {"revoke", "delete"}
    BY <1>2 DEF CommandsIn
  <2>3. op \in {"mint", "create", "revoke", "delete", "subscribe"}
    BY <1>2 DEF CommandsIn
  <2> QED BY <2>1, <2>2, <2>3 DEF AsInv, RequestSound
<1>4. ~Answered(c)
  BY <1>2 DEF Answered
<1>5. asSession \subseteq TokenCalls /\ asToken \subseteq TokenCalls /\ asIndexed \subseteq TokenCalls /\ asRevived \subseteq TokenCalls
      /\ \A s \in asToken : Answered(s) => s \in asIndexed
  BY DEF AsInv, AsTypes, AsTypeOK, LiveTokensAreIndexed
<1> HIDE DEF t, at, op
<1>6. /\ asSession' \subseteq TokenCalls /\ asToken' \subseteq TokenCalls /\ asIndexed' \subseteq TokenCalls
      /\ asRevived' \subseteq TokenCalls
  BY <1>1, <1>3, <1>5
<1>7. \A s \in TokenCalls : Answered(s) /\ s \notin asToken => s \notin asToken'
  BY <1>1, <1>3, <1>4
<1>8. \A s \in TokenCalls : Answered(s) /\ TakenBack(s) => s \notin asToken' /\ (s \in asRevived' \/ s \notin asSession')
  <2> SUFFICES ASSUME NEW s \in TokenCalls, Answered(s), s \notin asToken, s \in asRevived \/ s \notin asSession
               PROVE  s \notin asToken' /\ (s \in asRevived' \/ s \notin asSession')
    BY DEF TakenBack
  <2>1. CASE s = t
    BY <2>1, <1>1, <1>3, <1>4
  <2>2. CASE s # t
    BY <2>2, <1>1
  <2> QED BY <2>1, <2>2
<1>9. \A s \in TokenCalls : s \in asIndexed => s \in asIndexed' \/ Answered(s)
  BY <1>1, <1>3
<1>10. \A s \in TokenCalls : Answered(s) /\ s \in asToken' => s \in asIndexed'
  <2> SUFFICES ASSUME NEW s \in TokenCalls, Answered(s), s \in asToken' PROVE s \in asIndexed'
    OBVIOUS
  <2>1. s \in asToken /\ s \in asIndexed
    BY <1>1, <1>3, <1>4, <1>5
  <2> QED BY <2>1, <1>1, <1>3
<1>11. /\ at = "drop_token" => t \notin asToken'
       /\ at = "add_to_index" => t \in asIndexed'
       /\ at = "end_session" => t \notin asSession' /\ asToken' = asToken /\ asRevived' = asRevived
       /\ at \in {"remove_from_index", "drop_index"} => asToken' = asToken
  BY <1>1
<1> QED BY <1>6, <1>7, <1>8, <1>9, <1>10, <1>11 DEF t, at

LEMMA SessionsStep == AsInv /\ [AsNext]_asVars => AsInv'
<1> SUFFICES ASSUME AsInv, [AsNext]_asVars PROVE AsInv'
  OBVIOUS
<1>t. /\ asCall \in [TokenCalls -> TokenRequests] /\ asGone \subseteq TokenCalls /\ asRevived \subseteq TokenCalls
      /\ asSession \subseteq TokenCalls /\ asToken \subseteq TokenCalls /\ asIndexed \subseteq TokenCalls
      /\ asEntry \in [TokenCalls -> {"none", "active", "revoked"}] /\ asRaises \in 0..MaxRaises
  BY DEF AsInv, AsTypes, AsTypeOK
<1>i. /\ \A x \in TokenCalls : RequestSound(x) /\ (asEntry[x] # "none" => Answered(x))
      /\ \A s \in asToken : Answered(s) => s \in asIndexed
      /\ \A s \in asGone : Answered(s) /\ TakenBack(s)
  BY DEF AsInv, LiveTokensAreIndexed
\* Types, from those of what changes.
<1>y. ASSUME asCall' \in [TokenCalls -> TokenRequests], asGone' \subseteq TokenCalls, asRevived' \subseteq TokenCalls,
             asSession' \subseteq TokenCalls, asToken' \subseteq TokenCalls, asIndexed' \subseteq TokenCalls,
             asEntry' \in [TokenCalls -> {"none", "active", "revoked"}], asRaises' \in 0..MaxRaises
      PROVE  AsTypes'
  <2>1. \A x \in TokenCalls : asCall'[x].at \in Reading \cup Writing \cup {"idle", "done", "list", "unlist", "answer"}
    BY <1>y DEF TokenRequests
  <2> QED BY <2>1, <1>y DEF AsTypes, AsTypeOK
\* A step of one request: the others stay sound, and so is all that is kept.
<1>o. ASSUME NEW c \in TokenCalls, AsTypes', RequestSound(c)',
             \A x \in TokenCalls : x # c => asCall'[x] = asCall[x],
             Answered(c) => Answered(c)',
             \A s \in TokenCalls : Answered(s) /\ s \notin asToken => s \notin asToken',
             \A s \in TokenCalls : Answered(s) /\ TakenBack(s) => TakenBack(s)',
             \A s \in TokenCalls : s \in asIndexed => s \in asIndexed' \/ Answered(s),
             \A s \in TokenCalls : asEntry'[s] # "none" => asEntry[s] # "none" \/ Answered(s)',
             \A s \in asToken' : Answered(s)' => s \in asIndexed',
             \A s \in asGone' : s \in asGone \/ (Answered(s)' /\ TakenBack(s)')
      PROVE  AsInv'
  <2>1. \A s \in TokenCalls : Answered(s) => Answered(s)'
    <3> SUFFICES ASSUME NEW s \in TokenCalls, Answered(s), s # c PROVE Answered(s)'
      BY <1>o
    <3> QED BY <1>o DEF Answered
  <2>2. \A x \in TokenCalls : RequestSound(x)'
    <3> SUFFICES ASSUME NEW x \in TokenCalls, x # c PROVE RequestSound(x)'
      BY <1>o
    <3>1. asCall'[x] = asCall[x]
      BY <1>o
    <3> QED BY <3>1, <2>1, <1>o, OthersSound
  <2>3. \A s \in TokenCalls : asEntry'[s] # "none" => Answered(s)'
    BY <2>1, <1>i, <1>o
  <2>4. \A s \in asGone' : Answered(s)' /\ TakenBack(s)'
    BY <2>1, <1>i, <1>o, <1>t
  <2> QED BY <2>2, <2>3, <2>4, <1>o DEF AsInv, LiveTokensAreIndexed
\* One that leaves Redis as it is.
<1>p. ASSUME NEW c \in TokenCalls, AsTypes', RequestSound(c)', UNCHANGED <<asSession, asToken, asIndexed, asRevived>>,
             \A x \in TokenCalls : x # c => asCall'[x] = asCall[x],
             Answered(c) => Answered(c)', Answered(c)' => Answered(c) \/ c \in asIndexed,
             \A s \in TokenCalls : asEntry'[s] # "none" => asEntry[s] # "none" \/ Answered(s)',
             \A s \in asGone' : s \in asGone \/ (Answered(s)' /\ TakenBack(s))
      PROVE  AsInv'
  <2>1. \A s \in TokenCalls : TakenBack(s)' = TakenBack(s)
    BY <1>p DEF TakenBack
  <2>2. \A s \in TokenCalls : s # c => Answered(s)' = Answered(s)
    BY <1>p DEF Answered
  <2>3. \A s \in asToken' : Answered(s)' => s \in asIndexed'
    BY <2>2, <1>p, <1>i, <1>t
  <2>4. \A s \in TokenCalls : Answered(s) /\ s \notin asToken => s \notin asToken'
    BY <1>p
  <2>5. \A s \in TokenCalls : s \in asIndexed => s \in asIndexed' \/ Answered(s)
    BY <1>p
  <2>6. \A s \in asGone' : s \in asGone \/ (Answered(s)' /\ TakenBack(s)')
    BY <1>p DEF TakenBack
  <2> QED BY <2>1, <2>3, <2>4, <2>5, <2>6, <1>p, <1>o
<1>1. ASSUME NEW c \in TokenCalls, AsksFor(c) PROVE AsInv'
  <2>1. PICK op \in TokenOps, s \in TokenCalls :
          /\ asCall[c].at = "idle"
          /\ op \in {"mint", "create"} => s = c
          /\ op \in {"delete", "subscribe"} => Answered(s)
          /\ op = "revoke" => asEntry[s] # "none"
          /\ asCall' = [asCall EXCEPT ![c] = [op |-> op, at |-> Plan(op)[1], target |-> s, raised |-> FALSE]]
          /\ UNCHANGED <<asKept, asEntry, asRaises, asGone, asRevived>>
    BY <1>1 DEF AsksFor, TokenOps
  <2> DEFINE e == [op |-> op, at |-> Plan(op)[1], target |-> s, raised |-> FALSE]
  <2>2. /\ e.op = op /\ e.at = Plan(op)[1] /\ e.target = s
        /\ e.at \in {"set_session", "get_token", "load"} /\ e.at \in CommandsIn[op] /\ op \in DOMAIN CommandsIn
    BY DEF TokenOps, Plan, AdminMint, OperatorCreate, AdminRevoke, OperatorDelete, Subscribe, CommandsIn
  <2>3. e \in TokenRequests
    BY <2>2 DEF TokenRequests, TokenOps, Reading, Writing
  <2> HIDE DEF e
  <2>4. /\ asCall'[c] = e /\ \A x \in TokenCalls : x # c => asCall'[x] = asCall[x]
        /\ asCall' \in [TokenCalls -> TokenRequests]
        /\ UNCHANGED <<asSession, asToken, asIndexed, asEntry, asRaises, asGone, asRevived>>
    BY <2>1, <2>3, <1>t DEF e, asKept
  <2>5. ~Answered(c) /\ ~Answered(c)' /\ \A x \in TokenCalls : x # c => Answered(x)' = Answered(x)
    BY <2>1, <2>2, <2>4 DEF Answered
  <2>6. op \in {"revoke", "delete", "subscribe"} => Answered(s)'
    BY <2>1, <2>5, <1>i
  <2>7. RequestSound(c)'
    BY <2>1, <2>2, <2>4, <2>6 DEF RequestSound, PastToken, PastAll, TokenOps
  <2>8. AsTypes'
    BY <2>4, <1>t, <1>y
  <2> QED BY <2>4, <2>5, <2>7, <2>8, <1>p
\* A request that goes on: what it becomes.
<1>g. ASSUME NEW c \in TokenCalls, NEW at, asCall' = [asCall EXCEPT ![c].at = at],
             at \in Reading \cup Writing \cup {"idle", "done", "list", "unlist", "answer"}
      PROVE  /\ asCall' \in [TokenCalls -> TokenRequests]
             /\ asCall'[c].op = asCall[c].op /\ asCall'[c].target = asCall[c].target
             /\ asCall'[c].raised = asCall[c].raised /\ asCall'[c].at = at
             /\ \A x \in TokenCalls : x # c => asCall'[x] = asCall[x]
  <2> DEFINE e == [asCall[c] EXCEPT !.at = at]
  <2>0. asCall[c] \in TokenRequests
    BY <1>t
  <2>1. /\ e \in TokenRequests /\ e.op = asCall[c].op /\ e.target = asCall[c].target /\ e.raised = asCall[c].raised
        /\ e.at = at
    BY <2>0, <1>g DEF TokenRequests
  <2>2. asCall' = [asCall EXCEPT ![c] = e]
    BY <1>g
  <2> HIDE DEF e
  <2> QED BY <2>1, <2>2, <1>t
<1>2. ASSUME NEW c \in TokenCalls, Reads(c) PROVE AsInv'
  <2> DEFINE r == asCall[c]
             at == IF Finds(c) THEN Following(r.op, r.at) ELSE Without(c)
  <2>1. r.at \in Reading /\ asCall' = [asCall EXCEPT ![c].at = at]
        /\ UNCHANGED <<asSession, asToken, asIndexed, asEntry, asRaises, asGone, asRevived>>
    BY <1>2 DEF Reads, AsGo, asKept
  <2>2. /\ r.op \in DOMAIN CommandsIn /\ r.at \in CommandsIn[r.op] /\ r.op \in {"revoke", "delete", "subscribe"}
        /\ r.target \in TokenCalls /\ Answered(r.target)
    <3>1. r.op \in DOMAIN CommandsIn /\ r.at \in CommandsIn[r.op]
      BY <2>1, <1>i DEF RequestSound, Reading
    <3>2. r.op \in {"revoke", "delete", "subscribe"}
      BY SMTT(60), <3>1, <2>1 DEF CommandsIn, Reading
    <3> QED BY <3>1, <3>2, <1>i DEF RequestSound
  <2>3. \/ r.op = "revoke" /\ r.at = "get_token" /\ (at = "drop_token" \/ (at = "end_session" /\ r.target \notin asToken))
        \/ r.op = "delete" /\ r.at = "load" /\ at \in {"get_index", "done"}
        \/ r.op = "delete" /\ r.at = "get_index" /\ (at = "drop_token" \/ (at = "drop_index" /\ r.target \notin asIndexed))
        \/ r.op = "delete" /\ r.at = "get_session" /\ (at = "end_session" \/ (at = "answer" /\ r.target \notin asSession))
        \/ r.op = "subscribe" /\ at \in {"get_session", "touch", "set_session_anew", "answer", "done"}
    <3>1. CASE r.op = "revoke"
      <4>1. r.at = "get_token"
        BY <3>1, <2>1, <2>2 DEF CommandsIn, Reading
      <4> QED BY <3>1, <4>1, FollowingCommands DEF Finds, Without
    <3>2. CASE r.op = "delete" /\ r.at = "load"
      BY <3>2, FollowingCommands DEF Finds, Without
    <3>3. CASE r.op = "delete" /\ r.at = "get_index"
      BY <3>3, FollowingCommands DEF Finds, Without
    <3>4. CASE r.op = "delete" /\ r.at = "get_session"
      BY <3>4, FollowingCommands DEF Finds, Without
    <3>5. CASE r.op = "subscribe"
      <4>1. r.at \in {"get_token", "get_session", "touch"}
        BY <3>5, <2>1, <2>2 DEF CommandsIn, Reading
      <4> QED BY <3>5, <4>1, FollowingCommands DEF Without
    <3>6. r.op = "delete" => r.at \in {"load", "get_index", "get_session"}
      BY <2>1, <2>2 DEF CommandsIn, Reading
    <3> QED BY <2>2, <3>1, <3>2, <3>3, <3>4, <3>5, <3>6
  <2>i. RequestSound(c)
    BY <1>i
  <2> HIDE DEF r, at
  <2>4. at \in Reading \cup Writing \cup {"idle", "done", "list", "unlist", "answer"} /\ at # "idle"
    BY <2>3 DEF Reading, Writing
  <2>5. /\ asCall' \in [TokenCalls -> TokenRequests]
        /\ asCall'[c].op = r.op /\ asCall'[c].target = r.target
        /\ asCall'[c].raised = r.raised /\ asCall'[c].at = at
        /\ \A x \in TokenCalls : x # c => asCall'[x] = asCall[x]
    BY <2>1, <2>4, <1>g DEF r
  <2>6. \A x \in TokenCalls : Answered(x)' = Answered(x)
    BY <2>2, <2>5 DEF Answered, r
  <2>7. \A x \in TokenCalls : TakenBack(x)' = TakenBack(x)
    BY <2>1 DEF TakenBack
  <2>8. RequestSound(c)'
    <3>1. r.target \notin asIndexed => r.target \notin asToken
      BY <2>2, <1>i
    <3>2. at \notin {"idle", "done"} => at \in CommandsIn[r.op]
      BY <2>3 DEF CommandsIn
    <3>3. /\ at \in {"remove_from_index", "drop_index"} => r.target \notin asToken
          /\ ~r.raised /\ PastToken(r.op, at) => r.target \notin asToken
      <4>1. r.at = "get_session" /\ r.op = "delete" /\ ~r.raised => r.target \notin asToken
        BY <2>i DEF RequestSound, PastToken, r
      <4> QED BY <2>3, <3>1, <4>1 DEF PastToken
    <3>4. ~r.raised /\ PastAll(r.op, at) => TakenBack(r.target)
      BY <2>3, <3>3 DEF PastAll, PastToken, TakenBack
    <3> QED BY <2>1, <2>2, <2>4, <2>5, <2>6, <2>7, <3>2, <3>3, <3>4 DEF RequestSound
  <2>9. AsTypes'
    BY <2>1, <2>5, <1>t, <1>y
  <2> QED BY <2>1, <2>5, <2>6, <2>8, <2>9, <1>p

<1>3. ASSUME NEW c \in TokenCalls, Writes(c) PROVE AsInv'
  <2> DEFINE r == asCall[c]
             at == Following(r.op, r.at)
  <2>1. r.at \in Writing /\ TakesEffect(c) /\ asCall' = [asCall EXCEPT ![c].at = at] /\ UNCHANGED <<asEntry, asRaises, asGone>>
    BY <1>3 DEF Writes, AsGo
  <2>2. r.op \in DOMAIN CommandsIn /\ r.at \in CommandsIn[r.op] /\ RequestSound(c)
    BY <2>1, <1>i DEF RequestSound, Writing
  <2>3. \/ r.op \in {"mint", "create"} /\ r.at = "set_session" /\ at = "set_token"
        \/ r.op \in {"mint", "create"} /\ r.at = "set_token" /\ at = "add_to_index"
        \/ r.op \in {"mint", "create"} /\ r.at = "add_to_index" /\ at \in {"list", "answer"} /\ (at = "list" <=> r.op = "mint")
        \/ r.op = "revoke" /\ r.at = "drop_token" /\ at = "remove_from_index"
        \/ r.op = "revoke" /\ r.at = "remove_from_index" /\ at = "end_session"
        \/ r.op = "revoke" /\ r.at = "end_session" /\ at = "unlist"
        \/ r.op = "delete" /\ r.at = "drop_token" /\ at = "drop_index"
        \/ r.op = "delete" /\ r.at = "drop_index" /\ at = "get_session"
        \/ r.op = "delete" /\ r.at = "end_session" /\ at = "answer"
        \/ r.op = "subscribe" /\ r.at = "set_session_anew" /\ at = "answer"
    <3>1. CASE r.op = "mint"
      <4>1. r.at \in {"set_session", "set_token", "add_to_index"}
        BY <3>1, <2>1, <2>2 DEF CommandsIn, Writing
      <4> QED BY <3>1, <4>1, FollowingCommands
    <3>2. CASE r.op = "create"
      <4>1. r.at \in {"set_session", "set_token", "add_to_index"}
        BY <3>2, <2>1, <2>2 DEF CommandsIn, Writing
      <4> QED BY <3>2, <4>1, FollowingCommands
    <3>3. CASE r.op = "revoke"
      <4>1. r.at \in {"drop_token", "remove_from_index", "end_session"}
        BY <3>3, <2>1, <2>2 DEF CommandsIn, Writing
      <4> QED BY <3>3, <4>1, FollowingCommands
    <3>4. CASE r.op = "delete"
      <4>1. r.at \in {"drop_token", "drop_index", "end_session"}
        BY <3>4, <2>1, <2>2 DEF CommandsIn, Writing
      <4> QED BY <3>4, <4>1, FollowingCommands
    <3>5. CASE r.op = "subscribe"
      <4>1. r.at = "set_session_anew"
        BY <3>5, <2>1, <2>2 DEF CommandsIn, Writing
      <4> QED BY <3>5, <4>1, FollowingCommands
    <3> QED BY <2>2, <3>1, <3>2, <3>3, <3>4, <3>5 DEF CommandsIn
  <2>e. /\ asSession' \subseteq TokenCalls /\ asToken' \subseteq TokenCalls /\ asIndexed' \subseteq TokenCalls
        /\ asRevived' \subseteq TokenCalls
        /\ \A s \in TokenCalls : Answered(s) /\ s \notin asToken => s \notin asToken'
        /\ \A s \in TokenCalls : Answered(s) /\ TakenBack(s) =>
             s \notin asToken' /\ (s \in asRevived' \/ s \notin asSession')
        /\ \A s \in TokenCalls : s \in asIndexed => s \in asIndexed' \/ Answered(s)
        /\ \A s \in TokenCalls : Answered(s) /\ s \in asToken' => s \in asIndexed'
        /\ r.at = "drop_token" => r.target \notin asToken'
        /\ r.at = "add_to_index" => r.target \in asIndexed'
        /\ r.at = "end_session" => r.target \notin asSession' /\ asToken' = asToken /\ asRevived' = asRevived
        /\ r.at \in {"remove_from_index", "drop_index"} => asToken' = asToken
    BY <2>1, CommandEffects
  <2> HIDE DEF r, at
  <2>4. at \in Reading \cup Writing \cup {"idle", "done", "list", "unlist", "answer"} /\ at \notin {"idle", "done"}
    BY <2>3 DEF Reading, Writing
  <2>5. /\ asCall' \in [TokenCalls -> TokenRequests]
        /\ asCall'[c].op = r.op /\ asCall'[c].target = r.target
        /\ asCall'[c].raised = r.raised /\ asCall'[c].at = at
        /\ \A x \in TokenCalls : x # c => asCall'[x] = asCall[x]
    BY <2>1, <2>4, <1>g DEF r
  <2>6. ~Answered(c) /\ \A x \in TokenCalls : Answered(x)' = Answered(x)
    BY <2>1, <2>4, <2>5 DEF Answered, r, Writing
  <2>7. \A s \in TokenCalls : Answered(s) /\ TakenBack(s) => TakenBack(s)'
    BY <2>e DEF TakenBack
  <2>8. RequestSound(c)'
    <3>p. PICK e \in TokenRequests : asCall'[c] = e
      BY <2>5
    <3>q. e.op = r.op /\ e.target = r.target /\ e.raised = r.raised /\ e.at = at
      BY <2>5, <3>p
    <3>1. e.op \in {"mint", "create"} => e.target = c /\ (e.at \in {"list", "answer"} => c \in asIndexed')
      BY <2>2, <2>3, <2>e, <3>q DEF RequestSound, r
    <3>2. e.op \in {"revoke", "delete", "subscribe"} => e.target \in TokenCalls /\ Answered(e.target)'
      <4>1. e.op \in {"revoke", "delete", "subscribe"} => e.target \in TokenCalls /\ Answered(e.target)
        BY <2>2, <3>q DEF RequestSound, r
      <4> QED BY <4>1, <2>6
    <3>3. e.op \in DOMAIN CommandsIn /\ e.at \in CommandsIn[e.op] /\ e.op # "none" /\ e.at # "idle"
      BY <2>3, <3>q DEF CommandsIn
    <3>4. e.at \in {"remove_from_index", "drop_index"} => e.target \notin asToken'
      BY <2>3, <2>e, <3>q
    <3>5. ~e.raised /\ PastToken(e.op, e.at) => e.target \notin asToken'
      <4>1. r.at \in {"remove_from_index", "drop_index"} => e.target \notin asToken'
        BY <2>2, <2>e, <3>q DEF RequestSound, r
      <4>2. r.at = "end_session" /\ r.op \in {"revoke", "delete"} /\ ~r.raised => e.target \notin asToken'
        BY <2>2, <2>e, <3>q DEF RequestSound, PastToken, r
      <4> QED BY <2>3, <3>q, <4>1, <4>2 DEF PastToken
    <3>6. ~e.raised /\ PastAll(e.op, e.at) => TakenBack(e.target)'
      <4>1. PastAll(e.op, e.at) => r.at = "end_session" /\ PastToken(e.op, e.at)
        BY <2>3, <3>q DEF PastAll, PastToken
      <4>2. r.at = "end_session" => e.target \notin asSession'
        BY <2>e, <3>q
      <4> QED BY <3>5, <4>1, <4>2 DEF TakenBack
    <3> QED BY <3>p, <3>1, <3>2, <3>3, <3>4, <3>5, <3>6, SoundAfter
  <2>9. AsTypes'
    BY <2>1, <2>5, <2>e, <1>t, <1>y
  <2>10. \A s \in asToken' : Answered(s)' => s \in asIndexed'
    BY <2>6, <2>e
  <2>11. \A s \in asGone' : s \in asGone \/ (Answered(s)' /\ TakenBack(s)')
    BY <2>1
  <2>12. \A s \in TokenCalls : asEntry'[s] # "none" => asEntry[s] # "none" \/ Answered(s)'
    BY <2>1
  <2> HIDE <2>1, <2>2, <2>3
  <2> QED BY <2>5, <2>6, <2>7, <2>8, <2>9, <2>10, <2>11, <2>12, <2>e, <1>o
<1>4. ASSUME NEW c \in TokenCalls, CommandFails(c) PROVE AsInv'
  <2> DEFINE r == asCall[c]
             at == Raised(c)
             e == [[[r EXCEPT !.at = at] EXCEPT !.raised = TRUE] EXCEPT !.op = IF at = "done" THEN "failed" ELSE r.op]
  <2>1. /\ r.at \in Reading \cup Writing /\ asRaises < MaxRaises /\ asRaises' = asRaises + 1
        /\ UNCHANGED <<asSession, asToken, asIndexed, asRevived>> \/ (r.at \in Writing /\ TakesEffect(c))
        /\ asCall' = [asCall EXCEPT ![c].at = at, ![c].raised = TRUE, ![c].op = IF at = "done" THEN "failed" ELSE r.op]
        /\ UNCHANGED <<asEntry, asGone>>
    BY <1>4 DEF CommandFails, asKept
  <2>2. /\ r.op \in DOMAIN CommandsIn /\ r.at \in CommandsIn[r.op] /\ RequestSound(c) /\ r \in TokenRequests
        /\ r.op \in {"mint", "create", "revoke", "delete", "subscribe"}
    BY <2>1, <1>i, <1>t DEF RequestSound, Reading, Writing, CommandsIn
  <2>3. \/ at = "done"
        \/ r.op = "revoke" /\ at \in {"end_session", "unlist"}
        \/ r.op = "delete" /\ at \in {"get_session", "answer"}
    BY <2>2, FollowingCommands DEF Raised
  <2> HIDE DEF at
  <2>4. /\ e \in TokenRequests /\ e.at = at /\ e.raised = TRUE /\ e.target = r.target
        /\ e.op = IF at = "done" THEN "failed" ELSE r.op
    <3>1. at \in Reading \cup Writing \cup {"idle", "done", "list", "unlist", "answer"}
      BY <2>3 DEF Reading, Writing
    <3> HIDE DEF r
    <3> QED BY <2>2, <3>1 DEF TokenRequests
  <2>5. asCall' = [asCall EXCEPT ![c] = e]
    BY <2>1, <2>2, <1>t DEF TokenRequests
  <2>p. r = asCall[c]
    OBVIOUS
  <2> HIDE DEF e, r
  <2>6. asCall'[c] = e /\ asCall' \in [TokenCalls -> TokenRequests] /\ \A x \in TokenCalls : x # c => asCall'[x] = asCall[x]
    BY <2>4, <2>5, <1>t
  <2>7. ~Answered(c) /\ \A x \in TokenCalls : Answered(x)' = Answered(x)
    <3>1. r.at # "done"
      BY <2>1 DEF Reading, Writing
    <3>2. ~Answered(c)
      BY <3>1, <2>p DEF Answered
    <3>3. ~Answered(c)'
      BY <2>3, <2>4, <2>6 DEF Answered
    <3> QED BY <3>2, <3>3, <2>6 DEF Answered
  <2>8. /\ asSession' \subseteq TokenCalls /\ asToken' \subseteq TokenCalls /\ asIndexed' \subseteq TokenCalls
        /\ asRevived' \subseteq TokenCalls
        /\ \A s \in TokenCalls : Answered(s) /\ s \notin asToken => s \notin asToken'
        /\ \A s \in TokenCalls : Answered(s) /\ TakenBack(s) =>
             s \notin asToken' /\ (s \in asRevived' \/ s \notin asSession')
        /\ \A s \in TokenCalls : s \in asIndexed => s \in asIndexed' \/ Answered(s)
        /\ \A s \in TokenCalls : Answered(s) /\ s \in asToken' => s \in asIndexed'
    <3>1. CASE UNCHANGED <<asSession, asToken, asIndexed, asRevived>>
      BY <3>1, <1>t, <1>i DEF TakenBack
    <3>2. CASE r.at \in Writing /\ TakesEffect(c)
      BY <3>2, <2>p, CommandEffects
    <3> QED BY <2>1, <3>1, <3>2
  <2>9. RequestSound(c)'
    <3>p. PICK f \in TokenRequests : f = e
      BY <2>4
    <3>1. f.op \in {"failed", "revoke", "delete"} /\ f.at # "idle" /\ f.raised
      BY <2>3, <2>4, <3>p
    <3>2. f.at \notin {"idle", "done"} => f.op \in DOMAIN CommandsIn /\ f.at \in CommandsIn[f.op]
      BY <2>3, <2>4, <3>p DEF CommandsIn
    <3>3. f.at \notin {"remove_from_index", "drop_index"}
      BY <2>3, <2>4, <3>p
    <3>4. f.op \in {"revoke", "delete", "subscribe"} => f.target \in TokenCalls /\ Answered(f.target)'
      <4>1. f.op \in {"revoke", "delete", "subscribe"} => f.target \in TokenCalls /\ Answered(f.target)
        BY <3>1, <3>p, <2>2, <2>4, <2>p DEF RequestSound
      <4> QED BY <4>1, <2>7
    <3>5. asCall'[c] = f
      BY <2>6, <3>p
    <3> QED BY <3>5, <3>1, <3>2, <3>3, <3>4, SoundAfter
  <2>10. asRaises' \in 0..MaxRaises
    <3>1. asRaises \in 0..MaxRaises
      BY <1>t
    <3> QED BY <3>1, <2>1, TokensAssumption
  <2>11. AsTypes'
    BY <2>1, <2>6, <2>8, <2>10, <1>t, <1>y
  <2>12. \A s \in asToken' : Answered(s)' => s \in asIndexed'
    BY <2>7, <2>8
  <2>13. \A s \in asGone' : s \in asGone \/ (Answered(s)' /\ TakenBack(s)')
    BY <2>1
  <2>14. \A s \in TokenCalls : asEntry'[s] # "none" => asEntry[s] # "none" \/ Answered(s)'
    BY <2>1
  <2>15. \A s \in TokenCalls : Answered(s) /\ TakenBack(s) => TakenBack(s)'
    BY <2>8 DEF TakenBack
  <2> HIDE <2>1, <2>2, <2>3
  <2> QED BY <2>6, <2>7, <2>8, <2>9, <2>11, <2>12, <2>13, <2>14, <2>15, <1>o

\* The end of a request is sound whatever it did.
<1>d. ASSUME NEW c \in TokenCalls, asCall[c].at \notin {"idle", "done"}, AsGo(c, "done"),
             asCall[c].op \in {"mint", "create"} => asCall[c].at \in {"list", "answer"}
      PROVE  /\ asCall' \in [TokenCalls -> TokenRequests]
             /\ \A x \in TokenCalls : x # c => asCall'[x] = asCall[x] /\ Answered(x)' = Answered(x)
             /\ ~Answered(c) /\ (Answered(c)' => c \in asIndexed)
             /\ asCall[c].op \in {"mint", "create"} => Answered(c)'
             /\ RequestSound(c)'
  <2>1. /\ asCall' \in [TokenCalls -> TokenRequests]
        /\ asCall'[c].op = asCall[c].op /\ asCall'[c].target = asCall[c].target
        /\ asCall'[c].raised = asCall[c].raised /\ asCall'[c].at = "done"
        /\ \A x \in TokenCalls : x # c => asCall'[x] = asCall[x]
    BY <1>d, <1>g DEF AsGo
  <2>2. ~Answered(c) /\ (Answered(c)' <=> asCall[c].op \in {"mint", "create"})
    BY <1>d, <2>1 DEF Answered
  <2>3. \A x \in TokenCalls : x # c => Answered(x)' = Answered(x)
    BY <2>1 DEF Answered
  <2>4. RequestSound(c)
    BY <1>i
  <2>6. RequestSound(c)'
    <3>p. PICK e \in TokenRequests : asCall'[c] = e
      BY <2>1
    <3>q. e.op = asCall[c].op /\ e.target = asCall[c].target /\ e.raised = asCall[c].raised /\ e.at = "done"
      BY <2>1, <3>p
    <3>1. e.op \in {"mint", "create"} => e.target = c
      BY <2>4, <3>q DEF RequestSound
    <3>2. e.op \in {"revoke", "delete", "subscribe"} => e.target \in TokenCalls /\ Answered(e.target)'
      <4>1. e.op \in {"revoke", "delete", "subscribe"} => e.target \in TokenCalls /\ Answered(e.target)
        BY <2>4, <3>q DEF RequestSound
      <4> QED BY <4>1, <2>2, <2>3
    <3>3. e.op # "none"
      BY <2>4, <3>q, <1>d DEF RequestSound
    <3>4. ~PastToken(e.op, e.at) /\ ~PastAll(e.op, e.at)
      BY <3>q DEF PastToken, PastAll
    <3> QED BY <3>p, <3>q, <3>1, <3>2, <3>3, <3>4, SoundAfter
  <2>7. Answered(c)' => c \in asIndexed
    BY <2>2, <2>4, <1>d DEF RequestSound
  <2> QED BY <2>1, <2>2, <2>3, <2>6, <2>7
<1>5. ASSUME NEW c \in TokenCalls, Lists(c) PROVE AsInv'
  <2>1. /\ asCall[c].at = "list" /\ asEntry' = [asEntry EXCEPT ![c] = "active"] /\ AsGo(c, "done")
        /\ UNCHANGED <<asSession, asToken, asIndexed, asRaises, asGone, asRevived>>
    BY <1>5 DEF Lists, asKept
  <2>2. asCall[c].op = "mint"
    <3>1. asCall[c].op \in DOMAIN CommandsIn /\ "list" \in CommandsIn[asCall[c].op]
      BY <2>1, <1>i DEF RequestSound
    <3> QED BY <3>1 DEF CommandsIn
  <2>3. /\ asCall' \in [TokenCalls -> TokenRequests]
        /\ \A x \in TokenCalls : x # c => asCall'[x] = asCall[x]
        /\ ~Answered(c) /\ (Answered(c)' => c \in asIndexed) /\ Answered(c)' /\ RequestSound(c)'
    BY <2>1, <2>2, <1>d
  <2>4. /\ asEntry' \in [TokenCalls -> {"none", "active", "revoked"}]
        /\ \A s \in TokenCalls : asEntry'[s] # "none" => asEntry[s] # "none" \/ Answered(s)'
    BY <2>1, <2>3, <1>t
  <2>5. AsTypes'
    BY <2>1, <2>3, <2>4, <1>t, <1>y
  <2> QED BY <2>1, <2>3, <2>4, <2>5, <1>p
<1>6. ASSUME NEW c \in TokenCalls, Unlists(c) PROVE AsInv'
  <2>p. PICK t : t = asCall[c].target
    OBVIOUS
  <2>1. /\ asCall[c].at = "unlist" /\ AsGo(c, "done")
        /\ asEntry' = [asEntry EXCEPT ![t] = IF asEntry[t] = "none" THEN asEntry[t] ELSE "revoked"]
        /\ asGone' = (IF asCall[c].raised THEN asGone ELSE asGone \cup {t})
        /\ UNCHANGED <<asSession, asToken, asIndexed, asRaises, asRevived>>
    BY <1>6, <2>p DEF Unlists, TookBack, asKept
  <2>2. asCall[c].op = "revoke"
    <3>1. asCall[c].op \in DOMAIN CommandsIn /\ "unlist" \in CommandsIn[asCall[c].op]
      BY <2>1, <1>i DEF RequestSound
    <3> QED BY <3>1 DEF CommandsIn
  <2>3. t \in TokenCalls /\ Answered(t) /\ (~asCall[c].raised => TakenBack(t))
    BY <2>1, <2>2, <2>p, <1>i DEF RequestSound, PastAll
  <2>4. /\ asCall' \in [TokenCalls -> TokenRequests]
        /\ \A x \in TokenCalls : x # c => asCall'[x] = asCall[x] /\ Answered(x)' = Answered(x)
        /\ ~Answered(c) /\ (Answered(c)' => c \in asIndexed) /\ RequestSound(c)'
    BY <2>1, <2>2, <1>d
  <2>5. Answered(t)'
    BY <2>3, <2>4
  <2>6. /\ asEntry' \in [TokenCalls -> {"none", "active", "revoked"}] /\ asGone' \subseteq TokenCalls
        /\ \A s \in TokenCalls : asEntry'[s] # "none" => asEntry[s] # "none"
    BY <2>1, <2>3, <1>t
  <2>7. \A s \in asGone' : s \in asGone \/ (Answered(s)' /\ TakenBack(s))
    BY <2>1, <2>3, <2>5
  <2>8. AsTypes'
    BY <2>1, <2>4, <2>6, <1>t, <1>y
  <2> QED BY <2>1, <2>4, <2>6, <2>7, <2>8, <1>p
<1>7. ASSUME NEW c \in TokenCalls, Answers(c) PROVE AsInv'
  <2>p. PICK t : t = asCall[c].target
    OBVIOUS
  <2>1. /\ asCall[c].at = "answer" /\ AsGo(c, "done")
        /\ asGone' = (IF asCall[c].op = "delete" /\ ~asCall[c].raised THEN asGone \cup {t} ELSE asGone)
        /\ UNCHANGED <<asSession, asToken, asIndexed, asEntry, asRaises, asRevived>>
    BY <1>7, <2>p DEF Answers, TookBack, asKept
  <2>2. asCall[c].op = "delete" => t \in TokenCalls /\ Answered(t) /\ (~asCall[c].raised => TakenBack(t))
    BY <2>1, <2>p, <1>i DEF RequestSound, PastAll
  <2>3. /\ asCall' \in [TokenCalls -> TokenRequests]
        /\ \A x \in TokenCalls : x # c => asCall'[x] = asCall[x] /\ Answered(x)' = Answered(x)
        /\ ~Answered(c) /\ (Answered(c)' => c \in asIndexed) /\ RequestSound(c)'
    BY <2>1, <1>d
  <2>4. asCall[c].op = "delete" => Answered(t)'
    BY <2>2, <2>3
  <2>5. asGone' \subseteq TokenCalls /\ \A s \in asGone' : s \in asGone \/ (Answered(s)' /\ TakenBack(s))
    BY <2>1, <2>2, <2>4, <1>t
  <2>6. AsTypes'
    BY <2>1, <2>3, <2>5, <1>t, <1>y
  <2>7. \A s \in TokenCalls : asEntry'[s] # "none" => asEntry[s] # "none"
    BY <2>1
  <2> QED BY <2>1, <2>3, <2>5, <2>6, <2>7, <1>p
<1>8. ASSUME NEW s \in TokenCalls, LifeEnds(s) PROVE AsInv'
  <2>1. /\ UNCHANGED <<asEntry, asCall, asRaises, asGone, asRevived>>
        /\ asSession' \subseteq asSession /\ asToken' \subseteq asToken /\ asIndexed' \subseteq asIndexed
        /\ \A x \in asIndexed : x \in asIndexed' \/ (Answered(x) /\ x \notin asToken)
    BY <1>8 DEF LifeEnds
  <2>2. \A x \in TokenCalls : Answered(x)' = Answered(x) /\ (TakenBack(x) => TakenBack(x)')
    BY <2>1 DEF Answered, TakenBack
  <2>3. \A x \in asToken' : Answered(x)' => x \in asIndexed'
    BY <2>1, <2>2, <1>i, <1>t
  <2>4. AsTypes'
    BY <2>1, <1>t, <1>y
  <2>5. RequestSound(s)'
    <3>1. asCall'[s] = asCall[s] /\ (s \in asIndexed => s \in asIndexed' \/ Answered(s))
          /\ \A x \in TokenCalls : x \notin asToken => x \notin asToken'
      BY <2>1
    <3> QED BY <3>1, <2>2, OthersSound
  <2>6. /\ \A x \in TokenCalls : x # s => asCall'[x] = asCall[x]
        /\ \A x \in TokenCalls : Answered(x) /\ x \notin asToken => x \notin asToken'
        /\ \A x \in TokenCalls : x \in asIndexed => x \in asIndexed' \/ Answered(x)
        /\ \A x \in TokenCalls : asEntry'[x] # "none" => asEntry[x] # "none"
        /\ \A x \in asGone' : x \in asGone
    BY <2>1
  <2> QED BY <2>2, <2>3, <2>4, <2>5, <2>6, <1>o
<1>9. ASSUME HandlerRestarts PROVE AsInv'
  <2>1. /\ asEntry' = [s \in TokenCalls |-> "none"]
        /\ \A c \in TokenCalls : asCall'[c] = IF asCall[c].at \in {"idle", "done"} THEN asCall[c]
                                              ELSE [[asCall[c] EXCEPT !.at = "done"] EXCEPT !.op = "failed"]
        /\ DOMAIN asCall' = TokenCalls /\ asCall' = [c \in TokenCalls |-> asCall'[c]]
        /\ UNCHANGED <<asSession, asToken, asIndexed, asRaises, asGone, asRevived>>
    BY <1>9 DEF HandlerRestarts, asKept
  <2>2. \A c \in TokenCalls : /\ asCall'[c] \in TokenRequests
                              /\ \/ asCall'[c] = asCall[c]
                                 \/ asCall[c].at # "done" /\ asCall'[c].at = "done" /\ asCall'[c].op = "failed"
    <3> SUFFICES ASSUME NEW c \in TokenCalls
                 PROVE  /\ asCall'[c] \in TokenRequests
                        /\ \/ asCall'[c] = asCall[c]
                           \/ asCall[c].at # "done" /\ asCall'[c].at = "done" /\ asCall'[c].op = "failed"
      OBVIOUS
    <3>1. asCall[c] \in TokenRequests
      BY <1>t
    <3> DEFINE e == [[asCall[c] EXCEPT !.at = "done"] EXCEPT !.op = "failed"]
    <3>2. e \in TokenRequests /\ e.at = "done" /\ e.op = "failed"
      <4>1. \A r \in TokenRequests : [[r EXCEPT !.at = "done"] EXCEPT !.op = "failed"] \in TokenRequests
        BY DEF TokenRequests
      <4>2. \A r \in TokenRequests : [[r EXCEPT !.at = "done"] EXCEPT !.op = "failed"].at = "done"
                                   /\ [[r EXCEPT !.at = "done"] EXCEPT !.op = "failed"].op = "failed"
        BY DEF TokenRequests
      <4> QED BY <4>1, <4>2, <3>1
    <3>3. asCall'[c] = IF asCall[c].at \in {"idle", "done"} THEN asCall[c] ELSE e
      BY <2>1
    <3> HIDE DEF e
    <3> QED BY <3>1, <3>2, <3>3
  <2>3. asCall' \in [TokenCalls -> TokenRequests]
    BY <2>1, <2>2
  <2>4. \A s \in TokenCalls : Answered(s)' = Answered(s) /\ TakenBack(s)' = TakenBack(s)
    BY ZenonT(60), <2>1, <2>2 DEF Answered, TakenBack
  <2>5. \A x \in TokenCalls : RequestSound(x)'
    <3> SUFFICES ASSUME NEW x \in TokenCalls PROVE RequestSound(x)'
      OBVIOUS
    <3>1. CASE asCall'[x] = asCall[x]
      BY <3>1, <2>1, <2>4, OthersSound
    <3>2. CASE asCall'[x].at = "done" /\ asCall'[x].op = "failed"
      BY <3>2 DEF RequestSound, PastToken, PastAll
    <3> QED BY <2>2, <3>1, <3>2
  <2>6. AsTypes'
    BY <2>1, <2>3, <1>t, <1>y
  <2>7. LiveTokensAreIndexed'
    BY <2>1, <2>4, <1>i, <1>t DEF LiveTokensAreIndexed
  <2>8. \A s \in asGone' : Answered(s)' /\ TakenBack(s)'
    BY <2>1, <2>4, <1>i, <1>t
  <2> QED BY <2>1, <2>5, <2>6, <2>7, <2>8 DEF AsInv
<1>10. CASE UNCHANGED asVars
  BY <1>10 DEF asVars, asKept, AsInv, AsTypes, AsTypeOK, RequestSound, Answered, TakenBack, LiveTokensAreIndexed
<1> QED BY <1>1, <1>2, <1>3, <1>4, <1>5, <1>6, <1>7, <1>8, <1>9, <1>10 DEF AsNext

LEMMA SessionsKeep == AsInv => AdminSessionsSafe
BY DEF AsInv, AdminSessionsSafe, TakenBackStaysBack, TakenBack

-----------------------------------------------------------------------------
(* Demo sessions (common/session.py, staging/demo.py).                     *)

DemoRecords == [status : {"none", "ACTIVE", "dropped", "active", "expired", "closed"},
                store : DemoCalls \cup {Unstored, "redis"}, made : Nat, expires : Nat, until : Nat]
DemoRequests ==
  [op : {"none", "create", "get", "close"},
   at : {"idle", "asked", "install", "create", "append", "made", "limited", "found", "missing", "life", "set",
         "end", "close", "closed", "ended", "stopped"},
   target : DemoCalls \cup {Unstored}, read : DemoRecords, store : DemoCalls \cup {Unstored}]
DsTypes ==
  /\ DsTypeOK
  /\ dsStores \subseteq DemoCalls /\ dsRaced \in BOOLEAN /\ dsUnlived \in BOOLEAN
  /\ dsSessions \in [DemoCalls -> DemoRecords]
  /\ dsRate \in [count : Nat, until : Nat]
  /\ dsCalls \in [DemoCalls -> DemoRequests]

\* The store that is installed is one of those that were made, and the only one unless two were.
StoresMade ==
  /\ dsStore \in dsStores \cup {Unstored} /\ (dsStore = Unstored => dsStores = {})
  /\ ~dsRaced => dsStores \subseteq {dsStore}
  /\ dsKind # "memory" => dsStores = {}

\* A request made its session if it was let, and is about one that was made.
DemoRequestSound(c) ==
  /\ dsCalls[c].at = "asked" => dsCalls[c].op # "none"
  /\ dsCalls[c].at \in {"create", "append"} => dsCalls[c].store \in dsStores
  /\ dsCalls[c].op \in {"get", "close"} =>
       dsCalls[c].target \in DemoCalls /\ dsCalls[dsCalls[c].target].at = "made"
  /\ dsCalls[c].at \in {"install", "create", "append", "made", "life", "set"} => dsCalls[c].op = "create"
  /\ dsCalls[c].at \in {"install", "create", "append"} => dsKind = "memory"
  /\ dsCalls[c].at \in {"life", "set"} => dsKind = "redis"
  /\ dsCalls[c].at \in {"end", "close", "closed"} => dsCalls[c].op \in {"get", "close"} /\ dsKind = "redis"
  /\ dsCalls[c].at = "end" => dsCalls[c].read.status # "active" \/ dsCalls[c].read.expires <= dsNow

\* A session is in the store that its request found or made until it has expired.
DemoKept(s) ==
  IF dsCalls[s].at = "made"
  THEN dsKind = "memory" =>
         /\ dsSessions[s].store \in dsStores
         /\ dsSessions[s].status = "ACTIVE" \/ dsSessions[s].expires < dsNow
         /\ dsSessions[s].expires = dsSessions[s].made + SessionLife
  ELSE dsSessions[s] = NoSession

LiveIn(store) ==
  {s \in DemoCalls : dsSessions[s].store = store /\ dsSessions[s].status = "ACTIVE" /\ dsSessions[s].expires > dsNow}

\* Whoever was let in leaves room for itself.
RoomForOne ==
  ~dsRaced => /\ \A c, d \in DemoCalls : dsCalls[c].at = "append" /\ dsCalls[d].at = "append" => c = d
              /\ \A c \in DemoCalls : dsCalls[c].at = "append" => Cardinality(LiveIn(dsCalls[c].store)) < DemoLimit

DsInv ==
  /\ DsTypes /\ StoresMade /\ RoomForOne
  /\ \A c \in DemoCalls : DemoRequestSound(c) /\ DemoKept(c)
  /\ DemoSessionsSafe

LEMMA DemoBegins == DsInit => DsInv
<1> SUFFICES ASSUME DsInit PROVE DsInv
  OBVIOUS
<1>1. NoSession \in DemoRecords /\ NoSession.status = "none"
  BY DEF NoSession, DemoRecords, Unstored
<1>2. Quit \in DemoRequests /\ Quit.at = "idle" /\ Quit.op = "none"
  BY <1>1 DEF Quit, DemoRequests
<1>3. \A c \in DemoCalls : dsCalls[c] = Quit /\ dsSessions[c] = NoSession
  BY DEF DsInit
<1>4. DsTypes
  <2>1. dsNow \in 1..DemoEnd
    BY DemoAssumption DEF DsInit
  <2>2. dsRate \in [count : Nat, until : Nat]
    BY DEF DsInit
  <2>3. dsSessions \in [DemoCalls -> DemoRecords] /\ dsCalls \in [DemoCalls -> DemoRequests]
    BY <1>1, <1>2 DEF DsInit
  <2> QED BY <2>1, <2>2, <2>3 DEF DsInit, DsTypes, DsTypeOK
<1>5. \A c \in DemoCalls : DemoRequestSound(c) /\ DemoKept(c)
  BY <1>2, <1>3 DEF DemoRequestSound, DemoKept
<1>6. StoresMade /\ RoomForOne
  BY <1>2, <1>3 DEF StoresMade, RoomForOne, DsInit
<1>7. DemoSessionsSafe
  <2>1. dsRate.until = 0 /\ dsStores = {}
    BY DEF DsInit
  <2>2. DemoLimited
    <3>1. ~(0 > DemoEnd + Hour)
      BY DemoAssumption DEF Hour
    <3> QED BY <2>1, <3>1 DEF DemoLimited
  <2> QED BY <2>2, <1>2, <1>3 DEF DemoSessionsSafe, DemoFound, DemoEndsForGood
<1> QED BY <1>4, <1>5, <1>6, <1>7 DEF DsInv

\* A request is sound once what it is about and has done is.
LEMMA DemoSoundAfter ==
  ASSUME NEW c \in DemoCalls, NEW e \in DemoRequests, dsCalls'[c] = e,
         e.at = "asked" => e.op # "none",
         e.at \in {"create", "append"} => e.store \in dsStores',
         e.op \in {"get", "close"} => e.target \in DemoCalls /\ dsCalls'[e.target].at = "made",
         e.at \in {"install", "create", "append", "made", "life", "set"} => e.op = "create",
         e.at \in {"install", "create", "append"} => dsKind' = "memory",
         e.at \in {"life", "set"} => dsKind' = "redis",
         e.at \in {"end", "close", "closed"} => e.op \in {"get", "close"} /\ dsKind' = "redis",
         e.at = "end" => e.read.status # "active" \/ e.read.expires <= dsNow'
  PROVE  DemoRequestSound(c)'
BY DEF DemoRequestSound

\* Whoever does nothing stays sound.
LEMMA DemoOthersSound ==
  ASSUME DsInv, NEW x \in DemoCalls, dsCalls'[x] = dsCalls[x], dsCalls'[x] \in DemoRequests,
         \A s \in DemoCalls : dsCalls[s].at = "made" => dsCalls'[s].at = "made",
         dsStores \subseteq dsStores', dsKind' = dsKind, dsNow' \in {dsNow, dsNow + 1}
  PROVE  DemoRequestSound(x)'
<1>1. PICK e \in DemoRequests : e = dsCalls[x]
  OBVIOUS
<1>2. DemoRequestSound(x)
  BY DEF DsInv
<1>3. e.read.expires \in Int /\ dsNow \in Int
  BY DEF DemoRequests, DemoRecords, DsInv, DsTypes, DsTypeOK
<1>4. e.at = "end" => e.read.status # "active" \/ e.read.expires <= dsNow'
  <2>1. e.at = "end" => e.read.status # "active" \/ e.read.expires <= dsNow
    BY <1>1, <1>2 DEF DemoRequestSound
  <2> QED BY <2>1, <1>3
<1>5. e.op \in {"get", "close"} => e.target \in DemoCalls /\ dsCalls'[e.target].at = "made"
  <2>1. e.op \in {"get", "close"} => e.target \in DemoCalls /\ dsCalls[e.target].at = "made"
    BY <1>1, <1>2 DEF DemoRequestSound
  <2> QED BY <2>1
<1>6. dsCalls'[x] = e
  BY <1>1
<1>7. /\ e.at = "asked" => e.op # "none"
      /\ e.at \in {"create", "append"} => e.store \in dsStores'
      /\ e.at \in {"install", "create", "append", "made", "life", "set"} => e.op = "create"
      /\ e.at \in {"install", "create", "append"} => dsKind' = "memory"
      /\ e.at \in {"life", "set"} => dsKind' = "redis"
      /\ e.at \in {"end", "close", "closed"} => e.op \in {"get", "close"} /\ dsKind' = "redis"
  BY <1>1, <1>2 DEF DemoRequestSound
<1> QED BY <1>4, <1>5, <1>6, <1>7, DemoSoundAfter

\* The types, from those of what changes.
LEMMA DemoTypes ==
  ASSUME DsInv, dsKind' = dsKind, dsNow' \in 1..DemoEnd, dsStore' \in DemoCalls \cup {Unstored},
         dsStores' \subseteq DemoCalls, dsRaced' \in BOOLEAN, dsUnlived' \in BOOLEAN,
         dsSessions' \in [DemoCalls -> DemoRecords], dsRate' \in [count : Nat, until : Nat],
         dsCalls' \in [DemoCalls -> DemoRequests]
  PROVE  DsTypes'
BY DEF DsInv, DsTypes, DsTypeOK

LEMMA LiveFewer ==
  ASSUME NEW S, NEW T, S \subseteq T, T \subseteq DemoCalls
  PROVE  IsFiniteSet(S) /\ Cardinality(S) \in Nat /\ Cardinality(T) \in Nat /\ Cardinality(S) <= Cardinality(T)
<1>1. IsFiniteSet(T)
  BY FS_Subset, DemoAssumption
<1>2. S \in SUBSET T
  OBVIOUS
<1> QED BY <1>1, <1>2, FS_Subset, FS_CardinalityType

\* A request goes on, and no session is touched.
LEMMA DemoGoesOn ==
  ASSUME DsInv, DsTypes', NEW c \in DemoCalls, NEW e \in DemoRequests,
         dsCalls[c].at # "made", dsCalls' = [dsCalls EXCEPT ![c] = e], e.at \notin {"made", "append", "closed"},
         UNCHANGED <<dsKind, dsNow, dsSessions>>, dsStores \subseteq dsStores', dsRaced => dsRaced',
         StoresMade', DemoRequestSound(c)',
         dsKind = "memory" /\ e.at = "missing" /\ e.op = "get" /\ ~dsRaced' => dsSessions[e.target].expires < dsNow,
         dsRate'.until > DemoEnd + Hour => dsUnlived' \/ \E x \in DemoCalls : dsCalls'[x].at = "life"
  PROVE  DsInv'
<1>t. dsCalls \in [DemoCalls -> DemoRequests]
  BY DEF DsInv, DsTypes
<1>1. dsCalls'[c] = e /\ \A x \in DemoCalls : x # c => dsCalls'[x] = dsCalls[x]
  BY <1>t
<1>2. \A x \in DemoCalls : dsCalls[x].at = "made" <=> dsCalls'[x].at = "made"
  BY <1>1
<1>3. \A x \in DemoCalls : DemoRequestSound(x)'
  <2> SUFFICES ASSUME NEW x \in DemoCalls, x # c PROVE DemoRequestSound(x)'
    OBVIOUS
  <2>1. dsCalls'[x] = dsCalls[x] /\ dsCalls'[x] \in DemoRequests
    BY <1>1, <1>t
  <2> QED BY <2>1, <1>2, DemoOthersSound
<1>4. \A x \in DemoCalls : DemoKept(x)'
  <2> SUFFICES ASSUME NEW x \in DemoCalls PROVE DemoKept(x)'
    OBVIOUS
  <2>1. DemoKept(x)
    BY DEF DsInv
  <2> QED BY <2>1, <1>2 DEF DemoKept
<1>5. \A store : LiveIn(store)' = LiveIn(store)
  BY DEF LiveIn
<1>6. RoomForOne'
  <2>1. \A x \in DemoCalls : dsCalls'[x].at = "append" => x # c /\ dsCalls[x].at = "append" /\ dsCalls'[x] = dsCalls[x]
    BY <1>1
  <2>2. ~dsRaced' => RoomForOne /\ ~dsRaced
    BY DEF DsInv
  <2>3. ~dsRaced' => \A x \in DemoCalls : dsCalls'[x].at = "append" => Cardinality(LiveIn(dsCalls[x].store)) < DemoLimit
    BY <2>1, <2>2 DEF RoomForOne
  <2>5. ~dsRaced' => \A x, y \in DemoCalls : dsCalls'[x].at = "append" /\ dsCalls'[y].at = "append" => x = y
    BY <2>1, <2>2 DEF RoomForOne
  <2>6. ASSUME ~dsRaced', NEW x \in DemoCalls, dsCalls'[x].at = "append"
        PROVE  (Cardinality(LiveIn(dsCalls[x].store)))' < DemoLimit
    <3>1. PICK store : store = dsCalls[x].store
      OBVIOUS
    <3>2. dsCalls'[x].store = store /\ Cardinality(LiveIn(store)) < DemoLimit
      BY <2>1, <2>3, <2>6, <3>1
    <3> QED BY <3>2 DEF LiveIn
  <2> QED BY <2>5, <2>6 DEF RoomForOne
<1>7. DemoLimited'
  <2>1. ~dsRaced' => \A store \in dsStores' : Cardinality(LiveIn(store)) <= DemoLimit
    <3> SUFFICES ASSUME ~dsRaced', NEW store \in dsStores' PROVE Cardinality(LiveIn(store)) <= DemoLimit
      OBVIOUS
    <3>1. CASE store \in dsStores
      BY <3>1 DEF DsInv, DemoSessionsSafe, DemoLimited, LiveIn
    <3>2. CASE store \notin dsStores
      <4>1. \A x \in DemoCalls : x \notin LiveIn(store)
        <5> SUFFICES ASSUME NEW x \in DemoCalls, x \in LiveIn(store) PROVE FALSE
          OBVIOUS
        <5>1. dsSessions[x].store = store /\ dsSessions[x].status = "ACTIVE" /\ DemoKept(x)
          BY DEF LiveIn, DsInv
        <5>2. store \in DemoCalls /\ store # Unstored /\ dsKind = "memory"
          BY DemoAssumption, <3>2 DEF DsTypes, Unstored, StoresMade
        <5> QED BY <5>1, <5>2, <3>2 DEF DemoKept, NoSession
      <4>2. LiveIn(store) = {}
        BY <4>1 DEF LiveIn
      <4> QED BY <4>2, FS_EmptySet, DemoAssumption
    <3> QED BY <3>1, <3>2
  <2> QED BY <2>1 DEF DemoLimited, LiveIn
<1>8. DemoFound' /\ DemoEndsForGood'
  <2>1. \A x \in DemoCalls : x # c => dsCalls'[x] = dsCalls[x]
    BY <1>1
  <2>2. DemoFound /\ DemoEndsForGood
    BY DEF DsInv, DemoSessionsSafe
  <2>3. DemoFound'
    <3> SUFFICES ASSUME NEW x \in DemoCalls, dsKind = "memory", dsCalls'[x].at = "missing", dsCalls'[x].op = "get", ~dsRaced'
                 PROVE  dsSessions[dsCalls'[x].target].expires < dsNow
      BY DEF DemoFound
    <3>1. CASE x = c
      BY <3>1, <1>1
    <3>2. CASE x # c
      BY <3>2, <2>1, <2>2 DEF DemoFound
    <3> QED BY <3>1, <3>2
  <2>4. DemoEndsForGood'
    <3> SUFFICES ASSUME NEW x \in DemoCalls, dsKind = "redis", dsCalls'[x].at = "closed"
                 PROVE  dsSessions[dsCalls'[x].target].status # "active"
      BY DEF DemoEndsForGood
    <3>1. dsCalls'[x] = dsCalls[x]
      BY <1>1
    <3> QED BY <3>1, <2>2 DEF DemoEndsForGood
  <2> QED BY <2>3, <2>4
<1> QED BY <1>3, <1>4, <1>6, <1>7, <1>8 DEF DsInv, DemoSessionsSafe

DemoAts == {"idle", "asked", "install", "create", "append", "made", "limited", "found", "missing", "life", "set",
            "end", "close", "closed", "ended", "stopped"}

\* A request that only moves on keeps what it asked, found and read.
LEMMA DemoMoves ==
  ASSUME DsInv, NEW c \in DemoCalls, NEW a, a \in DemoAts, DsGo(c, a)
  PROVE  \E e \in DemoRequests :
           /\ dsCalls' = [dsCalls EXCEPT ![c] = e] /\ e.at = a /\ e.op = dsCalls[c].op /\ e.target = dsCalls[c].target
           /\ e.read = dsCalls[c].read /\ e.store = dsCalls[c].store
<1> DEFINE r == dsCalls[c]
           e == [r EXCEPT !.at = a]
<1>1. r \in DemoRequests
  BY DEF DsInv, DsTypes
<1>2. /\ e \in DemoRequests /\ e.at = a /\ e.op = r.op /\ e.target = r.target
      /\ e.read = r.read /\ e.store = r.store
  <2> HIDE DEF r
  <2> QED BY <1>1 DEF DemoRequests, DemoAts
<1>3. dsCalls' = [dsCalls EXCEPT ![c] = e]
  BY DEF DsGo
<1> HIDE DEF e
<1> QED BY <1>2, <1>3

\* The steps that touch no session.
LEMMA DemoAsks ==
  ASSUME DsInv, NEW c \in DemoCalls, DsAsk(c) \/ FindStore(c) \/ InstallStore(c) \/ GetDemo(c)
  PROVE  DsInv'
<1>t. /\ dsCalls \in [DemoCalls -> DemoRequests] /\ dsSessions \in [DemoCalls -> DemoRecords]
      /\ dsStores \subseteq DemoCalls /\ dsStore \in DemoCalls \cup {Unstored} /\ dsNow \in 1..DemoEnd
      /\ dsRaced \in BOOLEAN /\ dsUnlived \in BOOLEAN /\ dsRate \in [count : Nat, until : Nat]
  BY DEF DsInv, DsTypes, DsTypeOK
<1>i. /\ StoresMade /\ DemoRequestSound(c) /\ \A x \in DemoCalls : DemoKept(x)
      /\ dsRate.until > DemoEnd + Hour => dsUnlived \/ \E x \in DemoCalls : dsCalls[x].at = "life"
  BY DEF DsInv, DemoSessionsSafe, DemoLimited
<1>l. ASSUME NEW e, dsCalls' = [dsCalls EXCEPT ![c] = e], dsCalls[c].at # "life", UNCHANGED <<dsRate, dsUnlived>>
      PROVE  dsRate'.until > DemoEnd + Hour => dsUnlived' \/ \E x \in DemoCalls : dsCalls'[x].at = "life"
  <2>1. \A x \in DemoCalls : dsCalls[x].at = "life" => dsCalls'[x].at = "life"
    BY <1>l, <1>t
  <2> QED BY <1>i, <1>l, <2>1
<1>1. CASE DsAsk(c)
  <2>1. PICK op \in {"create", "get", "close"}, s \in DemoCalls :
          /\ dsCalls[c].at = "idle" /\ (op # "create" => dsCalls[s].at = "made")
          /\ dsCalls' = [dsCalls EXCEPT ![c] = [Quit EXCEPT !.op = op, !.at = "asked", !.target = s]]
          /\ UNCHANGED <<dsKind, dsNow, dsStores, dsStore, dsSessions, dsRate, dsRaced, dsUnlived>>
    BY <1>1 DEF DsAsk
  <2>2. PICK e \in DemoRequests : e = [Quit EXCEPT !.op = op, !.at = "asked", !.target = s]
    BY DEF Quit, DemoRequests, DemoRecords, NoSession, Unstored
  <2>3. e.op = op /\ e.at = "asked" /\ e.target = s
    BY <2>2 DEF Quit
  <2>4. dsCalls' = [dsCalls EXCEPT ![c] = e]
    BY <2>1, <2>2
  <2>5. dsCalls'[c] = e /\ dsCalls' \in [DemoCalls -> DemoRequests] /\ \A x \in DemoCalls : x # c => dsCalls'[x] = dsCalls[x]
    BY <2>4, <1>t
  <2>6. DsTypes'
    BY <2>1, <2>5, <1>t, DemoTypes
  <2>7. e.op \in {"get", "close"} => e.target \in DemoCalls /\ dsCalls'[e.target].at = "made"
    <3>1. op # "create" => s # c
      BY <2>1
    <3> QED BY <3>1, <2>1, <2>3, <2>5
  <2>8. DemoRequestSound(c)'
    BY <2>3, <2>5, <2>7, DemoSoundAfter
  <2>9. StoresMade'
    BY <2>1, <1>i DEF StoresMade
  <2>10. dsRate'.until > DemoEnd + Hour => dsUnlived' \/ \E x \in DemoCalls : dsCalls'[x].at = "life"
    BY <2>1, <2>4, <1>l
  <2> QED BY <2>1, <2>3, <2>4, <2>6, <2>8, <2>9, <2>10, DemoGoesOn
<1>2. CASE FindStore(c)
  <2> DEFINE at == IF dsStore = Unstored THEN "install" ELSE "create"
             f == [[dsCalls[c] EXCEPT !.at = at] EXCEPT !.store = dsStore]
  <2>1. /\ dsKind = "memory" /\ dsCalls[c].at = "asked" /\ dsCalls[c].op = "create"
        /\ dsCalls' = [dsCalls EXCEPT ![c] = f]
        /\ UNCHANGED <<dsKind, dsNow, dsStores, dsStore, dsSessions, dsRate, dsRaced, dsUnlived>>
    BY <1>2, <1>t DEF FindStore, DemoRequests
  <2>2. f \in DemoRequests /\ f.at = at /\ f.store = dsStore /\ f.op = "create"
    <3>1. dsCalls[c] \in DemoRequests /\ at \in {"install", "create"} /\ dsStore \in DemoCalls \cup {Unstored}
      BY <1>t
    <3> HIDE DEF at
    <3> QED BY <3>1, <2>1 DEF DemoRequests
  <2>3. PICK e \in DemoRequests : e = f
    BY <2>2
  <2> HIDE DEF f
  <2>4. dsCalls' = [dsCalls EXCEPT ![c] = e]
    BY <2>1, <2>3
  <2>5. dsCalls'[c] = e /\ dsCalls' \in [DemoCalls -> DemoRequests]
    BY <2>4, <1>t
  <2>6. DsTypes'
    BY <2>1, <2>5, <1>t, DemoTypes
  <2>7. e.op = "create" /\ e.at \in {"install", "create"} /\ (e.at = "create" => e.store \in dsStores')
    BY <2>1, <2>2, <2>3, <1>i DEF StoresMade
  <2>8. DemoRequestSound(c)'
    BY <2>1, <2>5, <2>7, DemoSoundAfter
  <2>9. StoresMade'
    BY <2>1, <1>i DEF StoresMade
  <2>10. dsRate'.until > DemoEnd + Hour => dsUnlived' \/ \E x \in DemoCalls : dsCalls'[x].at = "life"
    BY <2>1, <2>4, <1>l
  <2> QED BY <2>1, <2>4, <2>6, <2>7, <2>8, <2>9, <2>10, DemoGoesOn
<1>3. CASE InstallStore(c)
  <2> DEFINE f == [[dsCalls[c] EXCEPT !.at = "create"] EXCEPT !.store = c]
  <2>1. /\ dsCalls[c].at = "install" /\ dsStores' = dsStores \cup {c} /\ dsStore' = c
        /\ dsRaced' = (dsRaced \/ dsStore # Unstored)
        /\ dsCalls' = [dsCalls EXCEPT ![c] = f]
        /\ UNCHANGED <<dsKind, dsNow, dsSessions, dsRate, dsUnlived>>
    BY <1>3, <1>t DEF InstallStore, DemoRequests
  <2>2. f \in DemoRequests /\ f.at = "create" /\ f.store = c /\ f.op = "create"
    <3>1. dsCalls[c] \in DemoRequests /\ dsCalls[c].op = "create"
      BY <1>t, <2>1, <1>i DEF DemoRequestSound
    <3> QED BY <3>1 DEF DemoRequests
  <2>3. PICK e \in DemoRequests : e = f
    BY <2>2
  <2> HIDE DEF f
  <2>4. dsCalls' = [dsCalls EXCEPT ![c] = e]
    BY <2>1, <2>3
  <2>5. dsCalls'[c] = e /\ dsCalls' \in [DemoCalls -> DemoRequests]
    BY <2>4, <1>t
  <2>6. DsTypes'
    BY <2>1, <2>5, <1>t, DemoTypes
  <2>7. e.op = "create" /\ e.at = "create" /\ e.store \in dsStores' /\ dsKind' = "memory"
    BY <2>1, <2>2, <2>3, <1>i DEF DemoRequestSound
  <2>8. DemoRequestSound(c)'
    BY <2>5, <2>7, DemoSoundAfter
  <2>9. StoresMade'
    <3>1. c # Unstored
      BY DemoAssumption DEF Unstored
    <3>2. ~dsRaced' => dsStores = {}
      BY <2>1, <1>i DEF StoresMade
    <3>3. dsStore' \in dsStores' /\ dsStore' # Unstored /\ (~dsRaced' => dsStores' \subseteq {dsStore'})
      BY <3>1, <3>2, <2>1
    <3> QED BY <3>3, <2>7 DEF StoresMade
  <2>10. dsRate'.until > DemoEnd + Hour => dsUnlived' \/ \E x \in DemoCalls : dsCalls'[x].at = "life"
    BY <2>1, <2>4, <1>l
  <2> QED BY <2>1, <2>4, <2>6, <2>7, <2>8, <2>9, <2>10, DemoGoesOn
<1>4. CASE GetDemo(c)
  <2> DEFINE t == dsCalls[c].target
             found == dsCalls[c].op = "get" /\ dsStore # Unstored /\ dsSessions[t].store = dsStore
                      /\ dsSessions[t].status = "ACTIVE"
             at == IF found THEN "found" ELSE "missing"
  <2>1. /\ dsKind = "memory" /\ dsCalls[c].at = "asked" /\ dsCalls[c].op # "create" /\ DsGo(c, at)
        /\ UNCHANGED <<dsKind, dsNow, dsStores, dsStore, dsSessions, dsRate, dsRaced, dsUnlived>>
    BY <1>4 DEF GetDemo
  <2>2. ~found /\ dsCalls[c].op = "get" /\ ~dsRaced => dsSessions[t].expires < dsNow
    <3> SUFFICES ASSUME ~found, dsCalls[c].op = "get", ~dsRaced PROVE dsSessions[t].expires < dsNow
      OBVIOUS
    <3>1. t \in DemoCalls /\ dsCalls[t].at = "made"
      BY <1>i DEF DemoRequestSound
    <3>2. /\ dsSessions[t].store \in dsStores
          /\ dsSessions[t].status = "ACTIVE" \/ dsSessions[t].expires < dsNow
      BY <3>1, <2>1, <1>i DEF DemoKept
    <3>3. dsStore # Unstored /\ dsSessions[t].store = dsStore
      BY <3>2, <1>i DEF StoresMade
    <3> QED BY <3>2, <3>3
  <2>3. at \in DemoAts /\ at \in {"found", "missing"}
    BY DEF DemoAts
  <2>p. at = "missing" => ~found
    OBVIOUS
  <2> HIDE DEF at, found
  <2>4. PICK e \in DemoRequests :
          /\ dsCalls' = [dsCalls EXCEPT ![c] = e] /\ e.at = at /\ e.op = dsCalls[c].op /\ e.target = dsCalls[c].target
    BY <2>1, <2>3, DemoMoves
  <2>5. dsCalls'[c] = e /\ dsCalls' \in [DemoCalls -> DemoRequests] /\ \A x \in DemoCalls : x # c => dsCalls'[x] = dsCalls[x]
    BY <2>4, <1>t
  <2>6. DsTypes'
    BY <2>1, <2>5, <1>t, DemoTypes
  <2>7. e.op \in {"get", "close"} => e.target \in DemoCalls /\ dsCalls'[e.target].at = "made"
    <3>1. e.op \in {"get", "close"} => e.target \in DemoCalls /\ dsCalls[e.target].at = "made"
      BY <2>4, <1>i DEF DemoRequestSound
    <3> QED BY <3>1, <2>1, <2>5
  <2>8. DemoRequestSound(c)'
    BY <2>3, <2>4, <2>5, <2>7, DemoSoundAfter
  <2>9. StoresMade'
    BY <2>1, <1>i DEF StoresMade
  <2>10. dsRate'.until > DemoEnd + Hour => dsUnlived' \/ \E x \in DemoCalls : dsCalls'[x].at = "life"
    BY <2>1, <2>4, <1>l
  <2>11. e.at = "missing" /\ e.op = "get" /\ ~dsRaced' => dsSessions[e.target].expires < dsNow
    BY <2>1, <2>2, <2>4, <2>p
  <2> QED BY <2>1, <2>3, <2>4, <2>6, <2>8, <2>9, <2>10, <2>11, DemoGoesOn
<1> QED BY <1>1, <1>2, <1>3, <1>4

LEMMA DemoCommands ==
  ASSUME DsInv, NEW c \in DemoCalls, CountDemo(c) \/ RateLife(c) \/ ReadDemo(c) \/ DsStop(c)
  PROVE  DsInv'
<1>t. /\ dsCalls \in [DemoCalls -> DemoRequests] /\ dsSessions \in [DemoCalls -> DemoRecords]
      /\ dsStores \subseteq DemoCalls /\ dsStore \in DemoCalls \cup {Unstored} /\ dsNow \in 1..DemoEnd
      /\ dsRaced \in BOOLEAN /\ dsUnlived \in BOOLEAN /\ dsRate \in [count : Nat, until : Nat]
  BY DEF DsInv, DsTypes, DsTypeOK
<1>i. /\ StoresMade /\ DemoRequestSound(c) /\ \A x \in DemoCalls : DemoKept(x)
      /\ dsRate.until > DemoEnd + Hour => dsUnlived \/ \E x \in DemoCalls : dsCalls[x].at = "life"
  BY DEF DsInv, DemoSessionsSafe, DemoLimited
\* One that moves on in Redis, having found no store.
<1>m. ASSUME NEW e \in DemoRequests, dsCalls' = [dsCalls EXCEPT ![c] = e], dsCalls[c].at \notin {"made"},
             dsKind = "redis", UNCHANGED <<dsKind, dsNow, dsStores, dsStore, dsSessions, dsRaced>>,
             dsUnlived' \in BOOLEAN, dsRate' \in [count : Nat, until : Nat],
             e.at \in {"life", "limited", "set", "missing", "end", "found", "close", "stopped"},
             e.op = dsCalls[c].op, e.target = dsCalls[c].target,
             e.at \in {"life", "set"} => e.op = "create",
             e.at \in {"end", "close"} => e.op \in {"get", "close"},
             e.at = "end" => e.read.status # "active" \/ e.read.expires <= dsNow,
             dsRate'.until > DemoEnd + Hour => dsUnlived' \/ \E x \in DemoCalls : dsCalls'[x].at = "life"
      PROVE  DsInv'
  <2>1. dsCalls'[c] = e /\ dsCalls' \in [DemoCalls -> DemoRequests] /\ \A x \in DemoCalls : x # c => dsCalls'[x] = dsCalls[x]
    BY <1>m, <1>t
  <2>2. DsTypes'
    BY <2>1, <1>m, <1>t, DemoTypes
  <2>3. e.op \in {"get", "close"} => e.target \in DemoCalls /\ dsCalls'[e.target].at = "made"
    <3>1. e.op \in {"get", "close"} => e.target \in DemoCalls /\ dsCalls[e.target].at = "made"
      BY <1>m, <1>i DEF DemoRequestSound
    <3> QED BY <3>1, <1>m, <2>1
  <2>4. DemoRequestSound(c)'
    BY <2>1, <2>3, <1>m, DemoSoundAfter
  <2>5. StoresMade'
    BY <1>m, <1>i DEF StoresMade
  <2> QED BY <1>m, <2>2, <2>4, <2>5, DemoGoesOn
<1>l. ASSUME NEW e, dsCalls' = [dsCalls EXCEPT ![c] = e], dsCalls[c].at # "life", dsRate'.until = dsRate.until, UNCHANGED dsUnlived
      PROVE  dsRate'.until > DemoEnd + Hour => dsUnlived' \/ \E x \in DemoCalls : dsCalls'[x].at = "life"
  <2>1. \A x \in DemoCalls : dsCalls[x].at = "life" => dsCalls'[x].at = "life"
    BY <1>l, <1>t
  <2> QED BY <1>i, <1>l, <2>1
<1>1. CASE CountDemo(c)
  <2> DEFINE count == IF dsRate.count = 0 THEN 1 ELSE dsRate.count + 1
             at == CASE count = 1 -> "life" [] count > DemoLimit -> "limited" [] OTHER -> "set"
  <2>1. /\ dsKind = "redis" /\ dsCalls[c].at = "asked" /\ dsCalls[c].op = "create" /\ DsGo(c, at)
        /\ dsRate' = [count |-> count, until |-> IF dsRate.count = 0 THEN DemoEnd + Hour + 1 ELSE dsRate.until]
        /\ UNCHANGED <<dsKind, dsNow, dsStores, dsStore, dsSessions, dsRaced, dsUnlived>>
    BY <1>1 DEF CountDemo
  <2>2. at \in {"life", "limited", "set"} /\ (dsRate.count = 0 => at = "life") /\ at \in DemoAts
    <3>1. count \in Nat /\ (dsRate.count = 0 => count = 1)
      BY <1>t
    <3> HIDE DEF count
    <3>2. ~(count = 1 /\ count > DemoLimit)
      BY <3>1, DemoAssumption
    <3> QED BY <3>1, <3>2 DEF DemoAts
  <2>3. dsRate' \in [count : Nat, until : Nat] /\ (dsRate.count # 0 => dsRate'.until = dsRate.until)
    <3>1. count \in Nat /\ DemoEnd + Hour + 1 \in Nat
      BY <1>t, DemoAssumption DEF Hour
    <3> HIDE DEF count
    <3> QED BY <3>1, <2>1, <1>t
  <2> HIDE DEF at, count
  <2>4. PICK e \in DemoRequests :
          /\ dsCalls' = [dsCalls EXCEPT ![c] = e] /\ e.at = at /\ e.op = dsCalls[c].op /\ e.target = dsCalls[c].target
    BY <2>1, <2>2, DemoMoves
  <2>5. dsRate'.until > DemoEnd + Hour => dsUnlived' \/ \E x \in DemoCalls : dsCalls'[x].at = "life"
    <3>1. CASE dsRate.count = 0
      <4>1. dsCalls'[c] = e
        BY <2>4, <1>t
      <4> QED BY <3>1, <4>1, <2>2, <2>4
    <3>2. CASE dsRate.count # 0
      BY <3>2, <2>1, <2>3, <2>4, <1>l
    <3> QED BY <3>1, <3>2
  <2> QED BY <2>1, <2>2, <2>3, <2>4, <2>5, <1>t, <1>m
<1>2. CASE RateLife(c)
  <2>1. /\ dsCalls[c].at = "life" /\ DsGo(c, "set") /\ dsRate' = [dsRate EXCEPT !.until = dsNow + Hour]
        /\ UNCHANGED <<dsKind, dsNow, dsStores, dsStore, dsSessions, dsRaced, dsUnlived>>
    BY <1>2 DEF RateLife
  <2>2. dsCalls[c].op = "create" /\ dsKind = "redis"
    BY <2>1, <1>i DEF DemoRequestSound
  <2>3. PICK e \in DemoRequests :
          /\ dsCalls' = [dsCalls EXCEPT ![c] = e] /\ e.at = "set" /\ e.op = dsCalls[c].op /\ e.target = dsCalls[c].target
    BY <2>1, DemoMoves DEF DemoAts
  <2>4. dsRate' \in [count : Nat, until : Nat] /\ ~(dsRate'.until > DemoEnd + Hour)
    <3>1. dsNow + Hour \in Nat /\ ~(dsNow + Hour > DemoEnd + Hour)
      BY <1>t, DemoAssumption DEF Hour
    <3> QED BY <3>1, <2>1, <1>t
  <2> QED BY <2>1, <2>2, <2>3, <2>4, <1>t, <1>m
<1>3. CASE ReadDemo(c)
  <2> DEFINE record == dsSessions[dsCalls[c].target]
             at == CASE record.until <= dsNow -> "missing"
                     [] record.until > dsNow /\ (record.status # "active" \/ record.expires <= dsNow) -> "end"
                     [] OTHER -> IF dsCalls[c].op = "get" THEN "found" ELSE "close"
             f == [[dsCalls[c] EXCEPT !.read = record] EXCEPT !.at = at]
  <2>1. /\ dsKind = "redis" /\ dsCalls[c].at = "asked" /\ dsCalls[c].op # "create"
        /\ dsCalls' = [dsCalls EXCEPT ![c] = f]
        /\ UNCHANGED <<dsKind, dsNow, dsStores, dsStore, dsSessions, dsRate, dsRaced, dsUnlived>>
    BY <1>3, <1>t DEF ReadDemo, DemoRequests
  <2>2. dsCalls[c] \in DemoRequests
    BY <1>t
  <2>3. at \in {"missing", "end", "found", "close"} /\ (at = "end" => record.status # "active" \/ record.expires <= dsNow)
    <3> HIDE DEF record
    <3>1. CASE record.until <= dsNow
      <4>1. ~(record.until > dsNow /\ (record.status # "active" \/ record.expires <= dsNow)) \/ at \in {"missing", "end"}
        BY <3>1
      <4> QED BY <3>1, <4>1
    <3>2. CASE ~(record.until <= dsNow)
      BY <3>2
    <3> QED BY <3>1, <3>2
  <2>4. dsCalls[c].op \in {"get", "close"} /\ record \in DemoRecords
    <3>1. dsCalls[c].op \in {"get", "close"}
      BY <2>1, <2>2, <1>i DEF DemoRequestSound, DemoRequests
    <3> QED BY <3>1, <1>t, <1>i DEF DemoRequestSound
  <2> HIDE DEF at, record
  <2>5. /\ f \in DemoRequests /\ f.at = at /\ f.op = dsCalls[c].op /\ f.target = dsCalls[c].target /\ f.read = record
    BY <2>2, <2>3, <2>4 DEF DemoRequests
  <2>6. PICK e \in DemoRequests : e = f
    BY <2>5
  <2> HIDE DEF f
  <2>7. dsCalls' = [dsCalls EXCEPT ![c] = e]
    BY <2>1, <2>6
  <2>8. dsRate'.until > DemoEnd + Hour => dsUnlived' \/ \E x \in DemoCalls : dsCalls'[x].at = "life"
    BY <2>1, <2>7, <1>l
  <2>9. e.at \in {"missing", "end", "found", "close"} /\ (e.at = "end" => e.read.status # "active" \/ e.read.expires <= dsNow)
    BY <2>3, <2>5, <2>6
  <2> QED BY <2>1, <2>4, <2>5, <2>6, <2>7, <2>8, <2>9, <1>t, <1>m
<1>4. CASE DsStop(c)
  <2>1. /\ dsKind = "redis" /\ dsCalls[c].at = "life" /\ dsUnlived' = TRUE /\ DsGo(c, "stopped")
        /\ UNCHANGED <<dsKind, dsNow, dsStores, dsStore, dsSessions, dsRate, dsRaced>>
    BY <1>4 DEF DsStop
  <2>2. PICK e \in DemoRequests :
          /\ dsCalls' = [dsCalls EXCEPT ![c] = e] /\ e.at = "stopped" /\ e.op = dsCalls[c].op /\ e.target = dsCalls[c].target
    BY <2>1, DemoMoves DEF DemoAts
  <2> QED BY <2>1, <2>2, <1>t, <1>m
<1> QED BY <1>1, <1>2, <1>3, <1>4

\* The steps that make a session, and the check that lets one in.
LEMMA DemoSteps ==
  ASSUME DsInv, NEW c \in DemoCalls, CheckLimit(c) \/ AppendDemo(c) \/ SetDemo(c) \/ WriteEnd(c)
  PROVE  DsInv'
<1>t. /\ dsCalls \in [DemoCalls -> DemoRequests] /\ dsSessions \in [DemoCalls -> DemoRecords]
      /\ dsStores \subseteq DemoCalls /\ dsStore \in DemoCalls \cup {Unstored} /\ dsNow \in 1..DemoEnd
      /\ dsRaced \in BOOLEAN /\ dsUnlived \in BOOLEAN /\ dsRate \in [count : Nat, until : Nat]
  BY DEF DsInv, DsTypes, DsTypeOK
<1>i. /\ StoresMade /\ RoomForOne /\ \A x \in DemoCalls : DemoRequestSound(x) /\ DemoKept(x)
      /\ DemoFound /\ DemoEndsForGood
      /\ dsRaced \/ \A store \in dsStores : Cardinality(LiveIn(store)) <= DemoLimit
      /\ dsRate.until > DemoEnd + Hour => dsUnlived \/ \E x \in DemoCalls : dsCalls[x].at = "life"
  BY DEF DsInv, DemoSessionsSafe, DemoLimited, LiveIn
\* What they have in common.
<1>m. ASSUME NEW e \in DemoRequests, dsCalls' = [dsCalls EXCEPT ![c] = e], dsCalls[c].at \notin {"made", "life"},
             e.op = dsCalls[c].op, e.target = dsCalls[c].target, e.store = dsCalls[c].store,
             e.at \in {"append", "limited", "made", "closed", "ended"},
             e.at = "append" => e.store \in dsStores /\ dsKind = "memory", e.at = "made" => e.op = "create",
             e.at \in {"append"} => e.op = "create", e.at = "closed" => e.op \in {"get", "close"} /\ dsKind = "redis",
             UNCHANGED <<dsKind, dsNow, dsStores, dsStore, dsRate, dsUnlived>>,
             dsRaced' \in BOOLEAN, dsRaced => dsRaced', dsSessions' \in [DemoCalls -> DemoRecords],
             \A x \in DemoCalls : DemoKept(x)', RoomForOne', DemoFound', DemoEndsForGood',
             dsRaced' \/ \A store \in dsStores : Cardinality(LiveIn(store)') <= DemoLimit
      PROVE  DsInv'
  <2>1. dsCalls'[c] = e /\ dsCalls' \in [DemoCalls -> DemoRequests] /\ \A x \in DemoCalls : x # c => dsCalls'[x] = dsCalls[x]
    BY <1>m, <1>t
  <2>2. DsTypes'
    BY <2>1, <1>m, <1>t, DemoTypes
  <2>3. e.op \in {"get", "close"} => e.target \in DemoCalls /\ dsCalls'[e.target].at = "made"
    <3>1. e.op \in {"get", "close"} => e.target \in DemoCalls /\ dsCalls[e.target].at = "made"
      BY <1>m, <1>i DEF DemoRequestSound
    <3> QED BY <3>1, <1>m, <2>1
  <2>4. DemoRequestSound(c)'
    BY <2>1, <2>3, <1>m, DemoSoundAfter
  <2>5. \A x \in DemoCalls : dsCalls[x].at = "made" => dsCalls'[x].at = "made"
    BY <2>1, <1>m
  <2>6. \A x \in DemoCalls : DemoRequestSound(x)'
    <3> SUFFICES ASSUME NEW x \in DemoCalls, x # c PROVE DemoRequestSound(x)'
      BY <2>4
    <3>1. dsCalls'[x] = dsCalls[x] /\ dsCalls'[x] \in DemoRequests
      BY <2>1
    <3> QED BY <3>1, <2>5, <1>m, DemoOthersSound
  <2>7. dsRate'.until > DemoEnd + Hour => dsUnlived' \/ \E x \in DemoCalls : dsCalls'[x].at = "life"
    <3>1. \A x \in DemoCalls : dsCalls[x].at = "life" => dsCalls'[x].at = "life"
      BY <2>1, <1>m
    <3> QED BY <3>1, <1>i, <1>m
  <2>8. StoresMade'
    BY <1>m, <1>i DEF StoresMade
  <2>9. DemoLimited'
    BY <2>7, <1>m DEF DemoLimited, LiveIn
  <2> QED BY <2>2, <2>6, <2>8, <2>9, <1>m DEF DsInv, DemoSessionsSafe
<1>1. CASE CheckLimit(c)
  <2>p. PICK store : store = dsCalls[c].store
    OBVIOUS
  <2> DEFINE room == Cardinality(Recent(store)) < DemoLimit
  <2>1. /\ dsCalls[c].at = "create" /\ dsSessions' = Cleaned(store)
        /\ DsGo(c, IF room THEN "append" ELSE "limited")
        /\ dsRaced' = (dsRaced \/ \E other \in DemoCalls \ {c} : dsCalls[other].at = "append")
        /\ UNCHANGED <<dsKind, dsNow, dsStores, dsStore, dsRate, dsUnlived>>
    BY <1>1, <2>p DEF CheckLimit
  <2>2. store \in dsStores /\ dsKind = "memory" /\ dsCalls[c].op = "create" /\ store # Unstored
    BY <2>1, <2>p, <1>i, <1>t, DemoAssumption DEF DemoRequestSound, Unstored
  <2>3. \A s \in DemoCalls :
          /\ dsSessions'[s] \in DemoRecords
          /\ dsSessions'[s].store = dsSessions[s].store /\ dsSessions'[s].expires = dsSessions[s].expires
          /\ dsSessions'[s].made = dsSessions[s].made
          /\ dsSessions'[s].status = dsSessions[s].status \/ (dsSessions[s].expires < dsNow /\ dsSessions'[s].status = "dropped")
          /\ dsSessions'[s] = dsSessions[s] \/ dsSessions[s].store = store
    <3> SUFFICES ASSUME NEW s \in DemoCalls
                 PROVE  /\ dsSessions'[s] \in DemoRecords
                        /\ dsSessions'[s].store = dsSessions[s].store /\ dsSessions'[s].expires = dsSessions[s].expires
                        /\ dsSessions'[s].made = dsSessions[s].made
                        /\ \/ dsSessions'[s].status = dsSessions[s].status
                           \/ dsSessions[s].expires < dsNow /\ dsSessions'[s].status = "dropped"
                        /\ dsSessions'[s] = dsSessions[s] \/ dsSessions[s].store = store
      OBVIOUS
    <3>1. PICK d \in DemoRecords : d = dsSessions[s]
      BY <1>t
    <3>2. dsSessions'[s] = IF d.store = store /\ d.expires < dsNow THEN [d EXCEPT !.status = "dropped"] ELSE d
      BY <2>1, <3>1 DEF Cleaned
    <3>3. /\ [d EXCEPT !.status = "dropped"] \in DemoRecords /\ [d EXCEPT !.status = "dropped"].store = d.store
          /\ [d EXCEPT !.status = "dropped"].expires = d.expires /\ [d EXCEPT !.status = "dropped"].made = d.made
          /\ [d EXCEPT !.status = "dropped"].status = "dropped"
      BY DEF DemoRecords
    <3> QED BY <3>1, <3>2, <3>3
  <2>4. dsSessions' \in [DemoCalls -> DemoRecords]
    BY <2>1, <2>3 DEF Cleaned
  <2>5. PICK e \in DemoRequests :
          /\ dsCalls' = [dsCalls EXCEPT ![c] = e] /\ e.at = (IF room THEN "append" ELSE "limited") /\ e.op = dsCalls[c].op
          /\ e.target = dsCalls[c].target /\ e.store = dsCalls[c].store
    BY <2>1, DemoMoves DEF DemoAts
  <2>6. dsCalls'[c] = e /\ \A x \in DemoCalls : x # c => dsCalls'[x] = dsCalls[x]
    BY <2>5, <1>t
  <2>7. \A s \in DemoCalls : dsSessions[s].expires \in Nat /\ dsSessions[s].made \in Nat /\ dsNow \in Nat
    BY <1>t, DemoAssumption DEF DemoRecords
  <2>8. \A x \in DemoCalls : DemoKept(x)'
    <3> SUFFICES ASSUME NEW x \in DemoCalls PROVE DemoKept(x)'
      OBVIOUS
    <3>1. dsCalls'[x].at = "made" <=> dsCalls[x].at = "made"
      BY <2>1, <2>5, <2>6
    <3>2. CASE dsCalls[x].at = "made"
      BY <3>1, <3>2, <2>1, <2>2, <2>3, <1>i DEF DemoKept
    <3>3. CASE dsCalls[x].at # "made"
      <4>1. dsSessions[x] = NoSession
        BY <3>3, <1>i DEF DemoKept
      <4>2. dsSessions[x].store # store
        BY <4>1, <2>2 DEF NoSession
      <4> QED BY <4>1, <4>2, <3>1, <3>3, <2>3 DEF DemoKept
    <3> QED BY <3>2, <3>3
  <2>9. \A st : LiveIn(st)' \subseteq LiveIn(st)
    BY <2>1, <2>3 DEF LiveIn
  <2>10. LiveIn(store)' \subseteq Recent(store)
    <3> SUFFICES ASSUME NEW s \in LiveIn(store)' PROVE s \in Recent(store)
      OBVIOUS
    <3>1. s \in DemoCalls /\ dsSessions'[s].store = store /\ dsSessions'[s].status = "ACTIVE" /\ dsSessions'[s].expires > dsNow
      BY <2>1 DEF LiveIn
    <3>2. dsSessions[s].status = "ACTIVE" /\ dsSessions[s].expires > dsNow
      BY <3>1, <2>3
    <3>3. dsSessions[s].expires = dsSessions[s].made + SessionLife
      BY <3>1, <3>2, <2>2, <1>i DEF DemoKept, NoSession
    <3>4. dsSessions'[s].made > dsNow - Hour
      BY <3>1, <3>2, <3>3, <2>3, <2>7 DEF SessionLife, Hour
    <3> QED BY <3>1, <3>4, <2>1 DEF Recent
  <2>11. \A st : Cardinality(LiveIn(st)') <= Cardinality(LiveIn(st)) /\ Cardinality(LiveIn(st)') \in Nat /\ Cardinality(LiveIn(st)) \in Nat
    <3>1. \A st : LiveIn(st) \subseteq DemoCalls
      BY DEF LiveIn
    <3> QED BY <2>9, <3>1, LiveFewer
  <2>12. dsRaced' \/ \A st \in dsStores : Cardinality(LiveIn(st)') <= DemoLimit
    <3> SUFFICES ASSUME ~dsRaced', NEW st \in dsStores PROVE Cardinality(LiveIn(st)') <= DemoLimit
      OBVIOUS
    <3>1. Cardinality(LiveIn(st)) <= DemoLimit
      BY <2>1, <1>i
    <3>2. Cardinality(LiveIn(st)') <= Cardinality(LiveIn(st)) /\ Cardinality(LiveIn(st)') \in Nat /\ Cardinality(LiveIn(st)) \in Nat
      BY <2>11
    <3> QED BY <3>1, <3>2, DemoAssumption
  <2>13. RoomForOne'
    <3>1. ~dsRaced' => \A x \in DemoCalls : dsCalls'[x].at = "append" => x = c
      BY <2>1, <2>6
    <3>2. room => Cardinality(LiveIn(store)') < DemoLimit
      <4>1. Recent(store) \subseteq DemoCalls
        BY DEF Recent
      <4> QED BY <4>1, <2>10, LiveFewer, DemoAssumption
    <3>3. ASSUME ~dsRaced', NEW x \in DemoCalls, dsCalls'[x].at = "append" PROVE (Cardinality(LiveIn(dsCalls[x].store)))' < DemoLimit
      <4>1. x = c /\ dsCalls'[x].store = store /\ room
        BY <3>1, <3>3, <2>p, <2>5, <2>6
      <4> HIDE DEF room
      <4> QED BY <4>1, <3>2 DEF LiveIn
    <3> QED BY <3>1, <3>3 DEF RoomForOne
  <2>14. DemoFound' /\ DemoEndsForGood'
    <3> SUFFICES ASSUME NEW x \in DemoCalls, dsCalls'[x].at = "missing", dsCalls'[x].op = "get", ~dsRaced'
                 PROVE  dsSessions'[dsCalls'[x].target].expires < dsNow
      BY <2>1, <2>2 DEF DemoFound, DemoEndsForGood
    <3>1. x # c /\ dsCalls'[x] = dsCalls[x]
      BY <2>5, <2>6
    <3>2. dsCalls[x].target \in DemoCalls
      BY <3>1, <1>i DEF DemoRequestSound
    <3>3. dsSessions[dsCalls[x].target].expires < dsNow
      BY <3>1, <2>1, <2>2, <1>i DEF DemoFound
    <3> QED BY <3>1, <3>2, <3>3, <2>3
  <2>15. dsRaced' \in BOOLEAN /\ (dsRaced => dsRaced')
    BY <2>1, <1>t
  <2>16. e.at \in {"append", "limited"} /\ e.store \in dsStores /\ e.op = "create"
    BY <2>2, <2>5, <2>p
  <2> HIDE DEF room
  <2> QED BY <2>1, <2>2, <2>4, <2>5, <2>8, <2>12, <2>13, <2>14, <2>15, <2>16, <1>m
<1>2. CASE AppendDemo(c)
  <2> DEFINE d == [status |-> "ACTIVE", store |-> dsCalls[c].store, made |-> dsNow, expires |-> dsNow + SessionLife, until |-> 0]
  <2>1. /\ dsCalls[c].at = "append" /\ dsSessions' = [dsSessions EXCEPT ![c] = d] /\ DsGo(c, "made")
        /\ UNCHANGED <<dsKind, dsNow, dsStores, dsStore, dsRate, dsRaced, dsUnlived>>
    BY <1>2 DEF AppendDemo
  <2>2. dsCalls[c].store \in dsStores /\ dsKind = "memory" /\ dsCalls[c].op = "create"
    BY <2>1, <1>i DEF DemoRequestSound
  <2>3. /\ d \in DemoRecords /\ d.status = "ACTIVE" /\ d.store = dsCalls[c].store /\ d.made = dsNow
        /\ d.expires = d.made + SessionLife
    <3>1. dsNow \in Nat /\ dsNow + SessionLife \in Nat /\ dsCalls[c].store \in DemoCalls
      BY <1>t, <2>2, DemoAssumption DEF SessionLife
    <3> QED BY <3>1 DEF DemoRecords
  <2> HIDE DEF d
  <2>4. /\ dsSessions' \in [DemoCalls -> DemoRecords] /\ dsSessions'[c] = d
        /\ \A x \in DemoCalls : x # c => dsSessions'[x] = dsSessions[x]
    BY <2>1, <2>3, <1>t
  <2>5. PICK e \in DemoRequests :
          /\ dsCalls' = [dsCalls EXCEPT ![c] = e] /\ e.at = "made" /\ e.op = dsCalls[c].op
          /\ e.target = dsCalls[c].target /\ e.store = dsCalls[c].store
    BY <2>1, DemoMoves DEF DemoAts
  <2>6. dsCalls'[c] = e /\ \A x \in DemoCalls : x # c => dsCalls'[x] = dsCalls[x]
    BY <2>5, <1>t
  <2>7. \A x \in DemoCalls : DemoKept(x)'
    <3> SUFFICES ASSUME NEW x \in DemoCalls PROVE DemoKept(x)'
      OBVIOUS
    <3>1. CASE x = c
      BY <3>1, <2>1, <2>2, <2>3, <2>4, <2>5, <2>6 DEF DemoKept
    <3>2. CASE x # c
      BY <3>2, <2>1, <2>4, <2>6, <1>i DEF DemoKept
    <3> QED BY <3>1, <3>2
  <2>8. ~dsRaced => \A x \in DemoCalls : dsCalls'[x].at # "append"
    BY <2>1, <2>5, <2>6, <1>i DEF RoomForOne
  <2>9. RoomForOne'
    BY <2>1, <2>8 DEF RoomForOne
  <2>10. dsRaced' \/ \A st \in dsStores : Cardinality(LiveIn(st)') <= DemoLimit
    <3> SUFFICES ASSUME ~dsRaced, NEW st \in dsStores PROVE Cardinality(LiveIn(st)') <= DemoLimit
      BY <2>1
    <3>1. LiveIn(st) \subseteq DemoCalls /\ LiveIn(st)' \subseteq DemoCalls
      BY DEF LiveIn
    <3>2. IsFiniteSet(LiveIn(st)) /\ Cardinality(LiveIn(st)) \in Nat
      BY <3>1, LiveFewer
    <3>3. LiveIn(st)' \subseteq LiveIn(st) \cup (IF st = dsCalls[c].store THEN {c} ELSE {})
      BY <2>1, <2>3, <2>4 DEF LiveIn
    <3>4. CASE st = dsCalls[c].store
      <4>1. Cardinality(LiveIn(st)) < DemoLimit
        BY <3>4, <2>1, <1>i DEF RoomForOne
      <4>2. IsFiniteSet(LiveIn(st) \cup {c}) /\ Cardinality(LiveIn(st) \cup {c}) <= Cardinality(LiveIn(st)) + 1
        <5>1. Cardinality(LiveIn(st) \cup {c}) = IF c \in LiveIn(st) THEN Cardinality(LiveIn(st)) ELSE Cardinality(LiveIn(st)) + 1
          BY <3>2, FS_AddElement
        <5>2. IsFiniteSet(LiveIn(st) \cup {c})
          BY <3>2, FS_AddElement
        <5> QED BY <5>1, <5>2, <3>2
      <4>3. Cardinality(LiveIn(st)') <= Cardinality(LiveIn(st) \cup {c}) /\ Cardinality(LiveIn(st)') \in Nat
            /\ Cardinality(LiveIn(st) \cup {c}) \in Nat
        <5>1. LiveIn(st)' \subseteq LiveIn(st) \cup {c} /\ LiveIn(st) \cup {c} \subseteq DemoCalls
          BY <3>1, <3>3
        <5> QED BY <5>1, LiveFewer
      <4> QED BY <4>1, <4>2, <4>3, <3>2, DemoAssumption
    <3>5. CASE st # dsCalls[c].store
      <4>1. LiveIn(st)' \subseteq LiveIn(st)
        BY <3>3, <3>5
      <4>2. Cardinality(LiveIn(st)') <= Cardinality(LiveIn(st)) /\ Cardinality(LiveIn(st)') \in Nat
        BY <4>1, <3>1, LiveFewer
      <4> QED BY <4>2, <3>2, <1>i, DemoAssumption
    <3> QED BY <3>4, <3>5
  <2>11. DemoFound' /\ DemoEndsForGood'
    <3> SUFFICES ASSUME NEW x \in DemoCalls, dsCalls'[x].at = "missing", dsCalls'[x].op = "get", ~dsRaced'
                 PROVE  dsSessions'[dsCalls'[x].target].expires < dsNow
      BY <2>1, <2>2 DEF DemoFound, DemoEndsForGood
    <3>1. x # c /\ dsCalls'[x] = dsCalls[x]
      BY <2>5, <2>6
    <3>2. dsCalls[x].target \in DemoCalls /\ dsCalls[x].target # c
      BY <3>1, <2>1, <1>i DEF DemoRequestSound
    <3>3. dsSessions[dsCalls[x].target].expires < dsNow
      BY <3>1, <2>1, <2>2, <1>i DEF DemoFound
    <3> QED BY <3>1, <3>2, <3>3, <2>4
  <2> QED BY <2>1, <2>2, <2>4, <2>5, <2>7, <2>9, <2>10, <2>11, <1>t, <1>m
\* In Redis there is no store to fill.
<1>r. ASSUME dsKind = "redis", UNCHANGED <<dsKind, dsStores>>, NEW e, dsCalls' = [dsCalls EXCEPT ![c] = e], e.at # "append"
      PROVE  RoomForOne' /\ DemoFound' /\ \A st \in dsStores : Cardinality(LiveIn(st)') <= DemoLimit
  <2>1. \A x \in DemoCalls : dsCalls'[x].at # "append"
    BY <1>r, <1>i, <1>t DEF DemoRequestSound
  <2>2. dsStores = {}
    BY <1>r, <1>i DEF StoresMade
  <2> QED BY <2>1, <2>2, <1>r DEF RoomForOne, DemoFound
<1>3. CASE SetDemo(c)
  <2> DEFINE d == [status |-> "active", store |-> "redis", made |-> dsNow, expires |-> dsNow + SessionLife, until |-> dsNow + SessionLife]
  <2>1. /\ dsCalls[c].at = "set" /\ dsSessions' = [dsSessions EXCEPT ![c] = d] /\ DsGo(c, "made")
        /\ UNCHANGED <<dsKind, dsNow, dsStores, dsStore, dsRate, dsRaced, dsUnlived>>
    BY <1>3 DEF SetDemo
  <2>2. dsKind = "redis" /\ dsCalls[c].op = "create"
    BY <2>1, <1>i DEF DemoRequestSound
  <2>3. d \in DemoRecords
    <3>1. dsNow \in Nat /\ dsNow + SessionLife \in Nat
      BY <1>t, DemoAssumption DEF SessionLife
    <3> QED BY <3>1 DEF DemoRecords
  <2> HIDE DEF d
  <2>4. /\ dsSessions' \in [DemoCalls -> DemoRecords] /\ \A x \in DemoCalls : x # c => dsSessions'[x] = dsSessions[x]
    BY <2>1, <2>3, <1>t
  <2>5. PICK e \in DemoRequests :
          /\ dsCalls' = [dsCalls EXCEPT ![c] = e] /\ e.at = "made" /\ e.op = dsCalls[c].op
          /\ e.target = dsCalls[c].target /\ e.store = dsCalls[c].store
    BY <2>1, DemoMoves DEF DemoAts
  <2>6. dsCalls'[c] = e /\ \A x \in DemoCalls : x # c => dsCalls'[x] = dsCalls[x]
    BY <2>5, <1>t
  <2>7. \A x \in DemoCalls : DemoKept(x)'
    <3> SUFFICES ASSUME NEW x \in DemoCalls PROVE DemoKept(x)'
      OBVIOUS
    <3>1. CASE x = c
      BY <3>1, <2>1, <2>2, <2>5, <2>6 DEF DemoKept
    <3>2. CASE x # c
      BY <3>2, <2>1, <2>4, <2>6, <1>i DEF DemoKept
    <3> QED BY <3>1, <3>2
  <2>8. DemoEndsForGood'
    <3> SUFFICES ASSUME NEW x \in DemoCalls, dsCalls'[x].at = "closed" PROVE dsSessions'[dsCalls'[x].target].status # "active"
      BY DEF DemoEndsForGood
    <3>1. dsCalls'[x] = dsCalls[x]
      BY <2>5, <2>6
    <3>2. dsCalls[x].target \in DemoCalls /\ dsCalls[x].target # c
      BY <3>1, <2>1, <1>i DEF DemoRequestSound
    <3>3. dsSessions[dsCalls[x].target].status # "active"
      BY <3>1, <2>2, <1>i DEF DemoEndsForGood
    <3> QED BY <3>1, <3>2, <3>3, <2>4
  <2>9. RoomForOne' /\ DemoFound' /\ \A st \in dsStores : Cardinality(LiveIn(st)') <= DemoLimit
    BY <2>1, <2>2, <2>5, <1>r
  <2> QED BY <2>1, <2>2, <2>4, <2>5, <2>7, <2>8, <2>9, <1>t, <1>m
<1>4. CASE WriteEnd(c)
  <2>p. PICK t, record : t = dsCalls[c].target /\ record = dsCalls[c].read
    OBVIOUS
  <2> DEFINE status == IF dsCalls[c].at = "close" THEN "closed" ELSE EndStatus(record)
             at == IF dsCalls[c].at = "close" THEN "closed" ELSE "ended"
             d == [[record EXCEPT !.status = status] EXCEPT !.until = dsNow + 1]
  <2>1. /\ dsCalls[c].at \in {"end", "close"} /\ dsSessions' = [dsSessions EXCEPT ![t] = d] /\ DsGo(c, at)
        /\ UNCHANGED <<dsKind, dsNow, dsStores, dsStore, dsRate, dsRaced, dsUnlived>>
    <3>1. record \in DemoRecords
      BY <2>p, <1>t DEF DemoRequests
    <3> QED BY <3>1, <1>4, <2>p DEF WriteEnd, DemoRecords
  <2>2. dsKind = "redis" /\ dsCalls[c].op \in {"get", "close"} /\ t \in DemoCalls /\ dsCalls[t].at = "made" /\ t # c
    BY <2>1, <2>p, <1>i DEF DemoRequestSound
  <2>3. d \in DemoRecords /\ d.status # "active"
    <3>1. dsNow + 1 \in Nat /\ record \in DemoRecords
      BY <2>p, <1>t, DemoAssumption DEF DemoRequests
    <3>2. dsCalls[c].at = "end" => record.status # "active" \/ record.expires <= dsNow
      BY <2>p, <1>i DEF DemoRequestSound
    <3>3. status \in {"none", "ACTIVE", "dropped", "expired", "closed"}
      BY <3>1, <3>2, <2>1 DEF EndStatus, DemoRecords
    <3> HIDE DEF status
    <3> QED BY <3>1, <3>3 DEF DemoRecords
  <2>4. at \in DemoAts /\ at \in {"closed", "ended"}
    BY DEF DemoAts
  <2> HIDE DEF d, at
  <2>5. /\ dsSessions' \in [DemoCalls -> DemoRecords] /\ dsSessions'[t] = d
        /\ \A x \in DemoCalls : x # t => dsSessions'[x] = dsSessions[x]
    BY <2>1, <2>2, <2>3, <1>t
  <2>6. PICK e \in DemoRequests :
          /\ dsCalls' = [dsCalls EXCEPT ![c] = e] /\ e.at = at /\ e.op = dsCalls[c].op
          /\ e.target = dsCalls[c].target /\ e.store = dsCalls[c].store
    BY <2>1, <2>4, DemoMoves
  <2>7. dsCalls'[c] = e /\ \A x \in DemoCalls : x # c => dsCalls'[x] = dsCalls[x]
    BY <2>6, <1>t
  <2>8. \A x \in DemoCalls : DemoKept(x)'
    <3> SUFFICES ASSUME NEW x \in DemoCalls PROVE DemoKept(x)'
      OBVIOUS
    <3>1. dsCalls'[x].at = "made" <=> dsCalls[x].at = "made"
      BY <2>1, <2>4, <2>6, <2>7
    <3>2. CASE x = t
      BY <3>1, <3>2, <2>1, <2>2 DEF DemoKept
    <3>3. CASE x # t
      BY <3>1, <3>3, <2>1, <2>5, <1>i DEF DemoKept
    <3> QED BY <3>2, <3>3
  <2>9. DemoEndsForGood'
    <3> SUFFICES ASSUME NEW x \in DemoCalls, dsCalls'[x].at = "closed" PROVE dsSessions'[dsCalls'[x].target].status # "active"
      BY DEF DemoEndsForGood
    <3>1. CASE x = c
      BY <3>1, <2>p, <2>3, <2>5, <2>6, <2>7
    <3>2. CASE x # c
      <4>1. dsCalls'[x] = dsCalls[x]
        BY <3>2, <2>7
      <4>2. dsCalls[x].target \in DemoCalls /\ dsSessions[dsCalls[x].target].status # "active"
        BY <4>1, <2>2, <1>i DEF DemoRequestSound, DemoEndsForGood
      <4> QED BY <4>1, <4>2, <2>3, <2>5
    <3> QED BY <3>1, <3>2
  <2>10. RoomForOne' /\ DemoFound' /\ \A st \in dsStores : Cardinality(LiveIn(st)') <= DemoLimit
    BY <2>1, <2>2, <2>4, <2>6, <1>r
  <2> QED BY <2>1, <2>2, <2>4, <2>5, <2>6, <2>8, <2>9, <2>10, <1>t, <1>m
<1> QED BY <1>1, <1>2, <1>3, <1>4

LEMMA DemoTicks == DsInv /\ DsTick => DsInv'
<1> SUFFICES ASSUME DsInv, DsTick PROVE DsInv'
  OBVIOUS
<1>t. /\ dsCalls \in [DemoCalls -> DemoRequests] /\ dsSessions \in [DemoCalls -> DemoRecords]
      /\ dsStores \subseteq DemoCalls /\ dsStore \in DemoCalls \cup {Unstored} /\ dsNow \in 1..DemoEnd
      /\ dsRaced \in BOOLEAN /\ dsUnlived \in BOOLEAN /\ dsRate \in [count : Nat, until : Nat]
  BY DEF DsInv, DsTypes, DsTypeOK
<1>i. /\ StoresMade /\ RoomForOne /\ \A x \in DemoCalls : DemoRequestSound(x) /\ DemoKept(x)
      /\ DemoFound /\ DemoEndsForGood
      /\ dsRaced \/ \A store \in dsStores : Cardinality(LiveIn(store)) <= DemoLimit
      /\ dsRate.until > DemoEnd + Hour => dsUnlived \/ \E x \in DemoCalls : dsCalls[x].at = "life"
  BY DEF DsInv, DemoSessionsSafe, DemoLimited, LiveIn
<1>1. /\ dsNow < DemoEnd /\ dsNow' = dsNow + 1
      /\ dsRate' = IF dsRate.until <= dsNow' THEN [count |-> 0, until |-> 0] ELSE dsRate
      /\ UNCHANGED <<dsKind, dsStores, dsStore, dsSessions, dsCalls, dsRaced, dsUnlived>>
  BY DEF DsTick
<1>2. dsNow' \in 1..DemoEnd /\ dsNow \in Nat
  BY <1>1, <1>t, DemoAssumption
<1>3. /\ dsRate' \in [count : Nat, until : Nat]
      /\ dsRate'.until > DemoEnd + Hour => dsRate.until > DemoEnd + Hour
  <2>1. ~(0 > DemoEnd + Hour)
    BY DemoAssumption DEF Hour
  <2> QED BY <2>1, <1>1, <1>t
<1>4. DsTypes'
  BY <1>1, <1>2, <1>3, <1>t, DemoTypes
<1>5. \A x \in DemoCalls : DemoRequestSound(x)'
  <2> SUFFICES ASSUME NEW x \in DemoCalls PROVE DemoRequestSound(x)'
    OBVIOUS
  <2>1. dsCalls'[x] = dsCalls[x] /\ dsCalls'[x] \in DemoRequests
    BY <1>1, <1>t
  <2> QED BY <2>1, <1>1, DemoOthersSound
<1>6. \A s \in DemoCalls : dsSessions[s].expires \in Nat /\ (dsSessions[s].expires < dsNow => dsSessions[s].expires < dsNow')
                           /\ (dsSessions[s].expires > dsNow' => dsSessions[s].expires > dsNow)
  <2> SUFFICES ASSUME NEW s \in DemoCalls
               PROVE  /\ dsSessions[s].expires \in Nat /\ (dsSessions[s].expires < dsNow => dsSessions[s].expires < dsNow')
                      /\ dsSessions[s].expires > dsNow' => dsSessions[s].expires > dsNow
    OBVIOUS
  <2>1. dsSessions[s].expires \in Nat
    BY <1>t DEF DemoRecords
  <2> QED BY <2>1, <1>1, <1>2
<1>7. \A x \in DemoCalls : DemoKept(x)'
  BY <1>1, <1>6, <1>i DEF DemoKept
<1>8. \A st : LiveIn(st)' \subseteq LiveIn(st) /\ LiveIn(st) \subseteq DemoCalls
  BY <1>1, <1>6 DEF LiveIn
<1>9. \A st : Cardinality(LiveIn(st)') <= Cardinality(LiveIn(st)) /\ Cardinality(LiveIn(st)') \in Nat /\ Cardinality(LiveIn(st)) \in Nat
  BY <1>8, LiveFewer
<1>10. RoomForOne'
  <2>1. ~dsRaced' => \A x, y \in DemoCalls : dsCalls'[x].at = "append" /\ dsCalls'[y].at = "append" => x = y
    BY <1>1, <1>i DEF RoomForOne
  <2>2. ASSUME ~dsRaced', NEW x \in DemoCalls, dsCalls'[x].at = "append" PROVE (Cardinality(LiveIn(dsCalls[x].store)))' < DemoLimit
    <3>1. PICK store : store = dsCalls[x].store
      OBVIOUS
    <3>2. Cardinality(LiveIn(store)) < DemoLimit
      BY <3>1, <2>2, <1>1, <1>i DEF RoomForOne
    <3>3. Cardinality(LiveIn(store)') < DemoLimit
      BY <3>2, <1>9, DemoAssumption
    <3>4. dsCalls'[x].store = store
      BY <3>1, <1>1
    <3> QED BY <3>3, <3>4 DEF LiveIn
  <2> QED BY <2>1, <2>2 DEF RoomForOne
<1>11. DemoLimited'
  <2>1. dsRaced' \/ \A st \in dsStores' : Cardinality(LiveIn(st)') <= DemoLimit
    BY <1>1, <1>9, <1>i, DemoAssumption
  <2> QED BY <2>1, <1>1, <1>3, <1>i DEF DemoLimited, LiveIn
<1>12. DemoFound' /\ DemoEndsForGood'
  <2>1. DemoFound'
    <3> SUFFICES ASSUME NEW x \in DemoCalls, dsKind = "memory", dsCalls[x].at = "missing", dsCalls[x].op = "get", ~dsRaced
                 PROVE  dsSessions[dsCalls[x].target].expires < dsNow'
      BY <1>1 DEF DemoFound
    <3>1. dsCalls[x].target \in DemoCalls /\ dsSessions[dsCalls[x].target].expires < dsNow
      BY <1>i DEF DemoFound, DemoRequestSound
    <3> QED BY <3>1, <1>6
  <2> QED BY <2>1, <1>1, <1>i DEF DemoEndsForGood
<1>13. StoresMade'
  BY <1>1, <1>i DEF StoresMade
<1> QED BY <1>4, <1>5, <1>7, <1>10, <1>11, <1>12, <1>13 DEF DsInv, DemoSessionsSafe

LEMMA DemoStep == DsInv /\ [DsNext]_dsVars => DsInv'
<1> SUFFICES ASSUME DsInv, [DsNext]_dsVars PROVE DsInv'
  OBVIOUS
<1>1. ASSUME NEW c \in DemoCalls,
             \/ DsAsk(c) \/ FindStore(c) \/ InstallStore(c) \/ CheckLimit(c) \/ AppendDemo(c) \/ GetDemo(c)
             \/ CountDemo(c) \/ RateLife(c) \/ SetDemo(c) \/ ReadDemo(c) \/ WriteEnd(c) \/ DsStop(c)
      PROVE  DsInv'
  BY <1>1, DemoAsks, DemoCommands, DemoSteps
<1>2. CASE UNCHANGED dsVars
  BY <1>2 DEF dsVars, DsInv, DsTypes, DsTypeOK, StoresMade, RoomForOne, LiveIn, DemoRequestSound, DemoKept,
              DemoSessionsSafe, DemoFound, DemoEndsForGood, DemoLimited
<1> QED BY <1>1, <1>2, DemoTicks DEF DsNext

-----------------------------------------------------------------------------
(* The staging keys (provider/dynamic_keys.py, auth.py).                   *)

Asking == {"pin", "pinlife", "pincheck"}
Making == {"setmeta", "setsecret", "sadd"}
Serving == {"stamp", "rate", "nonce", "served"}
KeyAts == Asking \cup Making \cup Serving
  \cup {"idle", "get", "indexlife", "getagain", "entomb", "delsecret", "members", "list", "drop",
        "answered", "unknown", "refused", "limited", "replayed", "stopped"}
KeyRequests ==
  [op : {"none", "issue", "revoke", "rotate", "serve"}, at : KeyAts, key : KeyIds \cup {0}, new : KeyIds \cup {0},
   ttl : Nat, expires : Nat, left : SUBSET KeyIds, got : SUBSET KeyIds, dead : SUBSET KeyIds]
KeyRecords == [until : Nat, expires : Nat, revoked : BOOLEAN]
Stamps == 0..(MaxTime + AuthWindow + 1)
SkTypes ==
  /\ skNow \in 1..MaxTime /\ skShortened \in BOOLEAN
  /\ skMeta \in [KeyIds -> KeyRecords] /\ skSecret \in [KeyIds -> Nat]
  /\ skIndex \in [ids : SUBSET KeyIds, until : Nat] /\ skPin \in [count : Nat, until : Nat]
  /\ skNonce \in Nat /\ skStamp \in Stamps /\ skFirst \in Nat /\ skServed \in Nat
  /\ skIssued \subseteq KeyIds /\ skRevoked \subseteq KeyIds /\ skDropped \subseteq KeyIds
  /\ skCalls \in [KeyCalls -> KeyRequests]

\* Who makes a key, and the keys that were made and put in the index, the first one among them.
Makes(c, k) == skCalls[c].op \in {"issue", "rotate"} /\ skCalls[c].new = k
Out(k) == k = 1 \/ (k \in KeyIds /\ \E c \in KeyCalls : Makes(c, k) /\ skCalls[c].at \notin Making)

KeysOwned ==
  /\ \A c, d \in KeyCalls, k \in KeyIds : Makes(c, k) /\ Makes(d, k) => c = d
  /\ 1 \in skIssued /\ \A k \in skIssued \cup skIndex.ids : Out(k)
Indexed == skIndex.ids \cup skDropped

\* A request makes a key of its own with the life it was asked for, drops one that is dead, and is
\* served under one that was live since it came.
KeyRequestSound(c) ==
  LET r == skCalls[c] IN
  /\ r.at \in Asking \cup {"get"} => r.new = 0 /\ r.op \in {"issue", "rotate", "revoke"}
  /\ r.at \in Asking => r.op # "revoke"
  /\ r.op \in {"revoke", "rotate"} \/ r.at \in {"entomb", "delsecret"} => r.key = 1
  /\ r.op \in {"issue", "rotate"} => r.ttl \in {ShortTtl, LongTtl} /\ r.new # 1
  /\ r.at \in Making \cup {"indexlife"} =>
       r.op \in {"issue", "rotate"} /\ r.new \in KeyIds /\ r.expires <= skNow + r.ttl
  /\ r.at \in {"setsecret", "sadd", "indexlife"} => skMeta[r.new].expires <= r.expires
  /\ r.at = "getagain" => r.op = "rotate"
  /\ r.at = "indexlife" => r.new \in Indexed \/ ~Usable(r.new)
  /\ r.at \in {"members", "list", "drop"} => r.op = "serve"
  /\ r.at = "drop" => r.new \in KeyIds /\ Out(r.new) /\ ~Usable(r.new)
  /\ \A k \in r.left : Out(k)
  /\ r.dead \subseteq skRevoked /\ r.got \cap r.dead = {} /\ (r.at \in Serving => r.key \notin r.dead)
  /\ r.at \in {"rate", "nonce"} => skStamp >= 1 /\ skNow - skStamp <= AuthWindow /\ skStamp - skNow <= AuthWindow

\* What was revoked stays so until its record is gone.
Graves == skRevoked \subseteq {1} /\ \A k \in skRevoked : skMeta[k] = Gone \/ skMeta[k].revoked

\* An index without a life has no key that was handed out.
IndexSound ==
  /\ skIndex.until > skNow \/ (skIndex.until = 0 /\ skIndex.ids = {})
  /\ skIndex.until = Never => skIndex.ids \cap skIssued = {}

PinSound == PinCounterEnds /\ (skPin.until > skNow => skPin.count >= 1)

\* A request that was served is not too far ahead of its first serving, and each serving spends its
\* nonce for longer than the window is wide.
NonceSound ==
  /\ ServedOnce
  /\ skServed > 0 => skStamp >= 1 /\ skFirst + AuthWindow >= skStamp
  /\ skServed = 1 => skNonce >= skFirst + NonceLife \/ skNow >= skFirst + NonceLife
  /\ skServed = 2 => skNonce >= skFirst + 2 * NonceLife \/ skNow >= skFirst + 2 * NonceLife

SkInv ==
  /\ SkTypes /\ KeysOwned /\ Graves /\ IndexSound /\ LiveKeysListed /\ PinSound /\ NonceSound
  /\ \A c \in KeyCalls : KeyRequestSound(c)

LEMMA KeysBegin == SkInit => SkInv
<1> SUFFICES ASSUME SkInit PROVE SkInv
  OBVIOUS
<1>1. SkIdle \in KeyRequests /\ SkIdle.op = "none" /\ SkIdle.at = "idle" /\ SkIdle.left = {} /\ SkIdle.got = {} /\ SkIdle.dead = {}
  BY DEF SkIdle, KeyRequests, KeyAts
<1>2. \A c \in KeyCalls : skCalls[c] = SkIdle
  BY DEF SkInit
<1>3. /\ 1 \in KeyIds /\ KeyIds \subseteq Nat /\ 1 + LongTtl \in Nat /\ 1 + LongTtl > 1 /\ MaxTime >= 1
      /\ Never \in Nat /\ Never # 1 + LongTtl /\ Never # 0
  BY StagingKeysAssumption DEF Never
<1>4. SkTypes
  <2> DEFINE r == [until |-> 1 + LongTtl, expires |-> 1 + LongTtl, revoked |-> FALSE]
  <2>1. r \in KeyRecords /\ Gone \in KeyRecords
    BY <1>3 DEF KeyRecords, Gone
  <2>2. skMeta = [k \in KeyIds |-> IF k = 1 THEN r ELSE Gone]
    BY DEF SkInit
  <2> HIDE DEF r
  <2>3. skMeta \in [KeyIds -> KeyRecords]
    BY <2>1, <2>2
  <2>4. skSecret \in [KeyIds -> Nat]
    BY <1>3 DEF SkInit
  <2>5. skCalls \in [KeyCalls -> KeyRequests]
    BY <1>1 DEF SkInit
  <2>6. skIndex \in [ids : SUBSET KeyIds, until : Nat] /\ skPin \in [count : Nat, until : Nat]
    BY <1>3 DEF SkInit
  <2>7. skNow \in 1..MaxTime /\ skStamp \in Stamps /\ skFirst \in Nat
    BY <1>3, StagingKeysAssumption DEF SkInit, Stamps
  <2> QED BY <2>3, <2>4, <2>5, <2>6, <2>7, <1>3 DEF SkInit, SkTypes
<1>5. \A c \in KeyCalls : KeyRequestSound(c)
  BY <1>1, <1>2 DEF KeyRequestSound, Asking, Making, Serving
<1>6. KeysOwned
  BY <1>1, <1>2 DEF KeysOwned, Makes, Out, SkInit
<1>7. skIndex.until = 1 + LongTtl /\ skIndex.ids = {1} /\ skIndex.until # Never /\ skIndex.until > skNow
  BY <1>3 DEF SkInit
<1>8. skMeta[1].expires = 1 + LongTtl
  BY <1>3 DEF SkInit
<1>9. IndexSound /\ LiveKeysListed /\ Graves
  BY <1>3, <1>7, <1>8 DEF IndexSound, LiveKeysListed, Graves, SkInit
<1>10. PinSound /\ NonceSound
  BY <1>3 DEF PinSound, PinCounterEnds, NonceSound, ServedOnce, SkInit
<1> QED BY <1>4, <1>5, <1>6, <1>9, <1>10 DEF SkInv

\* A request is sound once what it asks and has done is.
LEMMA KeySoundAfter ==
  ASSUME NEW c \in KeyCalls, NEW e \in KeyRequests, skCalls'[c] = e,
         e.at \in Asking \cup {"get"} => e.new = 0 /\ e.op \in {"issue", "rotate", "revoke"},
         e.at \in Asking => e.op # "revoke",
         e.op \in {"revoke", "rotate"} \/ e.at \in {"entomb", "delsecret"} => e.key = 1,
         e.at = "getagain" => e.op = "rotate",
         e.op \in {"issue", "rotate"} => e.ttl \in {ShortTtl, LongTtl} /\ e.new # 1,
         e.at \in Making \cup {"indexlife"} => e.op \in {"issue", "rotate"} /\ e.new \in KeyIds /\ e.expires <= skNow' + e.ttl,
         e.at \in {"setsecret", "sadd", "indexlife"} => skMeta'[e.new].expires <= e.expires,
         e.at = "indexlife" => e.new \in Indexed' \/ ~Usable(e.new)',
         e.at \in {"members", "list", "drop"} => e.op = "serve",
         e.at = "drop" => e.new \in KeyIds /\ Out(e.new)' /\ ~Usable(e.new)',
         \A k \in e.left : Out(k)',
         e.dead \subseteq skRevoked' /\ e.got \cap e.dead = {} /\ (e.at \in Serving => e.key \notin e.dead),
         e.at \in {"rate", "nonce"} => skStamp' >= 1 /\ skNow' - skStamp' <= AuthWindow /\ skStamp' - skNow' <= AuthWindow
  PROVE  KeyRequestSound(c)'
BY DEF KeyRequestSound, Out, Makes, Indexed, Usable, Kept, IsThere

\* Whose key's state matters to it.
HasNew(c) == skCalls[c].at \in {"setsecret", "sadd", "indexlife", "drop"}

LEMMA KeyOthersSound ==
  ASSUME SkInv, NEW x \in KeyCalls, skCalls'[x] = skCalls[x], skNow' \in {skNow, skNow + 1}, skRevoked \subseteq skRevoked',
         \A k : Out(k) => Out(k)',
         \A k \in KeyIds : HasNew(x) /\ k = skCalls[x].new =>
           /\ skMeta'[k].expires \in Nat /\ skMeta'[k].expires <= skMeta[k].expires /\ (Usable(k)' => Usable(k))
           /\ k \in Indexed => k \in Indexed' \/ ~Usable(k)',
         skCalls[x].at \in {"rate", "nonce"} => skNow' = skNow /\ (skStamp >= 1 => skStamp' = skStamp)
  PROVE  KeyRequestSound(x)'
<1>1. PICK e \in KeyRequests : e = skCalls[x]
  BY DEF SkInv, SkTypes
<1>2. KeyRequestSound(x)
  BY DEF SkInv
<1>3. e.expires \in Nat /\ e.ttl \in Nat /\ skNow \in Nat /\ \A k \in KeyIds : skMeta[k].expires \in Nat
  BY StagingKeysAssumption DEF KeyRequests, KeyRecords, SkInv, SkTypes
<1>4. /\ e.at \in Asking \cup {"get"} => e.new = 0 /\ e.op \in {"issue", "rotate", "revoke"}
      /\ e.at \in Asking => e.op # "revoke"
      /\ e.op \in {"revoke", "rotate"} \/ e.at \in {"entomb", "delsecret"} => e.key = 1
      /\ e.at = "getagain" => e.op = "rotate"
      /\ e.op \in {"issue", "rotate"} => e.ttl \in {ShortTtl, LongTtl} /\ e.new # 1
      /\ e.at \in Making \cup {"indexlife"} => e.op \in {"issue", "rotate"} /\ e.new \in KeyIds /\ e.expires <= skNow + e.ttl
      /\ e.at \in {"setsecret", "sadd", "indexlife"} => skMeta[e.new].expires <= e.expires
      /\ e.at = "indexlife" => e.new \in Indexed \/ ~Usable(e.new)
      /\ e.at \in {"members", "list", "drop"} => e.op = "serve"
      /\ e.at = "drop" => e.new \in KeyIds /\ Out(e.new) /\ ~Usable(e.new)
      /\ \A k \in e.left : Out(k)
      /\ e.dead \subseteq skRevoked /\ e.got \cap e.dead = {} /\ (e.at \in Serving => e.key \notin e.dead)
      /\ e.at \in {"rate", "nonce"} => skStamp >= 1 /\ skNow - skStamp <= AuthWindow /\ skStamp - skNow <= AuthWindow
  BY <1>1, <1>2 DEF KeyRequestSound
<1>5. HasNew(x) <=> e.at \in {"setsecret", "sadd", "indexlife", "drop"}
  BY <1>1 DEF HasNew
<1>6. e.at \in Making \cup {"indexlife"} => e.expires <= skNow' + e.ttl
  <2>1. e.at \in Making \cup {"indexlife"} => e.expires <= skNow + e.ttl
    BY <1>4
  <2> QED BY <2>1, <1>3
<1>7. e.at \in {"setsecret", "sadd", "indexlife"} => skMeta'[e.new].expires <= e.expires
  <2> SUFFICES ASSUME e.at \in {"setsecret", "sadd", "indexlife"} PROVE skMeta'[e.new].expires <= e.expires
    OBVIOUS
  <2>1. e.new \in KeyIds /\ skMeta[e.new].expires <= e.expires
    BY <1>4 DEF Making
  <2>2. skMeta'[e.new].expires \in Nat /\ skMeta'[e.new].expires <= skMeta[e.new].expires
    BY <2>1, <1>1, <1>5
  <2> QED BY <2>1, <2>2, <1>3
<1>8. e.at = "indexlife" => e.new \in Indexed' \/ ~Usable(e.new)'
  <2> SUFFICES ASSUME e.at = "indexlife" PROVE e.new \in Indexed' \/ ~Usable(e.new)'
    OBVIOUS
  <2>1. e.new \in KeyIds /\ (e.new \in Indexed \/ ~Usable(e.new))
    BY <1>4
  <2> QED BY <2>1, <1>1, <1>5
<1>9. e.at = "drop" => Out(e.new)' /\ ~Usable(e.new)'
  <2> SUFFICES ASSUME e.at = "drop" PROVE Out(e.new)' /\ ~Usable(e.new)'
    OBVIOUS
  <2>1. e.new \in KeyIds /\ Out(e.new) /\ ~Usable(e.new)
    BY <1>4
  <2> QED BY <2>1, <1>1, <1>5
<1>10. \A k \in e.left : Out(k)'
  BY <1>4
<1>11. e.at \in {"rate", "nonce"} => skStamp' >= 1 /\ skNow' - skStamp' <= AuthWindow /\ skStamp' - skNow' <= AuthWindow
  BY <1>1, <1>4
<1>12. skCalls'[x] = e
  BY <1>1
<1>13. e.dead \subseteq skRevoked' /\ e.got \cap e.dead = {} /\ (e.at \in Serving => e.key \notin e.dead)
  BY <1>4
<1> QED BY <1>4, <1>6, <1>7, <1>8, <1>9, <1>10, <1>11, <1>12, <1>13, KeySoundAfter

\* A key has one maker, and one that is out stays out.
LEMMA KeysStayOut ==
  ASSUME SkInv, NEW c \in KeyCalls, NEW e \in KeyRequests, skCalls' = [skCalls EXCEPT ![c] = e],
         skCalls[c].op \in {"issue", "rotate"} /\ skCalls[c].new \in KeyIds =>
           e.op = skCalls[c].op /\ e.new = skCalls[c].new /\ (skCalls[c].at \notin Making => e.at \notin Making),
         e.op \in {"issue", "rotate"} =>
           \/ e.new = 0 \/ (e.op = skCalls[c].op /\ e.new = skCalls[c].new)
           \/ \A d \in KeyCalls : skCalls[d].new # e.new
  PROVE  /\ \A k : Out(k) => Out(k)'
         /\ \A x, y \in KeyCalls, k \in KeyIds : Makes(x, k)' /\ Makes(y, k)' => x = y
<1>1. skCalls'[c] = e /\ \A x \in KeyCalls : x # c => skCalls'[x] = skCalls[x]
  BY DEF SkInv, SkTypes
<1>2. 0 \notin KeyIds
  BY StagingKeysAssumption
<1>3. \A k : Out(k) => Out(k)'
  BY <1>1 DEF Out, Makes
<1>4. \A x, y \in KeyCalls, k \in KeyIds : Makes(x, k) /\ Makes(y, k) => x = y
  BY DEF SkInv, KeysOwned
<1>5. \A x, y \in KeyCalls, k \in KeyIds : Makes(x, k)' /\ Makes(y, k)' => x = y
  <2> SUFFICES ASSUME NEW x \in KeyCalls, NEW y \in KeyCalls, NEW k \in KeyIds, Makes(x, k)', Makes(y, k)', x # y PROVE FALSE
    OBVIOUS
  <2>1. ASSUME NEW z \in KeyCalls, z # c, Makes(c, k)', Makes(z, k)' PROVE FALSE
    <3>1. e.op \in {"issue", "rotate"} /\ e.new = k /\ Makes(z, k) /\ skCalls[z].new = k
      BY <2>1, <1>1 DEF Makes
    <3>2. e.op = skCalls[c].op /\ e.new = skCalls[c].new
      BY <3>1, <1>2
    <3> QED BY <3>1, <3>2, <2>1, <1>4 DEF Makes
  <2>2. CASE x # c /\ y # c
    BY <2>2, <1>1, <1>4 DEF Makes
  <2> QED BY <2>1, <2>2
<1> QED BY <1>3, <1>5

\* A step of one request.
LEMMA KeyChanges ==
  ASSUME SkInv, SkTypes', NEW c \in KeyCalls, NEW e \in KeyRequests, skCalls' = [skCalls EXCEPT ![c] = e],
         skCalls[c].op \in {"issue", "rotate"} /\ skCalls[c].new \in KeyIds =>
           e.op = skCalls[c].op /\ e.new = skCalls[c].new /\ (skCalls[c].at \notin Making => e.at \notin Making),
         e.op \in {"issue", "rotate"} =>
           \/ e.new = 0 \/ (e.op = skCalls[c].op /\ e.new = skCalls[c].new)
           \/ \A d \in KeyCalls : skCalls[d].new # e.new,
         skNow' = skNow, skRevoked \subseteq skRevoked', skStamp >= 1 => skStamp' = skStamp,
         \A x \in KeyCalls, k \in KeyIds : x # c /\ HasNew(x) /\ k = skCalls[x].new =>
           /\ skMeta'[k].expires <= skMeta[k].expires /\ (Usable(k)' => Usable(k))
           /\ k \in Indexed => k \in Indexed' \/ ~Usable(k)',
         KeyRequestSound(c)', Graves', IndexSound', LiveKeysListed', PinSound', NonceSound',
         1 \in skIssued' /\ \A k \in skIssued' \cup skIndex'.ids : Out(k)'
  PROVE  SkInv'
<1>1. \A k : Out(k) => Out(k)'
  BY KeysStayOut
<1>2. \A x \in KeyCalls : x # c => skCalls'[x] = skCalls[x]
  OBVIOUS
<1>3. \A x \in KeyCalls : KeyRequestSound(x)'
  <2> SUFFICES ASSUME NEW x \in KeyCalls, x # c PROVE KeyRequestSound(x)'
    OBVIOUS
  <2>1. skCalls'[x] = skCalls[x]
    BY <1>2
  <2>2. \A k \in KeyIds : skMeta'[k].expires \in Nat
    BY DEF SkTypes, KeyRecords
  <2>3. \A k \in KeyIds : HasNew(x) /\ k = skCalls[x].new =>
          /\ skMeta'[k].expires \in Nat /\ skMeta'[k].expires <= skMeta[k].expires /\ (Usable(k)' => Usable(k))
          /\ k \in Indexed => k \in Indexed' \/ ~Usable(k)'
    BY <2>2
  <2> QED BY <1>1, <2>1, <2>3, KeyOthersSound
<1>4. KeysOwned'
  BY KeysStayOut DEF KeysOwned, SkInv
<1> QED BY <1>3, <1>4 DEF SkInv

\* One that leaves the keys and their index as they are.
LEMMA KeyGoesOn ==
  ASSUME SkInv, SkTypes', NEW c \in KeyCalls, NEW e \in KeyRequests, skCalls' = [skCalls EXCEPT ![c] = e],
         skCalls[c].op \in {"issue", "rotate"} /\ skCalls[c].new \in KeyIds =>
           e.op = skCalls[c].op /\ e.new = skCalls[c].new /\ (skCalls[c].at \notin Making => e.at \notin Making),
         e.op \in {"issue", "rotate"} =>
           \/ e.new = 0 \/ (e.op = skCalls[c].op /\ e.new = skCalls[c].new)
           \/ \A d \in KeyCalls : skCalls[d].new # e.new,
         UNCHANGED <<skNow, skMeta, skSecret, skIndex, skIssued, skRevoked, skDropped, skShortened>>,
         skStamp >= 1 => skStamp' = skStamp, PinSound', NonceSound',
         e.at \in Asking \cup {"get"} => e.new = 0 /\ e.op \in {"issue", "rotate", "revoke"},
         e.at \in Asking => e.op # "revoke",
         e.op \in {"revoke", "rotate"} \/ e.at \in {"entomb", "delsecret"} => e.key = 1,
         e.at = "getagain" => e.op = "rotate",
         e.op \in {"issue", "rotate"} => e.ttl \in {ShortTtl, LongTtl} /\ e.new # 1,
         e.at = "setmeta" => e.op \in {"issue", "rotate"} /\ e.new \in KeyIds /\ e.expires <= skNow + e.ttl,
         e.at \notin {"setsecret", "sadd", "indexlife", "drop"},
         e.at \in {"members", "list"} => e.op = "serve",
         \A k \in e.left : Out(k),
         e.dead \subseteq skRevoked /\ e.got \cap e.dead = {} /\ (e.at \in Serving => e.key \notin e.dead),
         e.at \in {"rate", "nonce"} => skStamp' >= 1 /\ skNow - skStamp' <= AuthWindow /\ skStamp' - skNow <= AuthWindow
  PROVE  SkInv'
<1>1. \A k : Out(k) => Out(k)'
  BY KeysStayOut
<1>2. skCalls'[c] = e
  BY DEF SkInv, SkTypes
<1>3. \A k : Usable(k)' = Usable(k)
  BY DEF Usable, Kept, IsThere
<1>4. Indexed' = Indexed
  BY DEF Indexed
<1>5. KeyRequestSound(c)'
  <2>1. e.at \in Making \cup {"indexlife"} => e.at = "setmeta"
    BY DEF Making
  <2>2. \A k \in e.left : Out(k)'
    BY <1>1
  <2> QED BY <1>2, <2>1, <2>2, KeySoundAfter
<1>6. Graves' /\ IndexSound' /\ LiveKeysListed'
  BY DEF SkInv, Graves, IndexSound, LiveKeysListed, Usable, Kept, IsThere
<1>7. 1 \in skIssued' /\ \A k \in skIssued' \cup skIndex'.ids : Out(k)'
  BY <1>1 DEF SkInv, KeysOwned
<1>8. \A k \in KeyIds : skMeta[k].expires \in Nat
  BY DEF SkInv, SkTypes, KeyRecords
<1>9. \A x \in KeyCalls, k \in KeyIds : x # c /\ HasNew(x) /\ k = skCalls[x].new =>
        /\ skMeta'[k].expires <= skMeta[k].expires /\ (Usable(k)' => Usable(k))
        /\ k \in Indexed => k \in Indexed' \/ ~Usable(k)'
  BY <1>3, <1>4, <1>8
<1> QED BY <1>5, <1>6, <1>7, <1>9, KeyChanges

LEMMA PinKept ==
  ASSUME SkInv, NEW c \in KeyCalls, NEW e, skCalls' = [skCalls EXCEPT ![c] = e],
         UNCHANGED <<skNow, skPin>>, skDead \subseteq skDead', skCalls[c].at # "pinlife" \/ "pinlife" \in skDead'
  PROVE  PinSound'
<1>1. \A x \in KeyCalls : x # c => skCalls'[x] = skCalls[x]
  BY DEF SkInv, SkTypes
<1>2. ASSUME "pinlife" \in skDead \cup {skCalls[x].at : x \in KeyCalls}
      PROVE  "pinlife" \in skDead' \cup {skCalls'[x].at : x \in KeyCalls}
  <2>1. CASE "pinlife" \in skDead
    BY <2>1
  <2>2. CASE \E x \in KeyCalls : skCalls[x].at = "pinlife"
    BY <2>2, <1>1
  <2> QED BY <1>2, <2>1, <2>2
<1> QED BY <1>2 DEF SkInv, PinSound, PinCounterEnds

\* One that only goes on, to no command of its own making.
LEMMA KeyGoes ==
  ASSUME SkInv, NEW c \in KeyCalls, NEW a, a \in KeyAts, Go(c, a),
         UNCHANGED <<skNow, skMeta, skSecret, skIndex, skIssued, skRevoked, skDropped, skShortened>>,
         skStamp >= 1 => skStamp' = skStamp, PinSound', NonceSound',
         skPin' \in [count : Nat, until : Nat], skNonce' \in Nat, skStamp' \in Stamps /\ skFirst' \in Nat, skServed' \in Nat,
         a \notin Making \cup {"indexlife", "drop", "members", "list", "get"},
         a \in Asking => skCalls[c].new = 0 /\ skCalls[c].op \in {"issue", "rotate"},
         a \in {"entomb", "delsecret"} => skCalls[c].key = 1, a # "getagain",
         a \in Serving => skCalls[c].key \notin skCalls[c].dead,
         a \in {"rate", "nonce"} => skStamp' >= 1 /\ skNow - skStamp' <= AuthWindow /\ skStamp' - skNow <= AuthWindow
  PROVE  SkInv'
<1>1. PICK r \in KeyRequests : r = skCalls[c]
  BY DEF SkInv, SkTypes
<1> DEFINE f == [r EXCEPT !.at = a]
<1>2. /\ f \in KeyRequests /\ f.at = a /\ f.op = r.op /\ f.key = r.key /\ f.new = r.new /\ f.ttl = r.ttl
      /\ f.left = r.left /\ f.got = r.got /\ f.dead = r.dead
  BY DEF KeyRequests
<1>3. skCalls' = [skCalls EXCEPT ![c] = f]
  BY <1>1 DEF Go
<1>4. PICK e \in KeyRequests : e = f
  BY <1>2
<1> HIDE DEF f
<1>5. skCalls' = [skCalls EXCEPT ![c] = e] /\ skCalls' \in [KeyCalls -> KeyRequests]
  BY <1>3, <1>4 DEF SkInv, SkTypes
<1>6. SkTypes'
  BY <1>5 DEF SkInv, SkTypes
<1>7. KeyRequestSound(c)
  BY DEF SkInv
<1>8. /\ e.op \in {"issue", "rotate"} => e.ttl \in {ShortTtl, LongTtl} /\ e.new # 1
      /\ \A k \in e.left : Out(k)
      /\ e.dead \subseteq skRevoked /\ e.got \cap e.dead = {}
      /\ e.op \in {"revoke", "rotate"} => e.key = 1
  BY <1>1, <1>2, <1>4, <1>7 DEF KeyRequestSound
<1>9. /\ e.at \in Asking \cup {"get"} => e.new = 0 /\ e.op \in {"issue", "rotate", "revoke"} /\ e.op # "revoke"
      /\ e.at \in {"entomb", "delsecret"} => e.key = 1
      /\ e.at \notin {"getagain"} /\ e.at \notin {"setmeta", "setsecret", "sadd", "indexlife", "drop", "members", "list"}
      /\ e.at \in Serving => e.key \notin e.dead
      /\ e.at \in {"rate", "nonce"} => skStamp' >= 1 /\ skNow - skStamp' <= AuthWindow /\ skStamp' - skNow <= AuthWindow
  BY <1>1, <1>2, <1>4 DEF Making
<1>10. /\ e.op = skCalls[c].op /\ e.new = skCalls[c].new /\ e.at \notin Making
  BY <1>1, <1>2, <1>4
<1> QED BY <1>5, <1>6, <1>8, <1>9, <1>10, KeyGoesOn

\* The steps of a request that asks, and of one that is served.
LEMMA KeyAsks ==
  ASSUME SkInv, NEW c \in KeyCalls,
         \/ PinIncr(c) \/ PinLife(c) \/ ReadKey(c) \/ ReadAgain(c) \/ LoadSecret(c)
         \/ CheckStamp(c) \/ TakeRate(c) \/ ClaimNonce(c) \/ SkStop(c)
  PROVE  SkInv'
<1>t. /\ skNow \in 1..MaxTime /\ skPin \in [count : Nat, until : Nat] /\ skNonce \in Nat /\ skStamp \in Stamps /\ skFirst \in Nat
      /\ skServed \in Nat /\ skCalls \in [KeyCalls -> KeyRequests]
  BY DEF SkInv, SkTypes
<1>i. KeyRequestSound(c) /\ PinSound /\ NonceSound
  BY DEF SkInv
<1>n. skNow \in Nat /\ skNow <= MaxTime /\ Never \in Nat /\ Never > MaxTime + PinWindow /\ MaxTime \in Nat /\ PinWindow \in Nat
  BY <1>t, StagingKeysAssumption DEF Never
<1>p. ASSUME NEW a, Go(c, a), UNCHANGED <<skNow, skPin>>, skDead \subseteq skDead', skCalls[c].at # "pinlife" \/ "pinlife" \in skDead'
      PROVE  PinSound'
  BY <1>p, PinKept DEF Go
<1>s. UNCHANGED <<skServed, skNonce, skNow, skStamp, skFirst>> => NonceSound'
  BY <1>i DEF NonceSound, ServedOnce
<1>1. CASE PinIncr(c)
  <2>1. PICK a : a = CASE skPin'.count = 1 -> "pinlife" [] skPin'.count > PinLimit -> "limited" [] OTHER -> "pincheck"
    OBVIOUS
  <2>2. /\ skCalls[c].at = "pin" /\ skPin' = Counted(skPin) /\ Go(c, a)
        /\ UNCHANGED <<skNow, skMeta, skSecret, skIndex, skIssued, skRevoked, skDropped, skShortened, skNonce, skStamp, skFirst, skServed, skDead>>
    BY <1>1, <2>1 DEF PinIncr, RestKept
  <2>3. /\ skPin' \in [count : Nat, until : Nat] /\ skPin'.count >= 1
        /\ skPin.until > skNow => skPin'.count > 1 /\ skPin'.until = skPin.until
        /\ ~(skPin.until > skNow) => skPin'.count = 1
    <3>1. CASE skPin.until <= skNow
      <4>1. skPin' = [count |-> 1, until |-> Never] /\ ~(skPin.until > skNow)
        BY <3>1, <2>2, <1>t, <1>n DEF Counted
      <4> QED BY <4>1, <1>n
    <3>2. CASE ~(skPin.until <= skNow)
      <4>1. skPin' = [skPin EXCEPT !.count = skPin.count + 1] /\ skPin.until > skNow
        BY <3>2, <2>2, <1>t, <1>n DEF Counted
      <4>2. skPin.count >= 1 /\ skPin.count \in Nat
        BY <4>1, <1>t, <1>i DEF PinSound
      <4>3. skPin'.count = skPin.count + 1 /\ skPin'.until = skPin.until /\ skPin' \in [count : Nat, until : Nat]
        BY <4>1, <4>2, <1>t
      <4> QED BY <4>1, <4>2, <4>3
    <3> QED BY <3>1, <3>2
  <2>4. a \in {"pinlife", "limited", "pincheck"} /\ (skPin'.count = 1 => a = "pinlife")
    <3>1. ~(skPin'.count = 1 /\ skPin'.count > PinLimit)
      BY <2>3, StagingKeysAssumption
    <3> QED BY <3>1, <2>1
  <2>5. PinSound'
    <3>1. CASE skPin.until > skNow
      <4>1. skPin'.until = Never => skPin.until = Never
        BY <3>1, <2>3
      <4>2. skPin.until = Never => "pinlife" \in skDead \cup {skCalls[x].at : x \in KeyCalls}
        BY <1>i DEF PinSound, PinCounterEnds
      <4>3. \A x \in KeyCalls : skCalls[x].at = "pinlife" => skCalls'[x].at = "pinlife"
        BY <2>2, <1>t DEF Go
      <4>4. skPin'.until = Never => "pinlife" \in skDead' \cup {skCalls'[x].at : x \in KeyCalls}
        BY <4>1, <4>2, <4>3, <2>2
      <4> QED BY <4>4, <2>3 DEF PinSound, PinCounterEnds
    <3>2. CASE ~(skPin.until > skNow)
      <4>1. skCalls'[c].at = "pinlife"
        BY <3>2, <2>2, <2>3, <2>4, <1>t DEF Go, KeyRequests
      <4> QED BY <4>1, <2>3 DEF PinSound, PinCounterEnds
    <3> QED BY <3>1, <3>2
  <2>6. skCalls[c].new = 0 /\ skCalls[c].op \in {"issue", "rotate"}
    BY <2>2, <1>i DEF KeyRequestSound, Asking
  <2>7. a \in KeyAts /\ a \notin Making \cup {"indexlife", "drop", "members", "list", "get"} /\ a \notin Serving
    BY <2>4 DEF KeyAts, Asking, Making, Serving
  <2>8. NonceSound'
    BY <2>2, <1>s
  <2> QED BY <2>2, <2>3, <2>4, <2>5, <2>6, <2>7, <2>8, <1>t, KeyGoes
<1>2. CASE PinLife(c)
  <2>1. /\ skCalls[c].at = "pinlife" /\ Go(c, "pincheck")
        /\ skPin' = IF skPin.until > skNow THEN [skPin EXCEPT !.until = skNow + PinWindow] ELSE skPin
        /\ UNCHANGED <<skNow, skMeta, skSecret, skIndex, skIssued, skRevoked, skDropped, skShortened, skNonce, skStamp, skFirst, skServed, skDead>>
    BY <1>2 DEF PinLife, RestKept
  <2>2. skPin' \in [count : Nat, until : Nat] /\ skPin'.until # Never /\ (skPin'.until > skNow => skPin'.count >= 1)
    <3>1. CASE skPin.until > skNow
      <4>1. skPin' = [skPin EXCEPT !.until = skNow + PinWindow] /\ skPin.count >= 1 /\ skNow + PinWindow \in Nat
        BY <3>1, <2>1, <1>i, <1>n DEF PinSound
      <4>2. skPin'.until = skNow + PinWindow /\ skPin'.count = skPin.count /\ skPin' \in [count : Nat, until : Nat]
        BY <4>1, <1>t
      <4> QED BY <4>1, <4>2, <1>n
    <3>2. CASE ~(skPin.until > skNow)
      <4>1. skPin' = skPin /\ skPin.until \in Nat
        BY <3>2, <2>1, <1>t
      <4> QED BY <4>1, <3>2, <1>n, <1>t
    <3> QED BY <3>1, <3>2
  <2>3. PinSound'
    BY <2>1, <2>2 DEF PinSound, PinCounterEnds
  <2>4. skCalls[c].new = 0 /\ skCalls[c].op \in {"issue", "rotate"}
    BY <2>1, <1>i DEF KeyRequestSound, Asking
  <2>5. "pincheck" \in KeyAts /\ "pincheck" \notin Making \cup {"indexlife", "drop", "members", "list", "get"} /\ "pincheck" \notin Serving
    BY DEF KeyAts, Asking, Making, Serving
  <2>6. NonceSound'
    BY <2>1, <1>s
  <2> QED BY <2>1, <2>2, <2>3, <2>4, <2>5, <2>6, <1>t, KeyGoes
\* The rest leave the PIN's counter alone.
<1>g. ASSUME NEW a, a \in KeyAts, Go(c, a), skCalls[c].at # "pinlife" \/ "pinlife" \in skDead', skDead \subseteq skDead',
             UNCHANGED <<skNow, skMeta, skSecret, skIndex, skIssued, skRevoked, skDropped, skShortened, skPin>>,
             skStamp >= 1 => skStamp' = skStamp, NonceSound',
             skNonce' \in Nat, skStamp' \in Stamps /\ skFirst' \in Nat, skServed' \in Nat,
             a \notin Making \cup {"indexlife", "drop", "members", "list", "get"},
             a \in Asking => skCalls[c].new = 0 /\ skCalls[c].op \in {"issue", "rotate"},
             a \in {"entomb", "delsecret"} => skCalls[c].key = 1, a # "getagain",
             a \in Serving => skCalls[c].key \notin skCalls[c].dead,
             a \in {"rate", "nonce"} => skStamp' >= 1 /\ skNow - skStamp' <= AuthWindow /\ skStamp' - skNow <= AuthWindow
      PROVE  SkInv'
  <2>1. PinSound'
    BY <1>g, <1>p
  <2>2. skPin' \in [count : Nat, until : Nat]
    BY <1>g, <1>t
  <2> QED BY <1>g, <2>1, <2>2, KeyGoes
<1>3. CASE ReadKey(c)
  <2>1. PICK a : a = CASE ~IsThere(skCalls[c].key) \/ (skCalls[c].op # "revoke" /\ skMeta[skCalls[c].key].revoked) -> "unknown"
                       [] IsThere(skCalls[c].key) /\ skCalls[c].op = "revoke" -> "entomb"
                       [] OTHER -> "pin"
    OBVIOUS
  <2>2. /\ skCalls[c].at = "get" /\ Go(c, a)
        /\ UNCHANGED <<skNow, skMeta, skSecret, skIndex, skIssued, skRevoked, skDropped, skShortened, skPin, skNonce, skStamp, skFirst, skServed, skDead>>
    BY <1>3, <2>1 DEF ReadKey, RestKept
  <2>3. a \in {"unknown", "entomb", "pin"} /\ (a = "pin" => skCalls[c].op # "revoke")
    BY <2>1
  <2>4. skCalls[c].new = 0 /\ skCalls[c].op \in {"issue", "rotate", "revoke"}
    BY <2>2, <1>i DEF KeyRequestSound
  <2>7. a = "entomb" => skCalls[c].key = 1
    <3>1. skCalls[c].op = "revoke" => skCalls[c].key = 1
      BY <1>i DEF KeyRequestSound
    <3> QED BY <3>1, <2>1
  <2>5. a \in KeyAts /\ a \notin Making \cup {"indexlife", "drop", "members", "list", "get"} /\ a \notin Serving
        /\ (a \in Asking => a = "pin")
    BY <2>3 DEF KeyAts, Asking, Making, Serving
  <2>6. NonceSound'
    BY <2>2, <1>s
  <2> QED BY <2>7, <2>2, <2>3, <2>4, <2>5, <2>6, <1>t, <1>g
<1>4. CASE ReadAgain(c)
  <2>1. PICK a : a = IF IsThere(skCalls[c].key) THEN "entomb" ELSE "answered"
    OBVIOUS
  <2>2. /\ skCalls[c].at = "getagain" /\ Go(c, a) /\ a \in {"entomb", "answered"}
        /\ UNCHANGED <<skNow, skMeta, skSecret, skIndex, skIssued, skRevoked, skDropped, skShortened, skPin, skNonce, skStamp, skFirst, skServed, skDead>>
    BY <1>4, <2>1 DEF ReadAgain, RestKept
  <2>3. skCalls[c].key = 1
    <3>1. skCalls[c].op = "rotate"
      BY <2>2, <1>i DEF KeyRequestSound
    <3>2. skCalls[c].op \in {"revoke", "rotate"} => skCalls[c].key = 1
      BY <1>i DEF KeyRequestSound
    <3> QED BY <3>1, <3>2
  <2>4. a \in KeyAts /\ a \notin Making \cup {"indexlife", "drop", "members", "list", "get"} /\ a \notin Serving /\ a \notin Asking
    BY <2>2 DEF KeyAts, Asking, Making, Serving
  <2>5. NonceSound'
    BY <2>2, <1>s
  <2> QED BY <2>2, <2>3, <2>4, <2>5, <1>t, <1>g
<1>5. CASE LoadSecret(c)
  <2>1. PICK a : a = IF skCalls[c].key \in skCalls[c].got /\ skSecret[skCalls[c].key] > skNow THEN "stamp" ELSE "unknown"
    OBVIOUS
  <2>2. /\ skCalls[c].at = "list" /\ Go(c, a) /\ a \in {"stamp", "unknown"}
        /\ UNCHANGED <<skNow, skMeta, skSecret, skIndex, skIssued, skRevoked, skDropped, skShortened, skPin, skNonce, skStamp, skFirst, skServed, skDead>>
    BY <1>5, <2>1 DEF LoadSecret, RestKept
  <2>3. a = "stamp" => skCalls[c].key \notin skCalls[c].dead
    <3>1. skCalls[c].got \cap skCalls[c].dead = {}
      BY <1>i DEF KeyRequestSound
    <3> QED BY <3>1, <2>1
  <2>4. a \in KeyAts /\ a \notin Making \cup {"indexlife", "drop", "members", "list", "get"} /\ a \notin Asking
        /\ (a \in Serving => a = "stamp")
    BY <2>2 DEF KeyAts, Asking, Making, Serving
  <2>5. NonceSound'
    BY <2>2, <1>s
  <2> QED BY <2>2, <2>3, <2>4, <2>5, <1>t, <1>g
<1>v. skCalls[c].at \in Serving => skCalls[c].key \notin skCalls[c].dead
  BY <1>i DEF KeyRequestSound
<1>6. CASE CheckStamp(c)
  <2>1. PICK s \in IF skStamp = 0 THEN 1..(MaxTime + AuthWindow + 1) ELSE {skStamp} :
          /\ skStamp' = s /\ Go(c, IF Outside(s) THEN "refused" ELSE "rate") /\ skCalls[c].at = "stamp"
          /\ UNCHANGED <<skNow, skMeta, skSecret, skIndex, skIssued, skRevoked, skDropped, skShortened, skPin, skNonce, skFirst, skServed, skDead>>
    BY <1>6 DEF CheckStamp, RestKept
  <2>2. PICK a : a = IF Outside(s) THEN "refused" ELSE "rate"
    OBVIOUS
  <2>3. s \in Stamps /\ s >= 1 /\ (skStamp >= 1 => s = skStamp)
    BY <2>1, <1>t, <1>n, StagingKeysAssumption DEF Stamps
  <2>4. NonceSound'
    BY <2>1, <2>3, <1>i DEF NonceSound, ServedOnce
  <2>5. a = "rate" => skNow - s <= AuthWindow /\ s - skNow <= AuthWindow
    BY <2>2, <2>3, <1>n, StagingKeysAssumption DEF Outside, Stamps
  <2>6. /\ a \in KeyAts /\ a \notin Making \cup {"indexlife", "drop", "members", "list", "get"} /\ a \notin Asking
        /\ a \in {"rate", "refused"}
    BY <2>2 DEF KeyAts, Asking, Making, Serving
  <2>7. skCalls[c].key \notin skCalls[c].dead
    BY <2>1, <1>v DEF Serving
  <2>8. Go(c, a)
    BY <2>1, <2>2
  <2>9. skStamp' \in Stamps /\ skFirst' \in Nat /\ skStamp' >= 1 /\ (skStamp >= 1 => skStamp' = skStamp)
    BY <2>1, <2>3, <1>t
  <2> QED BY <2>1, <2>4, <2>5, <2>6, <2>7, <2>8, <2>9, <1>t, <1>g
<1>7. CASE TakeRate(c)
  <2>1. PICK a : a = IF skRate'.count > RateLimit THEN "limited" ELSE "nonce"
    OBVIOUS
  <2>2. /\ skCalls[c].at = "rate" /\ Go(c, a) /\ a \in {"limited", "nonce"}
        /\ UNCHANGED <<skNow, skMeta, skSecret, skIndex, skIssued, skRevoked, skDropped, skShortened, skPin, skNonce, skStamp, skFirst, skServed, skDead>>
    BY <1>7, <2>1 DEF TakeRate, RestKept
  <2>3. skStamp >= 1 /\ skNow - skStamp <= AuthWindow /\ skStamp - skNow <= AuthWindow
    BY <2>2, <1>i DEF KeyRequestSound
  <2>4. a \in KeyAts /\ a \notin Making \cup {"indexlife", "drop", "members", "list", "get"} /\ a \notin Asking
    BY <2>2 DEF KeyAts, Asking, Making, Serving
  <2>5. NonceSound'
    BY <2>2, <1>s
  <2>6. skCalls[c].key \notin skCalls[c].dead
    BY <2>2, <1>v DEF Serving
  <2> QED BY <2>2, <2>3, <2>4, <2>5, <2>6, <1>t, <1>g
<1>8. CASE ClaimNonce(c)
  <2>1. /\ skCalls[c].at = "nonce"
        /\ \/ skNonce > skNow /\ Go(c, "replayed") /\ UNCHANGED <<skNonce, skServed, skFirst>>
           \/ /\ ~(skNonce > skNow) /\ Go(c, "served") /\ skNonce' = skNow + NonceLife /\ skServed' = skServed + 1
              /\ skFirst' = IF skServed = 0 THEN skNow ELSE skFirst
        /\ UNCHANGED <<skNow, skMeta, skSecret, skIndex, skIssued, skRevoked, skDropped, skShortened, skPin, skStamp, skDead>>
    BY <1>8 DEF ClaimNonce, RestKept
  <2>2. skStamp >= 1 /\ skNow - skStamp <= AuthWindow /\ skStamp - skNow <= AuthWindow /\ skCalls[c].key \notin skCalls[c].dead
    BY <2>1, <1>i, <1>v DEF KeyRequestSound, Serving
  <2>3. \A a \in {"replayed", "served"} :
          a \in KeyAts /\ a \notin Making \cup {"indexlife", "drop", "members", "list", "get"} /\ a \notin Asking
    BY DEF KeyAts, Asking, Making, Serving
  <2>4. CASE skNonce > skNow
    BY <2>4, <2>1, <2>2, <2>3, <1>t, <1>s, <1>g
  <2>5. CASE ~(skNonce > skNow)
    <3>1. NonceLife = AuthWindow + 1 /\ AuthWindow \in Nat /\ skStamp \in Nat /\ NonceLife \in Nat
      BY <1>t, <1>n, StagingKeysAssumption DEF NonceLife, Stamps
    <3>2. /\ skServed > 0 => skFirst + AuthWindow >= skStamp
          /\ skServed = 1 => skNonce >= skFirst + NonceLife \/ skNow >= skFirst + NonceLife
          /\ skServed = 2 => skNonce >= skFirst + 2 * NonceLife \/ skNow >= skFirst + 2 * NonceLife
          /\ skServed > 1 => skServed = 2
      BY <1>i DEF NonceSound, ServedOnce
    <3>3. skServed # 2
      <4>1. skNow < skFirst + 2 * NonceLife \/ skFirst + AuthWindow < skStamp
        BY <3>1, <2>2, <1>t, <1>n
      <4> QED BY <4>1, <3>1, <3>2, <2>5, <1>t, <1>n
    <3>4. skNonce' \in Nat /\ skNonce' > 0 /\ Go(c, "served") /\ skNonce' = skNow + NonceLife /\ skServed' = skServed + 1
      BY <2>1, <2>5, <3>1, <1>n, <1>t
    <3>5. CASE skServed = 0
      <4>1. skServed' = 1 /\ skFirst' = skNow
        BY <3>4, <3>5, <2>1, <2>5
      <4>2. NonceSound'
        <5>1. skFirst' + AuthWindow >= skStamp' /\ skNonce' >= skFirst' + NonceLife /\ skStamp' >= 1
          BY <4>1, <3>1, <3>4, <2>1, <2>2, <1>n
        <5> QED BY <5>1, <4>1 DEF NonceSound, ServedOnce, NonceLife
      <4> QED BY <3>4, <4>1, <4>2, <2>1, <2>2, <2>3, <1>t, <1>n, <1>g
    <3>6. CASE skServed = 1
      <4>1. skServed' = 2 /\ skFirst' = skFirst
        BY <3>4, <3>6, <2>1, <2>5
      <4>2. skNow >= skFirst + NonceLife
        BY <3>1, <3>2, <3>6, <2>5, <1>t, <1>n
      <4>3. NonceSound'
        <5>1. skFirst' < skStamp' /\ skFirst' + AuthWindow >= skStamp' /\ skNonce' >= skFirst' + 2 * NonceLife /\ skStamp' >= 1
          BY <4>1, <4>2, <3>1, <3>2, <3>4, <3>6, <2>1, <2>2, <1>n, <1>t
        <5> QED BY <5>1, <4>1 DEF NonceSound, ServedOnce, NonceLife
      <4> QED BY <3>4, <4>1, <4>3, <2>1, <2>2, <2>3, <1>t, <1>n, <1>g
    <3>7. skServed \in {0, 1}
      BY <3>2, <3>3, <1>t
    <3> QED BY <3>5, <3>6, <3>7
  <2> QED BY <2>4, <2>5
<1>9. CASE SkStop(c)
  <2>1. /\ skDead = {} /\ skDead' = {skCalls[c].at} /\ Go(c, "stopped")
        /\ UNCHANGED <<skNow, skMeta, skSecret, skIndex, skPin, skNonce, skRate, skIssued, skRevoked, skDropped, skShortened, skServed, skStamp, skFirst>>
    BY <1>9 DEF SkStop
  <2>2. "stopped" \in KeyAts /\ "stopped" \notin Making \cup {"indexlife", "drop", "members", "list", "get"} /\ "stopped" \notin Asking
        /\ "stopped" \notin Serving
    BY DEF KeyAts, Asking, Making, Serving
  <2>3. NonceSound'
    BY <2>1, <1>s
  <2> QED BY <2>1, <2>2, <2>3, <1>t, <1>g
<1> QED BY <1>1, <1>2, <1>3, <1>4, <1>5, <1>6, <1>7, <1>8, <1>9

\* The steps that start a request, make a key's name or list the index.
LEMMA KeyStarts ==
  ASSUME SkInv, NEW c \in KeyCalls, (\E op \in {"issue", "revoke", "rotate", "serve"} : SkAsk(c, op)) \/ PinCheck(c) \/ Members(c)
  PROVE  SkInv'
<1>t. /\ skNow \in 1..MaxTime /\ skCalls \in [KeyCalls -> KeyRequests] /\ skRevoked \subseteq KeyIds
      /\ skIndex \in [ids : SUBSET KeyIds, until : Nat]
  BY DEF SkInv, SkTypes
<1>i. KeyRequestSound(c) /\ NonceSound /\ KeysOwned
  BY DEF SkInv
\* What they have in common: nothing is changed but the request.
<1>g. ASSUME NEW e \in KeyRequests, skCalls' = [skCalls EXCEPT ![c] = e],
             UNCHANGED <<skNow, skMeta, skSecret, skIndex, skIssued, skShortened, skRevoked, skDropped, skPin, skNonce, skStamp, skFirst, skServed, skDead>>,
             skCalls[c].at # "pinlife"
      PROVE  SkTypes' /\ PinSound' /\ NonceSound'
  <2>1. skCalls' \in [KeyCalls -> KeyRequests]
    BY <1>g, <1>t
  <2>2. SkTypes'
    BY <2>1, <1>g DEF SkInv, SkTypes
  <2>3. NonceSound'
    BY <1>g, <1>i DEF NonceSound, ServedOnce
  <2> QED BY <2>2, <2>3, <1>g, PinKept
<1>1. ASSUME NEW op \in {"issue", "revoke", "rotate", "serve"}, SkAsk(c, op) PROVE SkInv'
  <2>1. /\ skCalls[c].op = "none"
        /\ UNCHANGED <<skNow, skMeta, skSecret, skIndex, skIssued, skShortened, skRevoked, skDropped, skPin, skNonce, skStamp, skFirst, skServed, skDead>>
    BY <1>1 DEF SkAsk, RestKept
  <2>2. PICK e \in KeyRequests :
          /\ skCalls' = [skCalls EXCEPT ![c] = e] /\ e.op = op /\ e.new = 0 /\ e.left = {} /\ e.got = {} /\ e.dead \subseteq skRevoked
          /\ op = "issue" => e.at = "pin"
          /\ op \in {"revoke", "rotate"} => e.at = "get" /\ e.key = 1
          /\ op = "serve" => e.at = "members"
          /\ op # "serve" => e.ttl \in {ShortTtl, LongTtl}
    <3>1. 1 \in KeyIds /\ ShortTtl \in Nat /\ LongTtl \in Nat
      BY StagingKeysAssumption
    <3>2. CASE op = "issue"
      <4>1. PICK ttl \in {ShortTtl, LongTtl} : skCalls' = [skCalls EXCEPT ![c] = [SkIdle EXCEPT !.op = op, !.at = "pin", !.ttl = ttl]]
        BY <3>2, <1>1 DEF SkAsk
      <4>2. PICK e : e = [SkIdle EXCEPT !.op = op, !.at = "pin", !.ttl = ttl]
        OBVIOUS
      <4>3. e \in KeyRequests /\ e.op = op /\ e.at = "pin" /\ e.ttl = ttl /\ e.new = 0 /\ e.left = {} /\ e.got = {} /\ e.dead = {}
        BY <4>2, <3>1 DEF SkIdle, KeyRequests, KeyAts, Asking
      <4> QED BY <4>1, <4>2, <4>3, <3>2
    <3>3. CASE op \in {"revoke", "rotate"}
      <4>1. PICK ttl \in {ShortTtl, LongTtl} :
              skCalls' = [skCalls EXCEPT ![c] = [SkIdle EXCEPT !.op = op, !.at = "get", !.key = 1, !.ttl = ttl]]
        BY <3>3, <1>1 DEF SkAsk
      <4>2. PICK e : e = [SkIdle EXCEPT !.op = op, !.at = "get", !.key = 1, !.ttl = ttl]
        OBVIOUS
      <4>3. /\ e \in KeyRequests /\ e.op = op /\ e.at = "get" /\ e.key = 1 /\ e.ttl = ttl /\ e.new = 0 /\ e.left = {}
            /\ e.got = {} /\ e.dead = {}
        BY <4>2, <3>1 DEF SkIdle, KeyRequests, KeyAts
      <4> QED BY <4>1, <4>2, <4>3, <3>3
    <3>4. CASE op = "serve"
      <4>1. skCalls' = [skCalls EXCEPT ![c] = [SkIdle EXCEPT !.op = op, !.at = "members", !.key = 1, !.dead = skRevoked]]
        BY <3>4, <1>1 DEF SkAsk
      <4>2. PICK e : e = [SkIdle EXCEPT !.op = op, !.at = "members", !.key = 1, !.dead = skRevoked]
        OBVIOUS
      <4>3. /\ e \in KeyRequests /\ e.op = op /\ e.at = "members" /\ e.new = 0 /\ e.left = {} /\ e.got = {} /\ e.dead = skRevoked
        BY <4>2, <3>1, <1>t DEF SkIdle, KeyRequests, KeyAts
      <4> QED BY <4>1, <4>2, <4>3, <3>4
    <3> QED BY <3>2, <3>3, <3>4
  <2>3. skCalls[c].at # "pinlife"
    BY <2>1, <1>i DEF KeyRequestSound, Asking
  <2>4. SkTypes' /\ PinSound' /\ NonceSound'
    BY <1>g, <2>1, <2>2, <2>3
  <2>5. ShortTtl \in Nat \ {0} /\ LongTtl \in Nat
    BY StagingKeysAssumption
  <2>6. /\ e.at \in {"pin", "get", "members"} /\ (e.at = "pin" => e.op = "issue") /\ (e.at = "members" => e.op = "serve")
        /\ (e.at = "get" => e.op \in {"revoke", "rotate"} /\ e.key = 1)
    BY <2>2
  <2>7. /\ e.at \in Asking \cup {"get"} => e.new = 0 /\ e.op \in {"issue", "rotate", "revoke"}
        /\ e.at \in Asking => e.op # "revoke"
        /\ e.op \in {"revoke", "rotate"} \/ e.at \in {"entomb", "delsecret"} => e.key = 1
        /\ e.at # "getagain"
        /\ e.op \in {"issue", "rotate"} => e.ttl \in {ShortTtl, LongTtl} /\ e.new # 1
        /\ e.at \notin {"setmeta", "setsecret", "sadd", "indexlife", "drop", "rate", "nonce"} /\ e.at \notin Serving
        /\ e.at \in {"members", "list"} => e.op = "serve"
    BY <2>2, <2>6 DEF Asking, Serving
  <2> QED BY <2>1, <2>2, <2>4, <2>7, KeyGoesOn
<1>2. CASE PinCheck(c)
  <2>1. /\ skCalls[c].at = "pincheck"
        /\ UNCHANGED <<skNow, skMeta, skSecret, skIndex, skIssued, skShortened, skRevoked, skDropped, skPin, skNonce, skStamp, skFirst, skServed, skDead>>
    BY <1>2 DEF PinCheck, RestKept
  <2>2. skCalls[c].new = 0 /\ skCalls[c].op \in {"issue", "rotate"} /\ skCalls[c].ttl \in {ShortTtl, LongTtl}
    BY <2>1, <1>i DEF KeyRequestSound, Asking
  <2>3. CASE Go(c, "refused")
    <3>1. "refused" \in KeyAts /\ "refused" \notin Making \cup {"indexlife", "drop", "members", "list", "get"} /\ "refused" \notin Asking
          /\ "refused" \notin Serving
      BY DEF KeyAts, Asking, Making, Serving
    <3>2. PinSound'
      BY <2>1, <2>3, PinKept DEF Go
    <3>3. NonceSound'
      BY <2>1, <1>i DEF NonceSound, ServedOnce
    <3>4. skPin' \in [count : Nat, until : Nat] /\ skNonce' \in Nat /\ skStamp' \in Stamps /\ skFirst' \in Nat /\ skServed' \in Nat
      BY <2>1 DEF SkInv, SkTypes
    <3> QED BY <2>1, <2>3, <3>1, <3>2, <3>3, <3>4, KeyGoes
  <2>4. ASSUME NEW k \in FreshKeys,
               skCalls' = [skCalls EXCEPT ![c].at = "setmeta", ![c].new = k, ![c].expires = skNow + skCalls[c].ttl]
        PROVE  SkInv'
    <3>1. k \in KeyIds /\ k # 1 /\ \A d \in KeyCalls : skCalls[d].new # k
      BY <1>i DEF FreshKeys, KeysOwned
    <3>2. PICK r \in KeyRequests : r = skCalls[c]
      BY <1>t
    <3> DEFINE f == [[[r EXCEPT !.at = "setmeta"] EXCEPT !.new = k] EXCEPT !.expires = skNow + r.ttl]
    <3>3. skNow + r.ttl \in Nat
      BY <1>t, StagingKeysAssumption DEF KeyRequests
    <3>4. /\ f \in KeyRequests /\ f.at = "setmeta" /\ f.new = k /\ f.expires = skNow + r.ttl /\ f.op = r.op /\ f.key = r.key /\ f.ttl = r.ttl
          /\ f.left = r.left /\ f.got = r.got /\ f.dead = r.dead
      BY <3>1, <3>3 DEF KeyRequests, KeyAts, Making
    <3>5. skCalls' = [skCalls EXCEPT ![c] = f]
      BY <2>4, <3>2, <1>t DEF KeyRequests
    <3>6. PICK e \in KeyRequests : e = f
      BY <3>4
    <3> HIDE DEF f
    <3>7. skCalls' = [skCalls EXCEPT ![c] = e]
      BY <3>5, <3>6
    <3>8. SkTypes' /\ PinSound' /\ NonceSound'
      BY <1>g, <2>1, <3>7
    <3>13. e.op \in {"revoke", "rotate"} => e.key = 1
      BY <1>i, <3>2, <3>4, <3>6 DEF KeyRequestSound
    <3>9. (\A l \in e.left : Out(l)) /\ e.dead \subseteq skRevoked /\ e.got \cap e.dead = {}
      BY <1>i, <3>2, <3>4, <3>6 DEF KeyRequestSound
    <3>10. skCalls[c].new \notin KeyIds
      BY <2>2, StagingKeysAssumption
    <3>11. /\ e.at = "setmeta" /\ e.op \in {"issue", "rotate"} /\ e.new = k /\ e.ttl \in {ShortTtl, LongTtl} /\ e.expires <= skNow + e.ttl
      BY <2>2, <3>2, <3>3, <3>4, <3>6
    <3>12. "setmeta" \notin Asking \cup {"get"} /\ "setmeta" \notin Serving
      BY DEF Asking, Serving
    <3> QED BY <2>1, <3>1, <3>7, <3>8, <3>9, <3>10, <3>11, <3>12, <3>13, KeyGoesOn
  <2> QED BY <1>2, <2>3, <2>4 DEF PinCheck
<1>3. CASE Members(c)
  <2>1. PICK r \in KeyRequests : r = skCalls[c]
    BY <1>t
  <2> DEFINE ids == IF skIndex.until > skNow THEN skIndex.ids ELSE {}
             f == [[r EXCEPT !.at = "list"] EXCEPT !.left = ids]
  <2>2. /\ r.at = "members" /\ skCalls' = [skCalls EXCEPT ![c].at = "list", ![c].left = ids]
        /\ UNCHANGED <<skNow, skMeta, skSecret, skIndex, skIssued, skShortened, skRevoked, skDropped, skPin, skNonce, skStamp, skFirst, skServed, skDead>>
    BY <1>3, <2>1 DEF Members, RestKept
  <2>3. ids \subseteq KeyIds /\ \A k \in ids : Out(k)
    BY <1>t, <1>i DEF KeysOwned
  <2>4. skCalls' = [skCalls EXCEPT ![c] = f]
    BY <2>1, <2>2, <1>t DEF KeyRequests
  <2> HIDE DEF ids
  <2>5. /\ f \in KeyRequests /\ f.at = "list" /\ f.left = ids /\ f.op = r.op /\ f.new = r.new /\ f.ttl = r.ttl
        /\ f.got = r.got /\ f.dead = r.dead
    BY <2>3 DEF KeyRequests, KeyAts
  <2>6. PICK e \in KeyRequests : e = f
    BY <2>5
  <2> HIDE DEF f
  <2>7. skCalls' = [skCalls EXCEPT ![c] = e]
    BY <2>4, <2>6
  <2>8. SkTypes' /\ PinSound' /\ NonceSound'
    BY <1>g, <2>1, <2>2, <2>7
  <2>9. /\ e.op = "serve" /\ e.dead \subseteq skRevoked /\ e.got \cap e.dead = {}
    BY <1>i, <2>1, <2>2, <2>5, <2>6 DEF KeyRequestSound
  <2>10. "list" \notin Asking \cup {"get"} /\ "list" \notin Serving /\ e.at = "list" /\ \A k \in e.left : Out(k)
    BY <2>3, <2>5, <2>6 DEF Asking, Serving
  <2>11. skCalls[c].op = "serve"
    BY <2>1, <2>5, <2>6, <2>9
  <2> QED BY <2>2, <2>7, <2>8, <2>9, <2>10, <2>11, KeyGoesOn
<1> QED BY <1>1, <1>2, <1>3


\* A request that moves on keeps all else.
LEMMA KeyMoves ==
  ASSUME SkInv, NEW c \in KeyCalls, NEW a \in KeyAts, Go(c, a)
  PROVE  \E e \in KeyRequests :
           /\ skCalls' = [skCalls EXCEPT ![c] = e] /\ skCalls'[c] = e /\ skCalls' \in [KeyCalls -> KeyRequests] /\ e.at = a
           /\ e.op = skCalls[c].op /\ e.key = skCalls[c].key /\ e.new = skCalls[c].new /\ e.ttl = skCalls[c].ttl
           /\ e.expires = skCalls[c].expires /\ e.left = skCalls[c].left /\ e.got = skCalls[c].got /\ e.dead = skCalls[c].dead
<1>1. PICK r \in KeyRequests : r = skCalls[c]
  BY DEF SkInv, SkTypes
<1> DEFINE f == [r EXCEPT !.at = a]
<1>2. /\ f \in KeyRequests /\ f.at = a /\ f.op = r.op /\ f.key = r.key /\ f.new = r.new /\ f.ttl = r.ttl
      /\ f.expires = r.expires /\ f.left = r.left /\ f.got = r.got /\ f.dead = r.dead
  BY DEF KeyRequests
<1>3. skCalls' = [skCalls EXCEPT ![c] = f]
  BY <1>1 DEF Go
<1> HIDE DEF f
<1>4. skCalls' \in [KeyCalls -> KeyRequests] /\ skCalls'[c] = f
  BY <1>2, <1>3 DEF SkInv, SkTypes
<1> QED BY <1>1, <1>2, <1>3, <1>4

\* A key in the making is nobody else's, and not yet out.
LEMMA MakingAlone ==
  ASSUME SkInv, NEW c \in KeyCalls, skCalls[c].at \in Making
  PROVE  /\ skCalls[c].op \in {"issue", "rotate"} /\ skCalls[c].new \in KeyIds /\ skCalls[c].new # 1
         /\ skCalls[c].ttl \in {ShortTtl, LongTtl} /\ skCalls[c].expires <= skNow + skCalls[c].ttl
         /\ skCalls[c].new \notin skIssued /\ skCalls[c].new \notin skIndex.ids
         /\ \A x \in KeyCalls : x # c /\ HasNew(x) => skCalls[x].new # skCalls[c].new
<1> DEFINE k == skCalls[c].new
<1>1. /\ skCalls[c].op \in {"issue", "rotate"} /\ k \in KeyIds /\ k # 1
      /\ skCalls[c].ttl \in {ShortTtl, LongTtl} /\ skCalls[c].expires <= skNow + skCalls[c].ttl
  BY DEF SkInv, KeyRequestSound
<1>2. Makes(c, k)
  BY <1>1 DEF Makes
<1>3. \A x \in KeyCalls : Makes(x, k) => x = c
  BY <1>1, <1>2 DEF SkInv, KeysOwned
<1>4. ~Out(k)
  BY <1>1, <1>3 DEF Out
<1>5. ASSUME NEW x \in KeyCalls, x # c, HasNew(x), skCalls[x].new = k PROVE FALSE
  <2>1. skCalls[x].at \in {"setsecret", "sadd", "indexlife", "drop"} /\ KeyRequestSound(x)
    BY <1>5 DEF HasNew, SkInv
  <2>2. CASE skCalls[x].at = "drop"
    BY <2>1, <2>2, <1>4, <1>5 DEF KeyRequestSound
  <2>3. CASE skCalls[x].at # "drop"
    <3>1. skCalls[x].op \in {"issue", "rotate"}
      BY <2>1, <2>3 DEF KeyRequestSound, Making
    <3> QED BY <3>1, <1>3, <1>5 DEF Makes
  <2> QED BY <2>2, <2>3
<1> QED BY <1>1, <1>4, <1>5 DEF SkInv, KeysOwned

\* The steps that write a new key's record and secret.
LEMMA KeyWritten ==
  ASSUME SkInv, NEW c \in KeyCalls, SetMeta(c) \/ SetSecret(c)
  PROVE  SkInv'
<1>t. /\ skNow \in 1..MaxTime /\ skCalls \in [KeyCalls -> KeyRequests] /\ skRevoked \subseteq {1}
      /\ skMeta \in [KeyIds -> KeyRecords] /\ skSecret \in [KeyIds -> Nat]
  BY DEF SkInv, SkTypes, Graves
<1>i. KeyRequestSound(c) /\ NonceSound /\ KeysOwned /\ Graves /\ IndexSound /\ LiveKeysListed
  BY DEF SkInv
<1>1. PICK a \in KeyAts : Go(c, a) /\ a \in {"setsecret", "sadd"} /\ (a = "setsecret" <=> SetMeta(c)) /\ (a = "sadd" => SetSecret(c))
  <2>1. CASE SetMeta(c)
    BY <2>1 DEF SetMeta, KeyAts, Making
  <2>2. CASE SetSecret(c)
    <3>1. ~SetMeta(c)
      BY <2>2 DEF SetMeta, SetSecret
    <3> QED BY <2>2, <3>1 DEF SetSecret, KeyAts, Making
  <2> QED BY <2>1, <2>2
<1>2. PICK e \in KeyRequests :
           /\ skCalls' = [skCalls EXCEPT ![c] = e] /\ skCalls'[c] = e /\ skCalls' \in [KeyCalls -> KeyRequests] /\ e.at = a
           /\ e.op = skCalls[c].op /\ e.key = skCalls[c].key /\ e.new = skCalls[c].new /\ e.ttl = skCalls[c].ttl
           /\ e.expires = skCalls[c].expires /\ e.left = skCalls[c].left /\ e.got = skCalls[c].got /\ e.dead = skCalls[c].dead
  BY <1>1, KeyMoves
<1>3. skCalls[c].at \in Making /\ (a = "sadd" => skCalls[c].at = "setsecret")
  BY <1>1 DEF SetMeta, SetSecret, Making
<1>4. /\ e.op \in {"issue", "rotate"} /\ e.new \in KeyIds /\ e.new # 1 /\ e.ttl \in {ShortTtl, LongTtl} /\ e.expires <= skNow + e.ttl
      /\ e.new \notin skIssued /\ e.new \notin skIndex.ids
      /\ \A x \in KeyCalls : x # c /\ HasNew(x) => skCalls[x].new # e.new
  BY <1>2, <1>3, MakingAlone
<1>5. skNow + e.ttl \in Nat /\ e.expires \in Nat
  BY <1>t, <1>4, StagingKeysAssumption DEF KeyRequests
<1>6. /\ UNCHANGED <<skNow, skIndex, skShortened, skPin, skNonce, skServed, skStamp, skFirst, skIssued, skRevoked, skDropped, skDead>>
      /\ \A k \in KeyIds : k # e.new => skMeta'[k] = skMeta[k] /\ skSecret'[k] = skSecret[k]
      /\ a = "setsecret" => skMeta'[e.new].expires = e.expires
      /\ a = "sadd" => skMeta' = skMeta
      /\ skMeta' \in [KeyIds -> KeyRecords] /\ skSecret' \in [KeyIds -> Nat]
  <2>1. CASE a = "setsecret"
    <3>1. PICK m : m = [until |-> skNow + e.ttl, expires |-> e.expires, revoked |-> FALSE]
      OBVIOUS
    <3>2. m \in KeyRecords /\ m.expires = e.expires
      BY <3>1, <1>5 DEF KeyRecords
    <3>3. skMeta' = [skMeta EXCEPT ![e.new] = m] /\ UNCHANGED skSecret
      BY <2>1, <1>1, <1>2, <3>1 DEF SetMeta, RestKept
    <3>4. UNCHANGED <<skNow, skIndex, skShortened, skPin, skNonce, skServed, skStamp, skFirst, skIssued, skRevoked, skDropped, skDead>>
      BY <2>1, <1>1 DEF SetMeta, RestKept
    <3> QED BY <2>1, <3>2, <3>3, <3>4, <1>t, <1>4
  <2>2. CASE a = "sadd"
    <3>1. skSecret' = [skSecret EXCEPT ![e.new] = skNow + e.ttl] /\ UNCHANGED skMeta
      BY <2>2, <1>1, <1>2 DEF SetSecret, RestKept
    <3>2. UNCHANGED <<skNow, skIndex, skShortened, skPin, skNonce, skServed, skStamp, skFirst, skIssued, skRevoked, skDropped, skDead>>
      BY <2>2, <1>1 DEF SetSecret, RestKept
    <3> QED BY <2>2, <3>1, <3>2, <1>t, <1>4, <1>5
  <2> QED BY <1>1, <2>1, <2>2
<1>7. SkTypes'
  BY <1>2, <1>6 DEF SkInv, SkTypes
<1>8. skCalls[c].at # "pinlife"
  BY <1>3 DEF Making
<1>9. PinSound' /\ NonceSound'
  BY <1>2, <1>6, <1>8, <1>i, PinKept DEF NonceSound, ServedOnce
<1>10. \A k \in KeyIds : k # e.new => (Usable(k)' <=> Usable(k))
  BY <1>6 DEF Usable, Kept, IsThere
<1>11. \A k : Out(k) => Out(k)'
  BY <1>2, <1>3, <1>1, KeysStayOut DEF Making
<1>12. Indexed' = Indexed
  BY <1>6 DEF Indexed
<1>13. KeyRequestSound(c)'
  <2>1. skMeta'[e.new].expires <= e.expires
    <3>1. CASE a = "setsecret"
      BY <3>1, <1>5, <1>6
    <3>2. CASE a = "sadd"
      BY <3>2, <1>2, <1>3, <1>6, <1>i DEF KeyRequestSound
    <3> QED BY <1>1, <3>1, <3>2
  <2>2. /\ e.op \in {"revoke", "rotate"} => e.key = 1
        /\ e.dead \subseteq skRevoked /\ e.got \cap e.dead = {} /\ \A k \in e.left : Out(k)
    BY <1>2, <1>i DEF KeyRequestSound
  <2>3. /\ e.at \in {"setsecret", "sadd"} /\ e.at \notin Asking \cup {"get"} /\ e.at \notin Serving
        /\ \A k \in e.left : Out(k)'
    BY <1>1, <1>2, <1>11, <2>2 DEF Asking, Serving
  <2> QED BY <1>2, <1>4, <1>6, <2>1, <2>2, <2>3, KeySoundAfter
<1>14. Graves'
  BY <1>4, <1>6, <1>i, StagingKeysAssumption DEF Graves
<1>15. IndexSound' /\ LiveKeysListed'
  <2>1. skIssued \subseteq KeyIds
    BY DEF SkInv, SkTypes
  <2> QED BY <2>1, <1>4, <1>6, <1>10, <1>i DEF IndexSound, LiveKeysListed
<1>16. 1 \in skIssued' /\ \A k \in skIssued' \cup skIndex'.ids : Out(k)'
  BY <1>6, <1>11, <1>i DEF KeysOwned
<1>17. \A x \in KeyCalls, k \in KeyIds : x # c /\ HasNew(x) /\ k = skCalls[x].new =>
         /\ skMeta'[k].expires <= skMeta[k].expires /\ (Usable(k)' => Usable(k))
         /\ k \in Indexed => k \in Indexed' \/ ~Usable(k)'
  <2>1. \A k \in KeyIds : skMeta[k].expires \in Nat
    BY <1>t DEF KeyRecords
  <2> QED BY <2>1, <1>4, <1>6, <1>10, <1>12
<1>18. e.at \in Making
  BY <1>1, <1>2 DEF Making
<1> QED BY <1>2, <1>3, <1>6, <1>7, <1>9, <1>13, <1>14, <1>15, <1>16, <1>17, KeyChanges


\* Those that put it in the index and give the index its life.
LEMMA KeyIndexed ==
  ASSUME SkInv, NEW c \in KeyCalls, AddToIndex(c) \/ IndexLife(c)
  PROVE  SkInv'
<1>t. /\ skNow \in 1..MaxTime /\ skCalls \in [KeyCalls -> KeyRequests] /\ skShortened \in BOOLEAN
      /\ skMeta \in [KeyIds -> KeyRecords] /\ skIndex \in [ids : SUBSET KeyIds, until : Nat] /\ skIssued \subseteq KeyIds
  BY DEF SkInv, SkTypes
<1>i. KeyRequestSound(c) /\ NonceSound /\ KeysOwned /\ Graves /\ IndexSound /\ LiveKeysListed
  BY DEF SkInv
<1>n. /\ skNow \in Nat /\ Never \in Nat /\ Never > skNow + LongTtl /\ ShortTtl \in Nat \ {0} /\ LongTtl \in Nat
      /\ ShortTtl <= LongTtl /\ Never > skNow /\ Never # 0
  BY <1>t, StagingKeysAssumption DEF Never
<1>k. \A k \in KeyIds : skMeta[k].expires \in Nat
  BY <1>t DEF KeyRecords
\* What they have in common.
<1>g. ASSUME NEW a \in KeyAts, Go(c, a), a \in {"indexlife", "getagain", "answered"},
             skCalls[c].at \in {"sadd", "indexlife"}, (a = "getagain" => skCalls[c].op = "rotate"),
             a = "indexlife" => skCalls[c].new \in skIndex'.ids,
             UNCHANGED <<skNow, skMeta, skSecret, skPin, skNonce, skServed, skStamp, skFirst, skRevoked, skDropped, skDead>>,
             skIndex' \in [ids : SUBSET KeyIds, until : Nat], skShortened' \in BOOLEAN,
             skIndex.ids \subseteq skIndex'.ids, skIndex'.ids \subseteq skIndex.ids \cup {skCalls[c].new},
             skIssued \subseteq skIssued', skIssued' \subseteq skIssued \cup {skCalls[c].new},
             IndexSound', LiveKeysListed'
      PROVE  SkInv'
  <2>1. PICK e \in KeyRequests :
             /\ skCalls' = [skCalls EXCEPT ![c] = e] /\ skCalls'[c] = e /\ skCalls' \in [KeyCalls -> KeyRequests] /\ e.at = a
             /\ e.op = skCalls[c].op /\ e.key = skCalls[c].key /\ e.new = skCalls[c].new /\ e.ttl = skCalls[c].ttl
             /\ e.expires = skCalls[c].expires /\ e.left = skCalls[c].left /\ e.got = skCalls[c].got /\ e.dead = skCalls[c].dead
    BY <1>g, KeyMoves
  <2>2. /\ e.op \in {"issue", "rotate"} /\ e.new \in KeyIds /\ e.new # 1 /\ e.ttl \in {ShortTtl, LongTtl} /\ e.expires <= skNow + e.ttl
        /\ skMeta[e.new].expires <= e.expires /\ (e.op = "rotate" => e.key = 1)
    BY <2>1, <1>g, <1>i DEF KeyRequestSound, Making
  <2>3. SkTypes'
    BY <2>1, <2>2, <1>g, <1>t DEF SkInv, SkTypes
  <2>4. PinSound' /\ NonceSound'
    BY <2>1, <1>g, <1>i, PinKept DEF NonceSound, ServedOnce
  <2>5. e.at \notin Making /\ e.at \notin Asking \cup {"get"} /\ e.at \notin Serving
        /\ e.at \notin {"entomb", "delsecret", "members", "list", "drop", "setsecret", "sadd", "rate", "nonce"}
    BY <2>1, <1>g DEF Making, Asking, Serving
  <2>6. \A k : Out(k) => Out(k)'
    BY <2>1, <2>5, KeysStayOut
  <2>7. Out(e.new)'
    BY <2>1, <2>2, <2>5 DEF Out, Makes
  <2>8. 1 \in skIssued' /\ \A k \in skIssued' \cup skIndex'.ids : Out(k)'
    BY <2>1, <2>6, <2>7, <1>g, <1>i DEF KeysOwned
  <2>9. \A k : (Usable(k)' <=> Usable(k)) /\ (k \in Indexed => k \in Indexed')
    BY <1>g DEF Usable, Kept, IsThere, Indexed
  <2>10. KeyRequestSound(c)'
    <3>1. e.dead \subseteq skRevoked /\ e.got \cap e.dead = {} /\ \A k \in e.left : Out(k)
      BY <2>1, <1>i DEF KeyRequestSound
    <3>2. \A k \in e.left : Out(k)'
      BY <3>1, <2>6
    <3>3. e.at = "indexlife" => e.new \in Indexed'
      BY <2>1, <1>g DEF Indexed
    <3> QED BY <2>1, <2>2, <2>5, <3>1, <3>2, <3>3, <1>g, KeySoundAfter
  <2>11. Graves'
    BY <1>g, <1>i DEF Graves
  <2>12. \A x \in KeyCalls, k \in KeyIds : x # c /\ HasNew(x) /\ k = skCalls[x].new =>
           /\ skMeta'[k].expires <= skMeta[k].expires /\ (Usable(k)' => Usable(k))
           /\ k \in Indexed => k \in Indexed' \/ ~Usable(k)'
    BY <2>9, <1>g, <1>k
  <2> QED BY <1>g, <2>1, <2>3, <2>4, <2>5, <2>8, <2>10, <2>11, <2>12, KeyChanges
<1>u. ASSUME UNCHANGED <<skNow, skMeta, skSecret>> PROVE \A k \in KeyIds : (Usable(k) /\ skSecret[k] > skNow)' <=> (Usable(k) /\ skSecret[k] > skNow)
  BY <1>u DEF Usable, Kept, IsThere
<1>1. CASE AddToIndex(c)
  <2> DEFINE new == skCalls[c].new
  <2>1. /\ skCalls[c].at = "sadd" /\ Go(c, "indexlife")
        /\ UNCHANGED <<skShortened, skNow, skMeta, skSecret, skPin, skNonce, skServed, skStamp, skFirst, skIssued, skRevoked, skDropped, skDead>>
        /\ skIndex' = IF skIndex.until > skNow THEN [skIndex EXCEPT !.ids = @ \cup {new}] ELSE [ids |-> {new}, until |-> Never]
    BY <1>1 DEF AddToIndex, RestKept
  <2>2. new \in KeyIds /\ new \notin skIssued
    BY <2>1, MakingAlone DEF Making
  <2>3. /\ skIndex' \in [ids : SUBSET KeyIds, until : Nat] /\ skIndex'.ids = skIndex.ids \cup {new} /\ skIndex'.until > skNow
        /\ skIndex'.until = skIndex.until \/ (skIndex.ids = {} /\ skIndex'.until = Never)
    <3>1. CASE skIndex.until > skNow
      BY <3>1, <2>1, <2>2, <1>t
    <3>2. CASE ~(skIndex.until > skNow)
      <4>1. skIndex.ids = {}
        BY <3>2, <1>i DEF IndexSound
      <4> QED BY <4>1, <3>2, <2>1, <2>2, <1>n
    <3> QED BY <3>1, <3>2
  <2> HIDE DEF new
  <2>4. IndexSound'
    BY <2>1, <2>2, <2>3, <1>i DEF IndexSound
  <2>5. LiveKeysListed'
    <3> SUFFICES ASSUME NEW k \in skIssued', (Usable(k) /\ skSecret[k] > skNow)'
                 PROVE  k \in skDropped' \/ (k \in skIndex'.ids /\ (skShortened' \/ skIndex'.until >= skMeta'[k].expires))
      BY DEF LiveKeysListed
    <3>1. k \in skIssued /\ k \in KeyIds /\ Usable(k) /\ skSecret[k] > skNow
      BY <1>u, <2>1, <1>t
    <3>2. k \in skDropped \/ (k \in skIndex.ids /\ (skShortened \/ skIndex.until >= skMeta[k].expires))
      BY <3>1, <1>i DEF LiveKeysListed
    <3> QED BY <3>2, <2>1, <2>3
  <2>6. "indexlife" \in KeyAts
    BY DEF KeyAts
  <2> QED BY <2>1, <2>3, <2>4, <2>5, <2>6, <1>t, <1>g DEF new
<1>2. CASE IndexLife(c)
  <2> DEFINE new == skCalls[c].new
             until == skNow + skCalls[c].ttl
  <2>1. PICK a : a = IF skCalls[c].op = "rotate" THEN "getagain" ELSE "answered"
    OBVIOUS
  <2>2. /\ skCalls[c].at = "indexlife" /\ Go(c, a) /\ a \in {"getagain", "answered"} /\ (a = "getagain" => skCalls[c].op = "rotate")
        /\ UNCHANGED <<skNow, skMeta, skSecret, skPin, skNonce, skServed, skStamp, skFirst, skRevoked, skDropped, skDead>>
        /\ skIndex' = IF skIndex.until > skNow THEN [skIndex EXCEPT !.until = until] ELSE skIndex
        /\ skShortened' = (skShortened \/ (skIndex.until # Never /\ until < skIndex.until))
        /\ skIssued' = skIssued \cup {new}
    BY <1>2, <2>1 DEF IndexLife, RestKept
  <2>3. /\ new \in KeyIds /\ skCalls[c].ttl \in {ShortTtl, LongTtl} /\ skCalls[c].expires <= until
        /\ skMeta[new].expires <= skCalls[c].expires /\ (new \in Indexed \/ ~Usable(new))
    BY <2>2, <1>i DEF KeyRequestSound
  <2>4. until \in Nat /\ until > skNow /\ until < Never
    BY <2>3, <1>n
  <2>5. /\ skIndex' \in [ids : SUBSET KeyIds, until : Nat] /\ skIndex'.ids = skIndex.ids
        /\ skIndex.until > skNow => skIndex'.until = until
        /\ ~(skIndex.until > skNow) => skIndex'.until = 0 /\ skIndex'.ids = {}
    <3>1. CASE skIndex.until > skNow
      BY <3>1, <2>2, <2>4, <1>t
    <3>2. CASE ~(skIndex.until > skNow)
      <4>1. skIndex.ids = {} /\ skIndex.until = 0
        BY <3>2, <1>i DEF IndexSound
      <4> QED BY <4>1, <3>2, <2>2, <1>t
    <3> QED BY <3>1, <3>2
  <2>6. skMeta[new].expires <= until
    <3>1. skCalls[c].expires \in Nat /\ skMeta[new].expires \in Nat
      BY <2>3, <1>t, <1>k DEF KeyRequests
    <3> QED BY <3>1, <2>3, <2>4
  <2> HIDE DEF new, until
  <2>7. IndexSound'
    <3>1. CASE skIndex.until > skNow
      BY <3>1, <2>2, <2>4, <2>5, <1>n DEF IndexSound
    <3>2. CASE ~(skIndex.until > skNow)
      BY <3>2, <2>5, <1>n DEF IndexSound
    <3> QED BY <3>1, <3>2
  <2>8. LiveKeysListed'
    <3> SUFFICES ASSUME NEW k \in skIssued', (Usable(k) /\ skSecret[k] > skNow)'
                 PROVE  k \in skDropped' \/ (k \in skIndex'.ids /\ (skShortened' \/ skIndex'.until >= skMeta'[k].expires))
      BY DEF LiveKeysListed
    <3>1. k \in KeyIds /\ Usable(k) /\ skSecret[k] > skNow
      BY <1>u, <2>2, <2>3, <1>t
    <3>2. CASE k = new
      <4>1. k \in skIndex.ids \/ k \in skDropped
        BY <3>1, <3>2, <2>3 DEF Indexed
      <4>2. k \in skIndex.ids => skIndex.until > skNow
        BY <1>i DEF IndexSound
      <4> QED BY <4>1, <4>2, <3>2, <2>2, <2>5, <2>6
    <3>3. CASE k # new
      <4>1. k \in skIssued
        BY <3>3, <2>2
      <4>2. k \in skDropped \/ (k \in skIndex.ids /\ (skShortened \/ skIndex.until >= skMeta[k].expires))
        BY <3>1, <4>1, <1>i DEF LiveKeysListed
      <4>3. CASE k \in skIndex.ids /\ (skShortened \/ skIndex.until >= skMeta[k].expires)
        <5>1. skIndex.until > skNow /\ skIndex.until # Never
          BY <4>1, <4>3, <1>i DEF IndexSound
        <5>2. skIndex'.until = until /\ k \in skIndex'.ids
          BY <5>1, <4>3, <2>5
        <5>3. CASE until < skIndex.until
          BY <5>1, <5>2, <5>3, <2>2
        <5>4. CASE ~(until < skIndex.until)
          <6>1. skIndex.until \in Nat /\ skMeta[k].expires \in Nat
            BY <3>1, <1>t, <1>k
          <6>2. skShortened \/ until >= skMeta[k].expires
            BY <6>1, <5>4, <4>3, <2>4
          <6> QED BY <6>2, <5>2, <2>2
        <5> QED BY <5>3, <5>4
      <4> QED BY <4>2, <4>3, <2>2
    <3> QED BY <3>2, <3>3
  <2>9. a \in KeyAts /\ a # "indexlife" /\ a \in {"indexlife", "getagain", "answered"}
    BY <2>2 DEF KeyAts
  <2>10. skShortened' \in BOOLEAN
    BY <2>2, <1>t
  <2>11. skIndex.ids \subseteq skIndex'.ids /\ skIndex'.ids \subseteq skIndex.ids \cup {skCalls[c].new}
         /\ skIssued \subseteq skIssued' /\ skIssued' \subseteq skIssued \cup {skCalls[c].new}
    BY <2>2, <2>5 DEF new
  <2> QED BY <2>2, <2>5, <2>7, <2>8, <2>9, <2>10, <2>11, <1>g
<1> QED BY <1>1, <1>2


\* The steps that change the record or the index of a key that is out: one revoked, or one found dead.
\* They only make keys unusable.
LEMMA KeyUnmade ==
  ASSUME SkInv, NEW c \in KeyCalls, NEW e \in KeyRequests, NEW k \in KeyIds, SkTypes',
         skCalls' = [skCalls EXCEPT ![c] = e], skCalls[c].at \notin Asking \cup Making,
         e.op = skCalls[c].op, e.op \in {"issue", "rotate"} => e.new = skCalls[c].new, e.at \notin Making,
         UNCHANGED <<skNow, skPin, skNonce, skServed, skStamp, skFirst, skIssued, skDropped, skShortened, skDead>>,
         skRevoked \subseteq skRevoked', skIndex'.until = skIndex.until,
         skIndex'.ids \subseteq skIndex.ids, \A j \in skIndex.ids : j = k \/ j \in skIndex'.ids,
         \A j \in KeyIds : j # k => skMeta'[j] = skMeta[j],
         skMeta'[k].expires <= skMeta[k].expires,
         (Usable(k)' => Usable(k) /\ skMeta'[k].expires = skMeta[k].expires),
         (Usable(k)' /\ k \in skIndex.ids => k \in skIndex'.ids),
         \A j \in KeyIds : skSecret'[j] > skNow => skSecret[j] > skNow,
         KeyRequestSound(c)', Graves'
  PROVE  SkInv'
<1>t. /\ skMeta \in [KeyIds -> KeyRecords] /\ skIndex.ids \subseteq KeyIds /\ skIssued \subseteq KeyIds
  BY DEF SkInv, SkTypes
<1>i. NonceSound /\ KeysOwned /\ IndexSound /\ LiveKeysListed
  BY DEF SkInv
<1>1. skCalls[c].at # "pinlife"
  BY DEF Asking
<1>2. PinSound' /\ NonceSound'
  BY <1>1, <1>i, PinKept DEF NonceSound, ServedOnce
<1>3. \A j : Out(j) => Out(j)'
  BY KeysStayOut
<1>4. \A j \in KeyIds : Usable(j)' => Usable(j) /\ skMeta'[j].expires = skMeta[j].expires
  <2> SUFFICES ASSUME NEW j \in KeyIds, j # k, Usable(j)' PROVE Usable(j) /\ skMeta'[j].expires = skMeta[j].expires
    OBVIOUS
  <2> QED BY DEF Usable, Kept, IsThere
<1>5. \A j \in KeyIds : Usable(j)' /\ j \in skIndex.ids => j \in skIndex'.ids
  OBVIOUS
<1>6. IndexSound'
  BY <1>i DEF IndexSound
<1>7. LiveKeysListed'
  <2> SUFFICES ASSUME NEW j \in skIssued, Usable(j)', skSecret'[j] > skNow
               PROVE  j \in skDropped \/ (j \in skIndex'.ids /\ (skShortened \/ skIndex.until >= skMeta[j].expires))
    BY <1>t, <1>4 DEF LiveKeysListed
  <2>1. Usable(j) /\ skSecret[j] > skNow /\ j \in KeyIds
    BY <1>t, <1>4
  <2>2. j \in skDropped \/ (j \in skIndex.ids /\ (skShortened \/ skIndex.until >= skMeta[j].expires))
    BY <2>1, <1>i DEF LiveKeysListed
  <2> QED BY <2>1, <2>2, <1>5
<1>8. 1 \in skIssued' /\ \A j \in skIssued' \cup skIndex'.ids : Out(j)'
  BY <1>3, <1>i DEF KeysOwned
<1>9. \A x \in KeyCalls, j \in KeyIds : x # c /\ HasNew(x) /\ j = skCalls[x].new =>
        /\ skMeta'[j].expires <= skMeta[j].expires /\ (Usable(j)' => Usable(j))
        /\ j \in Indexed => j \in Indexed' \/ ~Usable(j)'
  <2>1. \A j \in KeyIds : skMeta[j].expires \in Nat
    BY <1>t DEF KeyRecords
  <2>2. \A j \in KeyIds : skMeta'[j].expires <= skMeta[j].expires
    <3> SUFFICES ASSUME NEW j \in KeyIds, j # k PROVE skMeta'[j].expires <= skMeta[j].expires
      OBVIOUS
    <3> QED BY <2>1
  <2>3. \A j \in KeyIds : j \in Indexed => j \in Indexed' \/ ~Usable(j)'
    BY <1>5 DEF Indexed
  <2> QED BY <2>2, <2>3, <1>4
<1> QED BY <1>2, <1>6, <1>7, <1>8, <1>9, KeyChanges

LEMMA KeyRevoked ==
  ASSUME SkInv, NEW c \in KeyCalls, Entomb(c) \/ DropSecret(c)
  PROVE  SkInv'
<1>t. /\ skNow \in 1..MaxTime /\ skNow \in Nat /\ skCalls \in [KeyCalls -> KeyRequests] /\ skRevoked \subseteq KeyIds
      /\ skMeta \in [KeyIds -> KeyRecords] /\ skSecret \in [KeyIds -> Nat] /\ 1 \in KeyIds
  BY StagingKeysAssumption DEF SkInv, SkTypes
<1>i. KeyRequestSound(c) /\ Graves
  BY DEF SkInv
<1>1. PICK a \in KeyAts : Go(c, a) /\ a \in {"delsecret", "answered"} /\ (a = "delsecret" => Entomb(c)) /\ (a = "answered" => DropSecret(c))
  BY DEF Entomb, DropSecret, KeyAts
<1>2. PICK e \in KeyRequests :
           /\ skCalls' = [skCalls EXCEPT ![c] = e] /\ skCalls'[c] = e /\ skCalls' \in [KeyCalls -> KeyRequests] /\ e.at = a
           /\ e.op = skCalls[c].op /\ e.key = skCalls[c].key /\ e.new = skCalls[c].new /\ e.ttl = skCalls[c].ttl
           /\ e.expires = skCalls[c].expires /\ e.left = skCalls[c].left /\ e.got = skCalls[c].got /\ e.dead = skCalls[c].dead
  BY <1>1, KeyMoves
<1>3. skCalls[c].at \in {"entomb", "delsecret"}
  BY <1>1 DEF Entomb, DropSecret
<1>4. e.key = 1 /\ skCalls[c].at \notin Asking \cup Making
  BY <1>2, <1>3, <1>i DEF KeyRequestSound, Asking, Making
<1>5. e.at \notin Making \cup Asking \cup Serving \cup {"get", "getagain", "setsecret", "sadd", "indexlife", "members", "list", "drop", "rate", "nonce"}
  BY <1>1, <1>2 DEF Making, Asking, Serving
<1>6. PICK m \in KeyRecords : /\ skMeta' = [skMeta EXCEPT ![1] = m] /\ m.expires = skMeta[1].expires
                              /\ (a = "delsecret" => m.revoked) /\ (a = "answered" => m = skMeta[1])
  <2>1. CASE a = "delsecret"
    <3>1. PICK old \in KeyRecords : old = skMeta[1]
      BY <1>t
    <3>2. TombLife(1) \in Nat
      <4>1. old.expires - skNow \in Int /\ MinTombstone \in Nat /\ Tombstone \in Nat
        BY <1>t, StagingKeysAssumption DEF KeyRecords
      <4> QED BY <4>1, <3>1 DEF TombLife, Larger, Smaller
    <3>3. PICK until \in Nat : until = skNow + TombLife(1)
      BY <3>2, <1>t
    <3>4. PICK m : m = [[old EXCEPT !.revoked = TRUE] EXCEPT !.until = until]
      OBVIOUS
    <3>5. m \in KeyRecords /\ m.expires = old.expires /\ m.revoked
      BY <3>4 DEF KeyRecords
    <3>6. skMeta' = [skMeta EXCEPT ![1] = Entombed(1)] /\ Entombed(1) = m
      BY <2>1, <1>1, <1>2, <1>4, <3>1, <3>3, <3>4 DEF Entomb, Entombed, KeyRecords
    <3> QED BY <2>1, <3>1, <3>5, <3>6
  <2>2. CASE a = "answered"
    <3>1. skMeta' = skMeta
      BY <2>2, <1>1 DEF DropSecret, RestKept
    <3> QED BY <2>2, <3>1, <1>t
  <2> QED BY <1>1, <2>1, <2>2
<1>7. /\ UNCHANGED <<skNow, skIndex, skPin, skNonce, skServed, skStamp, skFirst, skIssued, skDropped, skShortened, skDead>>
      /\ skRevoked' = (IF a = "delsecret" THEN skRevoked \cup {1} ELSE skRevoked)
      /\ skSecret' = (IF a = "answered" THEN [skSecret EXCEPT ![1] = 0] ELSE skSecret)
  BY <1>1, <1>2, <1>4 DEF Entomb, DropSecret, RestKept
<1>8. /\ skMeta' \in [KeyIds -> KeyRecords] /\ skMeta'[1] = m /\ (\A j \in KeyIds : j # 1 => skMeta'[j] = skMeta[j])
      /\ skSecret' \in [KeyIds -> Nat] /\ (\A j \in KeyIds : skSecret'[j] > skNow => skSecret[j] > skNow)
      /\ skRevoked' \subseteq KeyIds
  BY <1>6, <1>7, <1>t
<1>9. SkTypes'
  BY <1>2, <1>7, <1>8 DEF SkInv, SkTypes
<1>10. Graves'
  BY <1>1, <1>6, <1>7, <1>8, <1>i DEF Graves
<1>11. \A j : Out(j) => Out(j)'
  BY <1>2, <1>4, <1>5, KeysStayOut
<1>12. KeyRequestSound(c)'
  <2>1. /\ e.op \in {"issue", "rotate"} => e.ttl \in {ShortTtl, LongTtl} /\ e.new # 1
        /\ e.dead \subseteq skRevoked /\ e.got \cap e.dead = {} /\ \A j \in e.left : Out(j)
    BY <1>2, <1>i DEF KeyRequestSound
  <2>2. e.dead \subseteq skRevoked' /\ \A j \in e.left : Out(j)'
    BY <2>1, <1>7, <1>11
  <2>3. /\ e.at \notin Asking \cup {"get"} /\ e.at \notin Asking /\ e.at # "getagain" /\ e.at \notin Making \cup {"indexlife"}
        /\ e.at \notin {"setsecret", "sadd", "indexlife"} /\ e.at # "indexlife" /\ e.at \notin {"members", "list", "drop"}
        /\ e.at # "drop" /\ e.at \notin Serving /\ e.at \notin {"rate", "nonce"}
    BY <1>5
  <2> QED BY <1>2, <1>4, <2>1, <2>2, <2>3, KeySoundAfter
<1>13. Usable(1)' => Usable(1) /\ skMeta'[1].expires = skMeta[1].expires
  BY <1>1, <1>6, <1>7, <1>8 DEF Usable, Kept, IsThere
<1>14. skMeta'[1].expires <= skMeta[1].expires
  BY <1>6, <1>8, <1>t DEF KeyRecords
<1>15. skRevoked \subseteq skRevoked' /\ skIndex'.until = skIndex.until /\ skIndex'.ids = skIndex.ids
  BY <1>7
<1> QED BY <1>2, <1>4, <1>5, <1>7, <1>8, <1>9, <1>10, <1>12, <1>13, <1>14, <1>15, <1>t, KeyUnmade

\* The listing of the index, and what it clears.
LEMMA KeyCleared ==
  ASSUME SkInv, NEW c \in KeyCalls, ListKey(c) \/ Unlist(c)
  PROVE  SkInv'
<1>t. /\ skNow \in 1..MaxTime /\ skNow \in Nat /\ skNow >= 1 /\ skCalls \in [KeyCalls -> KeyRequests] /\ skRevoked \subseteq KeyIds
      /\ skMeta \in [KeyIds -> KeyRecords] /\ skSecret \in [KeyIds -> Nat] /\ 1 \in KeyIds
      /\ skIndex \in [ids : SUBSET KeyIds, until : Nat]
  BY StagingKeysAssumption DEF SkInv, SkTypes
<1>i. KeyRequestSound(c) /\ Graves /\ NonceSound
  BY SMTT(60) DEF SkInv
<1>s. skCalls[c].at \in {"list", "drop"}
  BY ZenonT(60) DEF ListKey, Unlist
<1>o. skCalls[c].op = "serve" /\ skCalls[c].at \notin Asking \cup Making /\ skCalls[c].at # "pinlife"
  BY <1>s, <1>i DEF KeyRequestSound, Asking, Making
<1>a. "list" \notin Making \cup Asking \cup Serving /\ "drop" \notin Making \cup Asking \cup Serving /\ "list" \in KeyAts /\ "drop" \in KeyAts
  BY DEF Making, Asking, Serving, KeyAts
<1>d. skCalls[c].dead \subseteq skRevoked /\ skCalls[c].got \cap skCalls[c].dead = {} /\ \A j \in skCalls[c].left : Out(j)
  BY <1>i DEF KeyRequestSound
<1>g. Gone \in KeyRecords /\ Gone.until = 0 /\ Gone.expires = 0
  BY DEF Gone, KeyRecords
<1>k. \A j \in KeyIds : skMeta[j].expires \in Nat
  BY <1>t DEF KeyRecords
<1>r. PICK r \in KeyRequests : r = skCalls[c]
  BY <1>t
<1>1. CASE ListKey(c)
  <2>1. PICK k \in r.left :
          /\ skCalls' = [skCalls EXCEPT ![c].left = @ \ {k}, ![c].got = IF Usable(k) THEN @ \cup {k} ELSE @,
                                        ![c].at = IF Kept(k) THEN "list" ELSE "drop", ![c].new = IF Kept(k) THEN @ ELSE k]
          /\ IF IsThere(k) /\ ~Kept(k)
             THEN skMeta' = [skMeta EXCEPT ![k] = Gone] /\ skSecret' = [skSecret EXCEPT ![k] = 0]
             ELSE UNCHANGED <<skMeta, skSecret>>
    BY ZenonT(60), <1>1, <1>r DEF ListKey
  <2>2. UNCHANGED <<skNow, skIndex, skPin, skNonce, skServed, skStamp, skFirst, skIssued, skRevoked, skDropped, skShortened, skDead>>
    BY <1>1 DEF ListKey, RestKept
  <2>3. k \in KeyIds /\ r.left \subseteq KeyIds /\ r.got \subseteq KeyIds /\ Out(k)
    BY <1>r, <1>d DEF KeyRequests
  <2> DEFINE left == r.left \ {k}
             got == IF Usable(k) THEN r.got \cup {k} ELSE r.got
             at == IF Kept(k) THEN "list" ELSE "drop"
             new == IF Kept(k) THEN r.new ELSE k
             f == [[[[r EXCEPT !.left = left] EXCEPT !.got = got] EXCEPT !.at = at] EXCEPT !.new = new]
  <2>4. skCalls' = [skCalls EXCEPT ![c] = f]
    BY <2>1, <1>r, <1>t DEF KeyRequests
  <2>5. /\ left \subseteq KeyIds /\ left \subseteq r.left /\ got \subseteq KeyIds /\ at \in KeyAts /\ new \in KeyIds \cup {0}
        /\ (Kept(k) => at = "list") /\ (~Kept(k) => at = "drop" /\ new = k)
        /\ got \subseteq r.got \cup {k} /\ (k \in got /\ k \notin r.got => Usable(k))
    BY <2>3, <1>a DEF KeyRequests
  <2> HIDE DEF left, got, at, new
  <2>6. /\ f \in KeyRequests /\ f.at = at /\ f.left = left /\ f.got = got /\ f.new = new /\ f.op = r.op /\ f.dead = r.dead
        /\ f.key = r.key /\ f.ttl = r.ttl
    BY <2>5 DEF KeyRequests
  <2>7. PICK e \in KeyRequests : e = f
    BY <2>6
  <2> HIDE DEF f
  <2>8. skCalls' = [skCalls EXCEPT ![c] = e] /\ skCalls'[c] = e /\ skCalls' \in [KeyCalls -> KeyRequests]
    BY <2>4, <2>7, <1>t
  <2>9. skMeta' \in [KeyIds -> KeyRecords] /\ skSecret' \in [KeyIds -> Nat]
        /\ (\A j \in KeyIds : j # k => skMeta'[j] = skMeta[j] /\ skSecret'[j] = skSecret[j])
        /\ (skMeta'[k] = skMeta[k] \/ skMeta'[k] = Gone)
        /\ (~Kept(k) => skMeta'[k] = Gone \/ ~IsThere(k))
        /\ (skSecret'[k] = skSecret[k] \/ skSecret'[k] = 0)
    BY <2>1, <2>3, <1>t, <1>g
  <2>10. SkTypes'
    BY <2>2, <2>8, <2>9 DEF SkInv, SkTypes
  <2>11. (Usable(k)' => Usable(k) /\ skMeta'[k].expires = skMeta[k].expires) /\ skMeta'[k].expires <= skMeta[k].expires
    <3>1. CASE skMeta'[k] = Gone
      <4>1. ~Usable(k)'
        BY <3>1, <1>g, <1>t, <2>2 DEF Usable, Kept, IsThere
      <4> QED BY <4>1, <3>1, <1>g, <1>k, <2>3
    <3>2. CASE skMeta'[k] = skMeta[k]
      BY <3>2, <1>k, <2>2, <2>3 DEF Usable, Kept, IsThere
    <3> QED BY <3>1, <3>2, <2>9
  <2>12. ~Kept(k) => ~Usable(k)'
    BY <2>11 DEF Usable
  <2>13. e.got \cap e.dead = {} /\ e.dead \subseteq skRevoked
    <3>1. k \in r.dead => ~Usable(k)
      <4> SUFFICES ASSUME k \in r.dead PROVE ~Usable(k)
        OBVIOUS
      <4>1. skMeta[k] = Gone \/ skMeta[k].revoked
        BY <1>d, <1>r, <1>i DEF Graves
      <4> QED BY <4>1, <1>g, <1>t DEF Usable, Kept, IsThere
    <3> QED BY <3>1, <2>5, <2>6, <2>7, <1>d, <1>r
  <2>14. \A j : Out(j) => Out(j)'
    <3>1. e.op = "serve"
      BY <2>6, <2>7, <1>o, <1>r
    <3> QED BY <3>1, <2>8, <1>o, KeysStayOut
  <2>15. /\ e.at \in {"list", "drop"} /\ e.op = "serve" /\ (e.at = "drop" => e.new = k /\ ~Kept(k)) /\ e.left \subseteq r.left
    BY <2>5, <2>6, <2>7, <1>o, <1>r
  <2>16. KeyRequestSound(c)'
    <3>1. /\ e.at \notin Asking \cup {"get"} /\ e.at \notin Asking /\ e.at \notin Making \cup {"indexlife"} /\ e.at \notin Serving
          /\ e.op \notin {"issue", "rotate"} /\ ~(e.op \in {"revoke", "rotate"} \/ e.at \in {"entomb", "delsecret"})
      BY <2>15, <1>a
    <3>2. e.at = "drop" => e.new \in KeyIds /\ Out(e.new)' /\ ~Usable(e.new)'
      BY <2>15, <2>12, <2>3, <2>14
    <3>3. \A j \in e.left : Out(j)'
      BY <2>15, <2>14, <1>d, <1>r
    <3> QED BY <2>2, <2>8, <2>13, <2>15, <3>1, <3>2, <3>3, KeySoundAfter
  <2>17. Graves'
    <3>1. \A j \in KeyIds : skMeta'[j] = skMeta[j] \/ skMeta'[j] = Gone
      BY <2>9
    <3> QED BY <3>1, <2>2, <1>i, <1>t DEF Graves
  <2>18. \A j \in KeyIds : skSecret'[j] > skNow => skSecret[j] > skNow
    <3> SUFFICES ASSUME NEW j \in KeyIds, skSecret'[j] > skNow PROVE skSecret[j] > skNow
      OBVIOUS
    <3> QED BY <2>9, <1>t
  <2>19. e.at \notin Making /\ e.op = skCalls[c].op /\ e.op \notin {"issue", "rotate"}
    BY <2>15, <1>o, <1>a
  <2> QED BY ZenonT(60), <1>o, <2>2, <2>3, <2>8, <2>9, <2>10, <2>11, <2>16, <2>17, <2>18, <2>19, KeyUnmade
<1>2. CASE Unlist(c)
  <2> DEFINE k == r.new
             f == [[r EXCEPT !.at = "list"] EXCEPT !.new = 0]
  <2>1. /\ r.at = "drop" /\ skIndex' = [skIndex EXCEPT !.ids = @ \ {k}]
        /\ skCalls' = [skCalls EXCEPT ![c].at = "list", ![c].new = 0]
        /\ UNCHANGED <<skNow, skMeta, skSecret, skPin, skNonce, skServed, skStamp, skFirst, skIssued, skRevoked, skDropped, skShortened, skDead>>
    BY <1>2, <1>r DEF Unlist, RestKept
  <2>2. k \in KeyIds /\ ~Usable(k)
    BY <2>1, <1>r, <1>i DEF KeyRequestSound
  <2>3. skCalls' = [skCalls EXCEPT ![c] = f]
    BY <2>1, <1>r, <1>t DEF KeyRequests
  <2>4. /\ f \in KeyRequests /\ f.at = "list" /\ f.left = r.left /\ f.got = r.got /\ f.op = r.op /\ f.dead = r.dead
    BY <1>a DEF KeyRequests
  <2>5. PICK e \in KeyRequests : e = f
    BY <2>4
  <2>6. PICK l \in KeyIds : l = k
    BY <2>2
  <2> HIDE DEF f, k
  <2>7. skCalls' = [skCalls EXCEPT ![c] = e] /\ skCalls'[c] = e /\ skCalls' \in [KeyCalls -> KeyRequests]
    BY <2>3, <2>5, <1>t
  <2>8. skIndex' \in [ids : SUBSET KeyIds, until : Nat] /\ skIndex'.until = skIndex.until /\ skIndex'.ids = skIndex.ids \ {l}
    BY <2>1, <2>6, <1>t
  <2>9. SkTypes'
    BY <2>1, <2>7, <2>8 DEF SkInv, SkTypes
  <2>10. \A j : Usable(j)' <=> Usable(j)
    BY <2>1 DEF Usable, Kept, IsThere
  <2>11. e.at = "list" /\ e.op = "serve" /\ e.dead \subseteq skRevoked /\ e.got \cap e.dead = {} /\ e.left = r.left
    BY <2>4, <2>5, <1>o, <1>r, <1>d
  <2>12. \A j : Out(j) => Out(j)'
    BY <2>7, <2>11, <1>o, KeysStayOut
  <2>13. KeyRequestSound(c)'
    <3>1. /\ e.at \notin Asking \cup {"get"} /\ e.at \notin Asking /\ e.at \notin Making \cup {"indexlife"} /\ e.at \notin Serving
          /\ e.op \notin {"issue", "rotate"} /\ ~(e.op \in {"revoke", "rotate"} \/ e.at \in {"entomb", "delsecret"})
      BY <2>11, <1>a
    <3>3. \A j \in e.left : Out(j)'
      BY <2>11, <2>12, <1>d, <1>r
    <3> QED BY <2>1, <2>7, <2>11, <3>1, <3>3, KeySoundAfter
  <2>14. Graves'
    BY <2>1, <1>i DEF Graves
  <2>15. e.at \notin Making /\ e.op = skCalls[c].op /\ e.op \notin {"issue", "rotate"}
    BY <2>11, <1>o, <1>a
  <2>16. ~Usable(l)' /\ skMeta'[l].expires <= skMeta[l].expires
    BY <2>1, <2>2, <2>6, <2>10, <1>k
  <2> QED BY <1>o, <2>1, <2>7, <2>8, <2>9, <2>13, <2>14, <2>15, <2>16, KeyUnmade
<1> QED BY <1>1, <1>2


LEMMA KeyTicks == ASSUME SkInv, SkTick PROVE SkInv'
<1>t. /\ skNow \in 1..MaxTime /\ skNow \in Nat /\ MaxTime \in Nat /\ skRevoked \subseteq KeyIds /\ skIssued \subseteq KeyIds
      /\ skMeta \in [KeyIds -> KeyRecords] /\ skSecret \in [KeyIds -> Nat] /\ 1 \in KeyIds /\ skDropped \subseteq KeyIds
      /\ skIndex \in [ids : SUBSET KeyIds, until : Nat] /\ skPin \in [count : Nat, until : Nat]
      /\ skNonce \in Nat /\ skStamp \in Stamps /\ skFirst \in Nat
  BY StagingKeysAssumption DEF SkInv, SkTypes
<1>i. Graves /\ NonceSound /\ IndexSound /\ LiveKeysListed /\ PinSound /\ KeysOwned
  BY DEF SkInv
<1>1. /\ skNow' = skNow + 1 /\ skNow < MaxTime /\ \A x \in KeyCalls : skCalls[x].at \notin {"rate", "nonce"}
      /\ UNCHANGED <<skCalls, skIssued, skRevoked, skShortened, skServed, skStamp, skFirst, skDead>>
  BY DEF SkTick
<1>g. Gone \in KeyRecords /\ Gone.until = 0 /\ Gone.expires = 0
  BY DEF Gone, KeyRecords
<1>2. skMeta' \in [KeyIds -> KeyRecords] /\ \A k \in KeyIds : skMeta'[k] = Gone \/ skMeta'[k] = skMeta[k]
  BY <1>t, <1>g DEF SkTick
<1>3. skSecret' \in [KeyIds -> Nat] /\ \A k \in KeyIds : skSecret'[k] = 0 \/ skSecret'[k] = skSecret[k]
  BY <1>t DEF SkTick
<1>4. /\ skIndex.until <= skNow' => skIndex' = [ids |-> {}, until |-> 0] /\ skDropped' = skDropped \cup skIndex.ids
      /\ skIndex.until > skNow' => skIndex' = skIndex /\ skDropped' = skDropped
      /\ skIndex.until <= skNow' \/ skIndex.until > skNow'
  BY <1>1, <1>t DEF SkTick
<1>5. /\ skIndex' \in [ids : SUBSET KeyIds, until : Nat] /\ skDropped' \subseteq KeyIds /\ skDropped \subseteq skDropped'
      /\ skIndex'.ids \cup skDropped' = skIndex.ids \cup skDropped /\ skIndex'.ids \subseteq skIndex.ids
  <2>1. CASE skIndex.until <= skNow'
    BY <2>1, <1>4, <1>t
  <2>2. CASE skIndex.until > skNow'
    BY <2>2, <1>4, <1>t
  <2> QED BY <2>1, <2>2, <1>4
<1>6. skPin' = [count |-> 0, until |-> 0] \/ skPin' = skPin
  BY DEF SkTick
<1>7. (skNonce <= skNow' /\ skNonce' = 0) \/ (skNonce > skNow' /\ skNonce' = skNonce)
  BY <1>1, <1>t DEF SkTick
<1>8. SkTypes'
  <2>1. skNow' \in 1..MaxTime /\ skStamp' \in Stamps /\ skFirst' \in Nat /\ skNonce' \in Nat
    BY <1>1, <1>7, <1>t
  <2>2. skPin' \in [count : Nat, until : Nat]
    BY <1>6, <1>t
  <2> QED BY <2>1, <2>2, <1>1, <1>2, <1>3, <1>5 DEF SkInv, SkTypes
<1>9. \A k : (Out(k) <=> Out(k)')
  BY <1>1 DEF Out, Makes
<1>10. \A k \in KeyIds : Usable(k)' => Usable(k) /\ skMeta'[k] = skMeta[k]
  <2> SUFFICES ASSUME NEW k \in KeyIds, Usable(k)' PROVE Usable(k) /\ skMeta'[k] = skMeta[k]
    OBVIOUS
  <2>1. skMeta'[k].until > skNow' /\ skMeta'[k].expires > skNow' /\ ~skMeta'[k].revoked
    BY DEF Usable, Kept, IsThere
  <2>2. skMeta'[k] = skMeta[k]
    BY <2>1, <1>1, <1>2, <1>g, <1>t
  <2>3. skMeta[k].until \in Nat /\ skMeta[k].expires \in Nat
    BY <1>t DEF KeyRecords
  <2> QED BY <2>1, <2>2, <2>3, <1>1, <1>t DEF Usable, Kept, IsThere
<1>11. \A k \in KeyIds : skMeta'[k].expires \in Nat /\ skMeta'[k].expires <= skMeta[k].expires
  <2> SUFFICES ASSUME NEW k \in KeyIds PROVE skMeta'[k].expires \in Nat /\ skMeta'[k].expires <= skMeta[k].expires
    OBVIOUS
  <2>1. skMeta[k].expires \in Nat
    BY <1>t DEF KeyRecords
  <2> QED BY <2>1, <1>2, <1>g
<1>12. Indexed' = Indexed
  BY <1>5 DEF Indexed
<1>13. \A x \in KeyCalls : KeyRequestSound(x)'
  <2> SUFFICES ASSUME NEW x \in KeyCalls PROVE KeyRequestSound(x)'
    OBVIOUS
  <2>1. skCalls'[x] = skCalls[x] /\ skNow' \in {skNow, skNow + 1} /\ skRevoked \subseteq skRevoked'
        /\ skCalls[x].at \notin {"rate", "nonce"}
    BY <1>1
  <2>2. \A k : Out(k) => Out(k)'
    BY <1>9
  <2>3. \A k \in KeyIds : HasNew(x) /\ k = skCalls[x].new =>
           /\ skMeta'[k].expires \in Nat /\ skMeta'[k].expires <= skMeta[k].expires /\ (Usable(k)' => Usable(k))
           /\ k \in Indexed => k \in Indexed' \/ ~Usable(k)'
    BY <1>10, <1>11, <1>12
  <2> QED BY <2>1, <2>2, <2>3, KeyOthersSound
<1>14. KeysOwned'
  <2>1. 1 \in skIssued' /\ \A k \in skIssued' \cup skIndex'.ids : Out(k)'
    BY <1>1, <1>5, <1>9, <1>i DEF KeysOwned
  <2>2. \A x, y \in KeyCalls, k \in KeyIds : Makes(x, k)' /\ Makes(y, k)' => x = y
    BY <1>1, <1>i DEF KeysOwned, Makes
  <2> QED BY <2>1, <2>2 DEF KeysOwned
<1>15. Graves'
  BY <1>1, <1>2, <1>i, <1>t DEF Graves
<1>16. IndexSound'
  <2>1. Never # 0
    BY StagingKeysAssumption DEF Never
  <2>2. CASE skIndex.until <= skNow'
    BY <2>1, <2>2, <1>4 DEF IndexSound
  <2>3. CASE skIndex.until > skNow'
    BY <2>3, <1>1, <1>4, <1>i DEF IndexSound
  <2> QED BY <2>2, <2>3, <1>4
<1>17. LiveKeysListed'
  <2> SUFFICES ASSUME NEW k \in skIssued', (Usable(k) /\ skSecret[k] > skNow)'
               PROVE  k \in skDropped' \/ (k \in skIndex'.ids /\ (skShortened' \/ skIndex'.until >= skMeta'[k].expires))
    BY DEF LiveKeysListed
  <2>1. k \in skIssued /\ k \in KeyIds /\ Usable(k) /\ skMeta'[k] = skMeta[k] /\ skSecret'[k] > skNow'
    BY <1>1, <1>t, <1>10
  <2>2. skSecret[k] > skNow
    BY <2>1, <1>1, <1>3, <1>t
  <2>3. k \in skDropped \/ (k \in skIndex.ids /\ (skShortened \/ skIndex.until >= skMeta[k].expires))
    BY <2>1, <2>2, <1>i DEF LiveKeysListed
  <2>4. CASE skIndex.until <= skNow'
    BY <2>3, <2>4, <1>4
  <2>5. CASE skIndex.until > skNow'
    BY <2>1, <2>3, <2>5, <1>1, <1>4
  <2> QED BY <2>4, <2>5, <1>4
<1>18. PinSound'
  <2>1. Never # 0
    BY StagingKeysAssumption DEF Never
  <2>2. CASE skPin' = [count |-> 0, until |-> 0]
    BY <2>1, <2>2, <1>1, <1>t DEF PinSound, PinCounterEnds
  <2>3. CASE skPin' = skPin
    <3>1. skPin.until > skNow' => skPin.until > skNow
      BY <1>1, <1>t
    <3> QED BY <3>1, <2>3, <1>1, <1>i DEF PinSound, PinCounterEnds
  <2> QED BY <2>2, <2>3, <1>6
<1>19. NonceSound'
  <2>1. NonceLife \in Nat
    BY StagingKeysAssumption DEF NonceLife
  <2>2. ServedOnce'
    BY <1>1, <1>7, <1>t, <1>i DEF NonceSound, ServedOnce
  <2>3. \A n \in Nat : skNonce >= n \/ skNow >= n => skNonce' >= n \/ skNow' >= n
    BY <1>1, <1>7, <1>t
  <2>5. skFirst + NonceLife \in Nat /\ skFirst + 2 * NonceLife \in Nat
    BY <2>1, <1>t
  <2>4. NonceLife' = NonceLife
    BY DEF NonceLife
  <2> QED BY <2>2, <2>3, <2>4, <2>5, <1>1, <1>i DEF NonceSound
<1> QED BY <1>8, <1>13, <1>14, <1>15, <1>16, <1>17, <1>18, <1>19 DEF SkInv

\* Every step of the staging keys.
LEMMA KeyStep == SkInv /\ [SkNext]_skVars => SkInv'
<1> SUFFICES ASSUME SkInv, [SkNext]_skVars PROVE SkInv'
  OBVIOUS
<1>1. CASE SkTick
  BY <1>1, KeyTicks
<1>2. ASSUME NEW c \in KeyCalls, (\E op \in {"issue", "revoke", "rotate", "serve"} : SkAsk(c, op)) \/ PinCheck(c) \/ Members(c)
      PROVE  SkInv'
  BY <1>2, KeyStarts
<1>3. ASSUME NEW c \in KeyCalls,
             \/ PinIncr(c) \/ PinLife(c) \/ ReadKey(c) \/ ReadAgain(c) \/ LoadSecret(c)
             \/ CheckStamp(c) \/ TakeRate(c) \/ ClaimNonce(c) \/ SkStop(c)
      PROVE  SkInv'
  BY <1>3, KeyAsks
<1>4. ASSUME NEW c \in KeyCalls, SetMeta(c) \/ SetSecret(c) PROVE SkInv'
  BY <1>4, KeyWritten
<1>5. ASSUME NEW c \in KeyCalls, AddToIndex(c) \/ IndexLife(c) PROVE SkInv'
  BY <1>5, KeyIndexed
<1>6. ASSUME NEW c \in KeyCalls, Entomb(c) \/ DropSecret(c) PROVE SkInv'
  BY <1>6, KeyRevoked
<1>7. ASSUME NEW c \in KeyCalls, ListKey(c) \/ Unlist(c) PROVE SkInv'
  BY <1>7, KeyCleared
<1>8. CASE UNCHANGED skVars
  <2>1. UNCHANGED <<skNow, skMeta, skSecret, skIndex, skPin, skNonce, skRate, skCalls,
                    skIssued, skRevoked, skDropped, skShortened, skServed, skStamp, skFirst, skDead>>
    BY <1>8 DEF skVars
  <2>2. \A c \in KeyCalls : KeyRequestSound(c)'
    BY <2>1 DEF SkInv, KeyRequestSound, Out, Makes, Indexed, Usable, Kept, IsThere
  <2>3. SkTypes' /\ KeysOwned' /\ Graves'
    BY <2>1 DEF SkInv, SkTypes, KeysOwned, Graves, Out, Makes
  <2>4. IndexSound' /\ LiveKeysListed' /\ PinSound' /\ NonceSound'
    BY <2>1 DEF SkInv, IndexSound, LiveKeysListed, Usable, Kept, IsThere, PinSound, PinCounterEnds, NonceSound, ServedOnce
  <2> QED BY <2>2, <2>3, <2>4 DEF SkInv
<1> QED BY <1>1, <1>2, <1>3, <1>4, <1>5, <1>6, <1>7, <1>8 DEF SkNext

LEMMA KeysKeep == SkInv => StagingKeysSafe
<1> SUFFICES ASSUME SkInv PROVE StagingKeysSafe
  OBVIOUS
<1>1. RevokedNotServed
  <2> SUFFICES ASSUME NEW c \in KeyCalls, skCalls[c].at \in {"stamp", "rate", "nonce", "served"} PROVE skCalls[c].key \notin skCalls[c].dead
    BY DEF RevokedNotServed
  <2>1. KeyRequestSound(c)
    BY DEF SkInv
  <2> QED BY <2>1 DEF KeyRequestSound, Serving
<1>2. LiveKeysListed /\ PinCounterEnds /\ ServedOnce
  BY DEF SkInv, PinSound, NonceSound
<1> QED BY <1>1, <1>2 DEF StagingKeysSafe

-----------------------------------------------------------------------------
(* The bounds of the types: what only rises is compared with what lasts.   *)

\* Lives end within what a key, its tombstone or the count of PINs may last, and no request
\* counts its PIN twice.
Uncounted == {"idle", "get", "pin"}
PinCounted == {c \in KeyCalls : skCalls[c].at \notin Uncounted}
KeyEnds == skNow + LongTtl + MinTombstone
KeyBounds ==
  /\ \A k \in KeyIds : /\ skMeta[k].until <= KeyEnds /\ skSecret[k] <= KeyEnds
                       /\ skMeta[k].expires <= skNow + LongTtl
  /\ skPin.until <= Never /\ skPin.count <= Cardinality(PinCounted)
  /\ \A c \in KeyCalls : skCalls[c].op = "none" => skCalls[c].at = "idle"

LEMMA BoundsBegin == SkInit => KeyBounds
<1> SUFFICES ASSUME SkInit PROVE KeyBounds
  OBVIOUS
<1>1. PinCounted = {}
  BY DEF SkInit, SkIdle, PinCounted, Uncounted
<1>2. Cardinality(PinCounted) = 0
  BY <1>1, FS_EmptySet
<1>3. /\ \A k \in KeyIds : /\ skMeta[k].until <= KeyEnds /\ skSecret[k] <= KeyEnds
                           /\ skMeta[k].expires <= skNow + LongTtl
  BY StagingKeysAssumption DEF SkInit, Gone, KeyEnds
<1>4. \A c \in KeyCalls : skCalls[c].at = "idle"
  BY DEF SkInit, SkIdle
<1> QED BY <1>2, <1>3, <1>4, StagingKeysAssumption DEF KeyBounds, SkInit, Never

\* Who has counted its PIN has counted it for good.
LEMMA CountedStay ==
  ASSUME IsFiniteSet(KeyCalls), NEW more, more = PinCounted', PinCounted \subseteq more
  PROVE  Cardinality(PinCounted) \in Nat /\ Cardinality(more) \in Nat /\ Cardinality(PinCounted) <= Cardinality(more)
<1>1. more \subseteq KeyCalls
  BY DEF PinCounted
<1>2. IsFiniteSet(more)
  BY <1>1, FS_Subset
<1> QED BY <1>2, FS_Subset, FS_CardinalityType

LEMMA PinCounts ==
  ASSUME SkInv, KeyBounds, IsFiniteSet(KeyCalls), NEW c \in KeyCalls, PinIncr(c)
  PROVE  skPin'.count <= Cardinality(PinCounted') /\ skPin'.until <= Never
<1>1. /\ skCalls[c].at = "pin" /\ skCalls \in [KeyCalls -> KeyRequests] /\ skPin' = Counted(skPin)
      /\ skCalls' = [skCalls EXCEPT ![c].at = CASE skPin'.count = 1 -> "pinlife" [] skPin'.count > PinLimit -> "limited" [] OTHER -> "pincheck"]
  BY DEF PinIncr, Go, SkInv, SkTypes
<1>2. PICK at : at = CASE skPin'.count = 1 -> "pinlife" [] skPin'.count > PinLimit -> "limited" [] OTHER -> "pincheck"
  OBVIOUS
<1>3. skPin.count \in Nat /\ skPin.until \in Nat /\ skPin \in [count : Nat, until : Nat] /\ Never \in Nat /\ PinLimit \in Nat /\ skNow \in Nat
  BY StagingKeysAssumption DEF SkInv, SkTypes, Never
<1>4. skPin'.count \in Nat /\ skPin'.count <= skPin.count + 1 /\ skPin'.until <= Never
  BY <1>1, <1>3 DEF Counted, KeyBounds
<1>5. at \in {"pinlife", "limited", "pincheck"}
  BY <1>2, <1>3, <1>4
<1>6. skCalls'[c].at = at /\ \A d \in KeyCalls : d # c => skCalls'[d] = skCalls[d]
  BY <1>1, <1>2 DEF KeyRequests
<1>7. PinCounted' = PinCounted \cup {c} /\ c \notin PinCounted
  BY <1>1, <1>5, <1>6 DEF PinCounted, Uncounted
<1>8. IsFiniteSet(PinCounted)
  BY FS_Subset DEF PinCounted
<1>9. Cardinality(PinCounted \cup {c}) = Cardinality(PinCounted) + 1
  BY <1>7, <1>8, FS_AddElement
<1>10. Cardinality(PinCounted) \in Nat /\ skPin.count <= Cardinality(PinCounted)
  BY <1>8, FS_CardinalityType DEF KeyBounds
<1>11. skPin'.count <= Cardinality(PinCounted) + 1
  BY <1>3, <1>4, <1>10
<1> QED BY <1>4, <1>7, <1>9, <1>11

\* A request begins once, and who has counted its PIN does not come to it again.
Advances(d) ==
  \/ skCalls'[d].at = skCalls[d].at /\ skCalls'[d].op = skCalls[d].op
  \/ skCalls[d].op = "none" /\ skCalls'[d].op # "none"
  \/ /\ skCalls[d].at # "idle" /\ skCalls'[d].op = skCalls[d].op
     /\ skCalls[d].at \in Uncounted \/ skCalls'[d].at \notin Uncounted

LEMMA CallsAdvance ==
  ASSUME SkInv, [SkNext]_skVars
  PROVE  \A d \in KeyCalls : Advances(d)
<1>t. skCalls \in [KeyCalls -> KeyRequests]
  BY DEF SkInv, SkTypes
<1>n. skPin.count \in Nat /\ PinLimit \in Nat
  BY StagingKeysAssumption DEF SkInv, SkTypes
<1>0. ASSUME skCalls' = skCalls PROVE \A d \in KeyCalls : Advances(d)
  BY <1>0 DEF Advances
<1>1. ASSUME NEW c \in KeyCalls, NEW new, skCalls' = [skCalls EXCEPT ![c] = new],
             \/ skCalls[c].op = "none" /\ new.op # "none"
             \/ /\ skCalls[c].at # "idle" /\ new.op = skCalls[c].op
                /\ skCalls[c].at \in Uncounted \/ new.at \notin Uncounted
      PROVE  \A d \in KeyCalls : Advances(d)
  BY <1>1, <1>t DEF Advances
<1>2. ASSUME NEW c \in KeyCalls, NEW at, Go(c, at), skCalls[c].at # "idle", skCalls[c].at \in Uncounted \/ at \notin Uncounted
      PROVE  \A d \in KeyCalls : Advances(d)
  <2>1. PICK new : new = [skCalls[c] EXCEPT !.at = at]
    OBVIOUS
  <2>2. skCalls' = [skCalls EXCEPT ![c] = new] /\ new.at = at /\ new.op = skCalls[c].op
    BY <1>2, <2>1, <1>t DEF Go, KeyRequests
  <2> QED BY <2>2, <1>1, <1>2
<1>3. ASSUME NEW c \in KeyCalls, \E op \in {"issue", "revoke", "rotate", "serve"} : SkAsk(c, op)
      PROVE  \A d \in KeyCalls : Advances(d)
  <2>1. PICK op \in {"issue", "revoke", "rotate", "serve"} : SkAsk(c, op)
    BY <1>3
  <2>2. skCalls[c].op = "none"
    BY <2>1 DEF SkAsk
  <2>i. SkIdle \in KeyRequests
    BY DEF SkIdle, KeyRequests, KeyAts
  <2>3. \/ \E ttl \in {ShortTtl, LongTtl} : skCalls' = [skCalls EXCEPT ![c] = [SkIdle EXCEPT !.op = op, !.at = "pin", !.ttl = ttl]]
        \/ \E ttl \in {ShortTtl, LongTtl} :
             skCalls' = [skCalls EXCEPT ![c] = [SkIdle EXCEPT !.op = op, !.at = "get", !.key = 1, !.ttl = ttl]]
        \/ skCalls' = [skCalls EXCEPT ![c] = [SkIdle EXCEPT !.op = op, !.at = "members", !.key = 1, !.dead = skRevoked]]
    BY <2>1 DEF SkAsk
  <2>4. \A ttl : /\ [SkIdle EXCEPT !.op = op, !.at = "pin", !.ttl = ttl].op = op
                 /\ [SkIdle EXCEPT !.op = op, !.at = "get", !.key = 1, !.ttl = ttl].op = op
                 /\ [SkIdle EXCEPT !.op = op, !.at = "members", !.key = 1, !.dead = ttl].op = op
    BY <2>i DEF KeyRequests
  <2>5. PICK new : skCalls' = [skCalls EXCEPT ![c] = new] /\ new.op = op
    BY <2>3, <2>4
  <2> QED BY <2>2, <2>5, <1>1
<1>4. ASSUME NEW c \in KeyCalls, PinIncr(c) \/ PinLife(c) PROVE \A d \in KeyCalls : Advances(d)
  <2>1. CASE PinIncr(c)
    <3>1. PICK at : Go(c, at) /\ skCalls[c].at = "pin"
      BY <2>1 DEF PinIncr
    <3> QED BY <3>1, <1>2 DEF Uncounted
  <2>2. CASE PinLife(c)
    <3>1. Go(c, "pincheck") /\ skCalls[c].at = "pinlife"
      BY <2>2 DEF PinLife
    <3> QED BY <3>1, <1>2 DEF Uncounted
  <2> QED BY <2>1, <2>2, <1>4
<1>5. ASSUME NEW c \in KeyCalls, PinCheck(c) PROVE \A d \in KeyCalls : Advances(d)
  <2>1. CASE Go(c, "refused") /\ skCalls[c].at = "pincheck"
    BY <2>1, <1>2 DEF Uncounted
  <2>2. CASE skCalls[c].at = "pincheck" /\ ~Go(c, "refused")
    <3>1. PICK k \in FreshKeys : skCalls' = [skCalls EXCEPT ![c].at = "setmeta", ![c].new = k, ![c].expires = skNow + skCalls[c].ttl]
      BY <1>5, <2>2 DEF PinCheck
    <3>2. PICK new : new = [[[skCalls[c] EXCEPT !.at = "setmeta"] EXCEPT !.new = k] EXCEPT !.expires = skNow + skCalls[c].ttl]
      OBVIOUS
    <3>3. skCalls' = [skCalls EXCEPT ![c] = new] /\ new.at = "setmeta" /\ new.op = skCalls[c].op
      BY <3>1, <3>2, <1>t DEF KeyRequests
    <3> QED BY <3>3, <2>2, <1>1 DEF Uncounted
  <2> QED BY <2>1, <2>2, <1>5 DEF PinCheck
<1>6. ASSUME NEW c \in KeyCalls, SetMeta(c) \/ SetSecret(c) \/ AddToIndex(c) \/ IndexLife(c) PROVE \A d \in KeyCalls : Advances(d)
  <2>1. PICK at \in {"setsecret", "sadd", "indexlife", "getagain", "answered"} : Go(c, at) /\ skCalls[c].at \in {"setmeta", "setsecret", "sadd", "indexlife"}
    BY <1>6 DEF SetMeta, SetSecret, AddToIndex, IndexLife
  <2> QED BY <2>1, <1>2 DEF Uncounted
<1>7. ASSUME NEW c \in KeyCalls, ReadKey(c) PROVE \A d \in KeyCalls : Advances(d)
  <2>1. PICK at : Go(c, at) /\ skCalls[c].at = "get"
    BY <1>7 DEF ReadKey
  <2> QED BY <2>1, <1>2 DEF Uncounted
<1>8. ASSUME NEW c \in KeyCalls, ReadAgain(c) \/ Entomb(c) \/ DropSecret(c) PROVE \A d \in KeyCalls : Advances(d)
  <2>1. PICK at \in {"entomb", "answered", "delsecret"} : Go(c, at) /\ skCalls[c].at \in {"getagain", "entomb", "delsecret"}
    BY <1>8 DEF ReadAgain, Entomb, DropSecret
  <2> QED BY <2>1, <1>2 DEF Uncounted
<1>9. ASSUME NEW c \in KeyCalls, Members(c) \/ ListKey(c) \/ Unlist(c) PROVE \A d \in KeyCalls : Advances(d)
  <2>1. skCalls[c].at \in {"members", "list", "drop"} /\ \A d \in KeyCalls : d # c => skCalls'[d] = skCalls[d]
    <3>1. CASE Members(c)
      BY <3>1, <1>t DEF Members
    <3>2. CASE ListKey(c)
      BY <3>2, <1>t DEF ListKey
    <3>3. CASE Unlist(c)
      BY <3>3, <1>t DEF Unlist
    <3> QED BY <3>1, <3>2, <3>3, <1>9
  <2>2. skCalls'[c].op = skCalls[c].op /\ skCalls'[c].at \in {"list", "drop"}
    <3>1. CASE Members(c)
      BY <3>1, <1>t DEF Members, KeyRequests
    <3>2. CASE ListKey(c)
      BY <3>2, <1>t DEF ListKey, KeyRequests
    <3>3. CASE Unlist(c)
      BY <3>3, <1>t DEF Unlist, KeyRequests
    <3> QED BY <3>1, <3>2, <3>3, <1>9
  <2>3. Advances(c)
    <3>1. skCalls[c].at # "idle" /\ skCalls'[c].at \notin Uncounted
      BY <2>1, <2>2 DEF Uncounted
    <3> QED BY <3>1, <2>2 DEF Advances
  <2>4. ASSUME NEW d \in KeyCalls, d # c PROVE Advances(d)
    <3>1. skCalls'[d] = skCalls[d]
      BY <2>1, <2>4
    <3> QED BY <3>1 DEF Advances
  <2> QED BY <2>3, <2>4
<1>10. ASSUME NEW c \in KeyCalls, LoadSecret(c) \/ CheckStamp(c) \/ TakeRate(c) \/ ClaimNonce(c) PROVE \A d \in KeyCalls : Advances(d)
  <2>1. PICK at \in {"stamp", "unknown", "refused", "rate", "limited", "nonce", "replayed", "served"} :
          Go(c, at) /\ skCalls[c].at \in {"list", "stamp", "rate", "nonce"}
    BY <1>10 DEF LoadSecret, CheckStamp, TakeRate, ClaimNonce
  <2> QED BY <2>1, <1>2 DEF Uncounted
<1>11. ASSUME NEW c \in KeyCalls, SkStop(c) PROVE \A d \in KeyCalls : Advances(d)
  <2>1. Go(c, "stopped") /\ skCalls[c].at # "idle"
    BY <1>11 DEF SkStop, SkDone
  <2> QED BY <2>1, <1>2 DEF Uncounted
<1>12. CASE SkTick \/ UNCHANGED skVars
  BY <1>12, <1>0 DEF SkTick, skVars
<1> QED BY <1>3, <1>4, <1>5, <1>6, <1>7, <1>8, <1>9, <1>10, <1>11, <1>12 DEF SkNext

\* The lives of the records and the secrets.
LEMMA KeyEndsStep ==
  ASSUME SkInv, KeyBounds, [SkNext]_skVars, NEW k \in KeyIds
  PROVE  skMeta'[k].until <= KeyEnds' /\ skSecret'[k] <= KeyEnds' /\ skMeta'[k].expires <= skNow' + LongTtl
<1>t. /\ skMeta[k] \in KeyRecords /\ skMeta[k].until \in Nat /\ skMeta[k].expires \in Nat /\ skSecret[k] \in Nat /\ skNow \in Nat \ {0}
      /\ skMeta \in [KeyIds -> KeyRecords] /\ skSecret \in [KeyIds -> Nat] /\ skCalls \in [KeyCalls -> KeyRequests]
  <2>1. skMeta \in [KeyIds -> KeyRecords] /\ skSecret \in [KeyIds -> Nat] /\ skCalls \in [KeyCalls -> KeyRequests] /\ skNow \in Nat \ {0}
    BY StagingKeysAssumption DEF SkInv, SkTypes
  <2>2. skMeta[k] \in KeyRecords
    BY <2>1
  <2> QED BY <2>1, <2>2 DEF KeyRecords
<1>n. LongTtl \in Nat /\ ShortTtl \in Nat /\ MinTombstone \in Nat /\ Tombstone \in Nat /\ ShortTtl <= LongTtl
  BY StagingKeysAssumption
<1>b. skMeta[k].until <= skNow + LongTtl + MinTombstone /\ skSecret[k] <= skNow + LongTtl + MinTombstone /\ skMeta[k].expires <= skNow + LongTtl
  BY DEF KeyBounds, KeyEnds
<1>1. ASSUME skMeta'[k] = skMeta[k] \/ skMeta'[k] = Gone, skSecret'[k] = skSecret[k] \/ skSecret'[k] = 0, skNow' = skNow \/ skNow' = skNow + 1
      PROVE  skMeta'[k].until <= KeyEnds' /\ skSecret'[k] <= KeyEnds' /\ skMeta'[k].expires <= skNow' + LongTtl
  <2>1. skNow' \in Nat /\ skNow <= skNow'
    BY <1>1, <1>t
  <2>2. Gone.until = 0 /\ Gone.expires = 0
    BY DEF Gone
  <2>3. (skMeta'[k].until = skMeta[k].until /\ skMeta'[k].expires = skMeta[k].expires) \/ (skMeta'[k].until = 0 /\ skMeta'[k].expires = 0)
    BY <1>1, <2>2
  <2> QED BY <2>1, <2>3, <1>1, <1>t, <1>n, <1>b DEF KeyEnds
<1>2. CASE SkTick
  <2>1. skMeta'[k] = skMeta[k] \/ skMeta'[k] = Gone
    BY <1>2 DEF SkTick
  <2>2. (skSecret'[k] = skSecret[k] \/ skSecret'[k] = 0) /\ skNow' = skNow + 1
    BY <1>2 DEF SkTick
  <2> QED BY <2>1, <2>2, <1>1
<1>3. ASSUME NEW c \in KeyCalls, SetMeta(c) \/ SetSecret(c)
      PROVE  skMeta'[k].until <= KeyEnds' /\ skSecret'[k] <= KeyEnds' /\ skMeta'[k].expires <= skNow' + LongTtl
  <2>1. PICK r : r = skCalls[c]
    OBVIOUS
  <2>2. r.at \in {"setmeta", "setsecret"} /\ r \in KeyRequests /\ skNow' = skNow
    BY <1>3, <1>t, <2>1 DEF SetMeta, SetSecret, RestKept
  <2>3. KeyRequestSound(c)
    BY DEF SkInv
  <2>4. r.op \in {"issue", "rotate"} /\ r.expires <= skNow + r.ttl
    BY <2>1, <2>2, <2>3 DEF KeyRequestSound, Making
  <2>5. r.ttl \in {ShortTtl, LongTtl} /\ r.expires \in Nat
    BY <2>1, <2>2, <2>3, <2>4 DEF KeyRequestSound, KeyRequests
  <2>6. r.expires <= skNow + LongTtl /\ skNow + r.ttl <= skNow + LongTtl /\ skNow + r.ttl \in Nat
    BY <2>4, <2>5, <1>t, <1>n
  <2>7. CASE SetMeta(c)
    <3>1. skMeta' = [skMeta EXCEPT ![r.new] = [until |-> skNow + r.ttl, expires |-> r.expires, revoked |-> FALSE]] /\ skSecret' = skSecret
      BY <2>1, <2>7 DEF SetMeta, RestKept
    <3>2. skMeta'[k] = skMeta[k] \/ (skMeta'[k].until = skNow + r.ttl /\ skMeta'[k].expires = r.expires)
      BY <3>1, <1>t
    <3>3. CASE skMeta'[k] = skMeta[k]
      BY <3>1, <3>3, <2>2, <1>1
    <3>4. CASE skMeta'[k].until = skNow + r.ttl /\ skMeta'[k].expires = r.expires
      BY <3>1, <3>4, <2>2, <2>5, <2>6, <1>t, <1>n, <1>b DEF KeyEnds
    <3> QED BY <3>2, <3>3, <3>4
  <2>8. CASE SetSecret(c)
    <3>1. skSecret' = [skSecret EXCEPT ![r.new] = skNow + r.ttl] /\ skMeta' = skMeta
      BY <2>1, <2>8 DEF SetSecret, RestKept
    <3>2. CASE skSecret'[k] = skSecret[k]
      BY <3>1, <3>2, <2>2, <1>1
    <3>3. CASE skSecret'[k] = skNow + r.ttl
      BY <3>1, <3>3, <2>2, <2>6, <1>t, <1>n, <1>b DEF KeyEnds
    <3> QED BY <3>1, <3>2, <3>3, <1>t
  <2> QED BY <2>7, <2>8, <1>3
<1>4. ASSUME NEW c \in KeyCalls, Entomb(c)
      PROVE  skMeta'[k].until <= KeyEnds' /\ skSecret'[k] <= KeyEnds' /\ skMeta'[k].expires <= skNow' + LongTtl
  <2>1. PICK x : x = skCalls[c].key
    OBVIOUS
  <2>2. skMeta' = [skMeta EXCEPT ![x] = Entombed(x)] /\ skSecret' = skSecret /\ skNow' = skNow
    BY <1>4, <2>1 DEF Entomb, RestKept
  <2>3. CASE k # x
    BY <2>2, <2>3, <1>1, <1>t
  <2>4. CASE k = x
    <3>1. skMeta'[k] = Entombed(k)
      BY <2>2, <2>4, <1>t
    <3>2. Entombed(k).until = skNow + TombLife(k) /\ Entombed(k).expires = skMeta[k].expires
      BY <1>t DEF Entombed, KeyRecords
    <3>3. TombLife(k) \in Nat /\ TombLife(k) <= LongTtl + MinTombstone
      BY <1>t, <1>n, <1>b DEF TombLife, Larger, Smaller
    <3> QED BY <3>1, <3>2, <3>3, <2>2, <1>t, <1>n, <1>b DEF KeyEnds
  <2> QED BY <2>3, <2>4
<1>5. ASSUME NEW c \in KeyCalls, ListKey(c) \/ DropSecret(c)
      PROVE  skMeta'[k].until <= KeyEnds' /\ skSecret'[k] <= KeyEnds' /\ skMeta'[k].expires <= skNow' + LongTtl
  <2>0. skNow' = skNow
    BY Zenon, <1>5 DEF ListKey, DropSecret, RestKept
  <2>1. CASE DropSecret(c)
    <3>1. skMeta' = skMeta /\ skSecret' = [skSecret EXCEPT ![skCalls[c].key] = 0]
      BY <2>1 DEF DropSecret, RestKept
    <3>2. PICK x : x = skCalls[c].key
      OBVIOUS
    <3>3. skSecret'[k] = skSecret[k] \/ skSecret'[k] = 0
      BY <3>1, <3>2, <1>t
    <3>4. skMeta'[k] = skMeta[k]
      BY <3>1
    <3> QED BY <2>0, <3>3, <3>4, <1>1
  <2>2. CASE ListKey(c)
    <3>1. PICK x \in skCalls[c].left :
            \/ skMeta' = [skMeta EXCEPT ![x] = Gone] /\ skSecret' = [skSecret EXCEPT ![x] = 0]
            \/ skMeta' = skMeta /\ skSecret' = skSecret
      BY <2>2 DEF ListKey
    <3>2. (skMeta'[k] = skMeta[k] \/ skMeta'[k] = Gone) /\ (skSecret'[k] = skSecret[k] \/ skSecret'[k] = 0)
      BY <3>1, <1>t
    <3> QED BY <2>0, <3>2, <1>1
  <2> QED BY <2>1, <2>2, <1>5
<1>6. ASSUME NEW c \in KeyCalls,
             \/ \E op \in {"issue", "revoke", "rotate", "serve"} : SkAsk(c, op)
             \/ PinIncr(c) \/ PinLife(c) \/ PinCheck(c) \/ AddToIndex(c) \/ IndexLife(c) \/ ReadKey(c) \/ ReadAgain(c)
             \/ Members(c) \/ Unlist(c) \/ LoadSecret(c) \/ CheckStamp(c) \/ TakeRate(c) \/ ClaimNonce(c) \/ SkStop(c)
      PROVE  skMeta'[k].until <= KeyEnds' /\ skSecret'[k] <= KeyEnds' /\ skMeta'[k].expires <= skNow' + LongTtl
  <2>1. skMeta' = skMeta /\ skSecret' = skSecret /\ skNow' = skNow
    BY ZenonT(60), <1>6 DEF SkAsk, PinIncr, PinLife, PinCheck, AddToIndex, IndexLife, ReadKey, ReadAgain, Members, Unlist, LoadSecret,
                CheckStamp, TakeRate, ClaimNonce, SkStop, RestKept
  <2> QED BY SMTT(60), <2>1, <1>1
<1>7. CASE UNCHANGED skVars
  BY <1>7, <1>1 DEF skVars
<1> QED BY <1>2, <1>3, <1>4, <1>5, <1>6, <1>7 DEF SkNext

LEMMA BoundsStep ==
  ASSUME SkInv, KeyBounds, IsFiniteSet(KeyCalls), [SkNext]_skVars
  PROVE  KeyBounds'
<1>1. \A k \in KeyIds : skMeta'[k].until <= KeyEnds' /\ skSecret'[k] <= KeyEnds' /\ skMeta'[k].expires <= skNow' + LongTtl
  BY KeyEndsStep
<1>2. \A d \in KeyCalls : Advances(d)
  BY CallsAdvance
<1>3. \A c \in KeyCalls : skCalls'[c].op = "none" => skCalls'[c].at = "idle"
  BY <1>2 DEF Advances, KeyBounds
<1>4. PICK more : more = PinCounted'
  OBVIOUS
<1>5. PinCounted \subseteq more
  BY <1>2, <1>4 DEF PinCounted, Advances, KeyBounds, Uncounted
<1>6. Cardinality(PinCounted) \in Nat /\ Cardinality(more) \in Nat /\ Cardinality(PinCounted) <= Cardinality(more)
  BY <1>4, <1>5, CountedStay
<1>7. skPin'.count <= Cardinality(PinCounted') /\ skPin'.until <= Never
  <2>n. skPin.count \in Nat /\ skPin.until \in Nat /\ skPin \in [count : Nat, until : Nat] /\ skNow \in 1..MaxTime
        /\ Never \in Nat /\ MaxTime + PinWindow <= Never /\ PinWindow \in Nat /\ MaxTime \in Nat
    BY StagingKeysAssumption DEF SkInv, SkTypes, Never
  <2>b. skPin.until <= Never /\ skPin.count <= Cardinality(PinCounted)
    BY DEF KeyBounds
  <2>1. ASSUME skPin'.count = skPin.count \/ skPin'.count = 0, skPin'.until = skPin.until \/ skPin'.until = 0 \/ skPin'.until = skNow + PinWindow
        PROVE  skPin'.count <= Cardinality(more) /\ skPin'.until <= Never
    BY <2>1, <2>n, <2>b, <1>6
  <2>2. CASE \E c \in KeyCalls : PinIncr(c)
    BY <2>2, PinCounts
  <2>3. ASSUME NEW c \in KeyCalls, PinLife(c) PROVE skPin'.count <= Cardinality(more) /\ skPin'.until <= Never
    <3>1. skPin' = IF skPin.until > skNow THEN [skPin EXCEPT !.until = skNow + PinWindow] ELSE skPin
      BY <2>3 DEF PinLife
    <3>2. skPin'.count = skPin.count /\ (skPin'.until = skPin.until \/ skPin'.until = skNow + PinWindow)
      BY <3>1, <2>n
    <3> QED BY <3>2, <2>1
  <2>4. CASE SkTick
    <3>1. skPin' = IF skPin.until <= skNow' THEN [count |-> 0, until |-> 0] ELSE skPin
      BY <2>4 DEF SkTick
    <3>2. (skPin'.count = 0 /\ skPin'.until = 0) \/ (skPin'.count = skPin.count /\ skPin'.until = skPin.until)
      BY <3>1
    <3> QED BY <3>2, <2>1, <1>4
  <2>5. CASE skPin' = skPin
    <3>1. skPin'.count = skPin.count /\ skPin'.until = skPin.until
      BY <2>5
    <3> QED BY <3>1, <2>1, <1>4
  <2>6. skPin' = skPin \/ SkTick \/ \E c \in KeyCalls : PinIncr(c) \/ PinLife(c)
    <3>1. ASSUME NEW c \in KeyCalls,
             \/ \E op \in {"issue", "revoke", "rotate", "serve"} : SkAsk(c, op)
             \/ PinCheck(c) \/ SetMeta(c) \/ SetSecret(c) \/ AddToIndex(c) \/ IndexLife(c) \/ ReadKey(c) \/ ReadAgain(c)
             \/ Entomb(c) \/ DropSecret(c) \/ Members(c) \/ ListKey(c) \/ Unlist(c) \/ LoadSecret(c) \/ CheckStamp(c) \/ TakeRate(c)
             \/ ClaimNonce(c) \/ SkStop(c)
          PROVE  skPin' = skPin
      BY ZenonT(20), <3>1 DEF SkAsk, PinCheck, SetMeta, SetSecret, AddToIndex, IndexLife, ReadKey, ReadAgain, Entomb, DropSecret, Members,
                  ListKey, Unlist, LoadSecret, CheckStamp, TakeRate, ClaimNonce, SkStop, RestKept
    <3>2. CASE UNCHANGED skVars
      BY <3>2 DEF skVars
    <3>3. SkNext \/ UNCHANGED skVars
      OBVIOUS
    <3>4. CASE SkNext
      <4>1. CASE SkTick
        BY <4>1
      <4>2. CASE ~SkTick
        <5>1. PICK c \in KeyCalls :
             \/ \E op \in {"issue", "revoke", "rotate", "serve"} : SkAsk(c, op)
             \/ PinIncr(c) \/ PinLife(c)
             \/ PinCheck(c) \/ SetMeta(c) \/ SetSecret(c) \/ AddToIndex(c) \/ IndexLife(c) \/ ReadKey(c) \/ ReadAgain(c)
             \/ Entomb(c) \/ DropSecret(c) \/ Members(c) \/ ListKey(c) \/ Unlist(c) \/ LoadSecret(c) \/ CheckStamp(c) \/ TakeRate(c)
             \/ ClaimNonce(c) \/ SkStop(c)
          BY ZenonT(20), <3>4, <4>2 DEF SkNext
        <5> QED BY <5>1, <3>1
      <4> QED BY <4>1, <4>2
    <3> QED BY <3>2, <3>3, <3>4
  <2> QED BY <2>2, <2>3, <2>4, <2>5, <2>6, <1>4
<1>8. Never' = Never
  BY DEF Never
<1> QED BY <1>1, <1>3, <1>7, <1>8 DEF KeyBounds

LEMMA KeyTypes ==
  ASSUME SkInv, KeyBounds, IsFiniteSet(KeyCalls)
  PROVE  SkTypeOK
<1>n. /\ LongTtl \in Nat /\ MinTombstone \in Nat /\ PinWindow \in Nat /\ MaxTime \in Nat /\ skNow \in 1..MaxTime
      /\ skMeta \in [KeyIds -> KeyRecords] /\ skSecret \in [KeyIds -> Nat] /\ skIndex \in [ids : SUBSET KeyIds, until : Nat]
      /\ skPin \in [count : Nat, until : Nat] /\ skCalls \in [KeyCalls -> KeyRequests]
  BY StagingKeysAssumption DEF SkInv, SkTypes
<1>1. ASSUME NEW k \in KeyIds PROVE skMeta[k].until \in 0..Never /\ skSecret[k] \in 0..Never
  <2>1. skMeta[k].until \in Nat /\ skSecret[k] \in Nat
    BY <1>n DEF KeyRecords
  <2>2. skMeta[k].until <= KeyEnds /\ skSecret[k] <= KeyEnds
    BY DEF KeyBounds
  <2> QED BY <2>1, <2>2, <1>n DEF KeyEnds, Never
<1>2. skPin.count \in 0..Cardinality(KeyCalls)
  <2>1. IsFiniteSet(KeyCalls) /\ PinCounted \subseteq KeyCalls
    BY DEF PinCounted
  <2>2. Cardinality(PinCounted) \in Nat /\ Cardinality(KeyCalls) \in Nat /\ Cardinality(PinCounted) <= Cardinality(KeyCalls)
    BY <2>1, FS_Subset, FS_CardinalityType
  <2>3. skPin.count \in Nat /\ skPin.count <= Cardinality(PinCounted)
    BY <1>n DEF KeyBounds
  <2> QED BY <2>2, <2>3
<1>3. \A c \in KeyCalls : skCalls[c].op \in {"none", "issue", "revoke", "rotate", "serve"}
  BY <1>n DEF KeyRequests
<1>4. skIndex.ids \subseteq KeyIds
  BY <1>n
<1> QED BY <1>n, <1>1, <1>2, <1>3, <1>4 DEF SkTypeOK

\* The PIN's counter and locks, within their bounds.
LEMMA LoginTyped ==
  ASSUME LoginInv, IsFiniteSet(Attempts)
  PROVE  OlTypeOK
<1>n. /\ LockLife \in Nat \ {0} /\ LoginEnd \in Nat \ {0} /\ olNow \in Nat \ {0} /\ olNow <= LoginEnd
      /\ olRate \in [count : Nat, until : Nat] /\ olLock \in Nat /\ Asked \subseteq Attempts /\ olTry \in [Asked -> OneTry]
      /\ olTorn \subseteq Attempts
  BY LoginAssumption DEF LoginInv, LoginTypes
<1>1. olLock <= olNow + LockLife /\ (olRate.until = NoLife \/ olRate.until <= olNow + LockLife)
      /\ \A c \in Asked : olTry[c].locked <= olLock
  BY DEF LoginInv, LivesNear
<1>2. olLock \in 0..NoLife /\ olRate.until \in 0..NoLife /\ olNow \in 1..LoginEnd
  BY <1>n, <1>1 DEF NoLife
<1>3. olCounted \subseteq Attempts /\ olRate.count = Cardinality(olCounted)
  BY <1>n DEF LoginInv, Tally
<1>4. Cardinality(olCounted) \in Nat /\ Cardinality(Attempts) \in Nat /\ Cardinality(olCounted) <= Cardinality(Attempts)
  BY <1>3, FS_Subset, FS_CardinalityType
<1>5. olRate.count \in 0..Cardinality(Attempts)
  BY <1>3, <1>4
<1>6. ASSUME NEW c \in Asked PROVE olTry[c].checked \in 0..LoginEnd /\ olTry[c].locked \in 0..NoLife
  <2>1. olTry[c].checked \in Nat /\ olTry[c].locked \in Nat
    BY <1>n DEF OneTry
  <2>2. olTry[c].checked <= olNow /\ olTry[c].locked <= olLock
    BY <1>1 DEF LoginInv, TokensDue
  <2>3. NoLife \in Nat /\ LoginEnd \in Nat
    BY <1>n DEF NoLife
  <2>4. PICK at, until : at = olTry[c].checked /\ until = olTry[c].locked
    OBVIOUS
  <2>5. at \in Nat /\ until \in Nat /\ at <= olNow /\ until <= olLock
    BY <2>1, <2>2, <2>4
  <2>6. at <= LoginEnd /\ until <= NoLife
    BY <2>3, <2>5, <1>n, <1>2
  <2> QED BY <2>3, <2>4, <2>5, <2>6
<1> QED BY <1>n, <1>2, <1>3, <1>5, <1>6 DEF OlTypeOK

=============================================================================
