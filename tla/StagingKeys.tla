----------------------------- MODULE StagingKeys -----------------------------
(***************************************************************************)
(* The short-lived provider keys of the staging deployment                 *)
(* (provider/dynamic_keys.py), issued, listed, revoked and rotated through  *)
(* staging/wsgi.py, and the signed requests that are served under them      *)
(* (provider/auth.py).  Every state is a Redis key with a life of its own;  *)
(* a request is a series of Redis commands, between which other requests,   *)
(* the passing of time and the end of the instance may come.  Signatures,   *)
(* labels and scopes are left out.  A client's clock may be behind the      *)
(* server's or ahead of it.                                                 *)
(***************************************************************************)
EXTENDS Integers, FiniteSets

CONSTANTS KeyCalls, KeyIds, MaxTime,
          ShortTtl, LongTtl, Tombstone, MinTombstone,
          PinLimit, PinWindow, AuthWindow, RateLimit, RateWindow

ASSUME StagingKeysAssumption ==
  /\ 1 \in KeyIds /\ KeyIds \subseteq Nat \ {0} /\ MaxTime \in Nat \ {0}
  /\ MinTombstone \in Nat /\ Tombstone \in Nat /\ MinTombstone <= Tombstone
  /\ ShortTtl \in Nat \ {0} /\ LongTtl \in Nat /\ ShortTtl <= LongTtl
  /\ PinLimit \in Nat \ {0} /\ PinWindow \in Nat \ {0}     \* max(1, limit), max(60, window)
  /\ AuthWindow \in Nat /\ RateLimit \in Nat /\ RateWindow \in Nat \ {0}

VARIABLES skNow, skMeta, skSecret, skIndex, skPin, skNonce, skRate, skCalls,
          skIssued, skRevoked, skDropped, skShortened, skServed, skStamp, skFirst, skDead
skVars == <<skNow, skMeta, skSecret, skIndex, skPin, skNonce, skRate, skCalls,
            skIssued, skRevoked, skDropped, skShortened, skServed, skStamp, skFirst, skDead>>

Never == MaxTime + LongTtl + MinTombstone + PinWindow + 9   \* a Redis key without an expiry
Gone == [until |-> 0, expires |-> 0, revoked |-> FALSE]
IsThere(k) == skMeta[k].until > skNow
Smaller(a, b) == IF a < b THEN a ELSE b
Larger(a, b) == IF a < b THEN b ELSE a

SkIdle == [op |-> "none", at |-> "idle", key |-> 0, new |-> 0, ttl |-> 0, expires |-> 0,
           left |-> {}, got |-> {}, dead |-> {}]

SkInit ==
  /\ skNow = 1
  /\ skMeta = [k \in KeyIds |-> IF k = 1 THEN [until |-> 1 + LongTtl, expires |-> 1 + LongTtl, revoked |-> FALSE]
                                ELSE Gone]
  /\ skSecret = [k \in KeyIds |-> IF k = 1 THEN 1 + LongTtl ELSE 0]
  /\ skIndex = [ids |-> {1}, until |-> 1 + LongTtl]
  /\ skPin = [count |-> 0, until |-> 0]
  /\ skNonce = 0
  /\ skRate = [start |-> 0, count |-> 0]
  /\ skCalls = [c \in KeyCalls |-> SkIdle]
  /\ skIssued = {1} /\ skRevoked = {} /\ skDropped = {} /\ skShortened = FALSE
  /\ skServed = 0 /\ skStamp = 0 /\ skFirst = 0 /\ skDead = {}

Go(c, at) == skCalls' = [skCalls EXCEPT ![c].at = at]
RestKept(names) ==
  /\ "meta" \notin names => UNCHANGED skMeta
  /\ "secret" \notin names => UNCHANGED skSecret
  /\ "index" \notin names => UNCHANGED <<skIndex, skShortened>>
  /\ "pin" \notin names => UNCHANGED skPin
  /\ "auth" \notin names => UNCHANGED <<skNonce, skRate, skServed, skStamp, skFirst>>
  /\ "issued" \notin names => UNCHANGED skIssued
  /\ "revoked" \notin names => UNCHANGED skRevoked
  /\ UNCHANGED <<skNow, skDropped, skDead>>

(***************************************************************************)
(* Issuing: the PIN counter, then the record, the secret and the index.     *)
(***************************************************************************)
SkAsk(c, op) ==
  /\ skCalls[c].op = "none"
  /\ \/ /\ op = "issue"
        /\ \E ttl \in {ShortTtl, LongTtl} :
             skCalls' = [skCalls EXCEPT ![c] = [SkIdle EXCEPT !.op = op, !.at = "pin", !.ttl = ttl]]
     \/ /\ op \in {"revoke", "rotate"}
        /\ \E ttl \in {ShortTtl, LongTtl} :
             skCalls' = [skCalls EXCEPT ![c] = [SkIdle EXCEPT !.op = op, !.at = "get", !.key = 1, !.ttl = ttl]]
     \/ /\ op = "serve"
        /\ skCalls' = [skCalls EXCEPT ![c] = [SkIdle EXCEPT !.op = op, !.at = "members", !.key = 1, !.dead = skRevoked]]
  /\ RestKept({})

Counted(pin) == IF pin.until <= skNow THEN [count |-> 1, until |-> Never] ELSE [pin EXCEPT !.count = @ + 1]

PinIncr(c) ==
  /\ skCalls[c].at = "pin"
  /\ skPin' = Counted(skPin)
  /\ Go(c, CASE skPin'.count = 1 -> "pinlife" [] skPin'.count > PinLimit -> "limited" [] OTHER -> "pincheck")
  /\ RestKept({"pin"})

PinLife(c) ==
  /\ skCalls[c].at = "pinlife"
  /\ skPin' = IF skPin.until > skNow THEN [skPin EXCEPT !.until = skNow + PinWindow] ELSE skPin
  /\ Go(c, "pincheck")
  /\ RestKept({"pin"})

FreshKeys == {k \in KeyIds : k \notin skIssued /\ skMeta[k] = Gone /\ \A c \in KeyCalls : skCalls[c].new # k}

\* A wrong PIN ends the request; the rest of what the request asks for is valid.
PinCheck(c) ==
  /\ skCalls[c].at = "pincheck"
  /\ \/ Go(c, "refused")
     \/ \E k \in FreshKeys :
          /\ \A other \in FreshKeys : k <= other
          /\ skCalls' = [skCalls EXCEPT ![c].at = "setmeta", ![c].new = k, ![c].expires = skNow + skCalls[c].ttl]
  /\ RestKept({})

SetMeta(c) ==
  LET call == skCalls[c] IN
  /\ call.at = "setmeta"
  /\ skMeta' = [skMeta EXCEPT ![call.new] = [until |-> skNow + call.ttl, expires |-> call.expires, revoked |-> FALSE]]
  /\ Go(c, "setsecret")
  /\ RestKept({"meta"})

SetSecret(c) ==
  LET call == skCalls[c] IN
  /\ call.at = "setsecret"
  /\ skSecret' = [skSecret EXCEPT ![call.new] = skNow + call.ttl]
  /\ Go(c, "sadd")
  /\ RestKept({"secret"})

AddToIndex(c) ==
  LET call == skCalls[c] IN
  /\ call.at = "sadd"
  /\ skIndex' = IF skIndex.until > skNow THEN [skIndex EXCEPT !.ids = @ \cup {call.new}]
                ELSE [ids |-> {call.new}, until |-> Never]
  /\ UNCHANGED skShortened
  /\ Go(c, "indexlife")
  /\ RestKept({"index"})

\* A rotation goes on to revoke the key it replaces.
IndexLife(c) ==
  LET call == skCalls[c]
      until == skNow + call.ttl
  IN
  /\ call.at = "indexlife"
  /\ skIndex' = IF skIndex.until > skNow THEN [skIndex EXCEPT !.until = until] ELSE skIndex
  /\ skShortened' = (skShortened \/ (skIndex.until # Never /\ until < skIndex.until))
  /\ skIssued' = skIssued \cup {call.new}
  /\ Go(c, IF call.op = "rotate" THEN "getagain" ELSE "answered")
  /\ RestKept({"index", "issued"})

(***************************************************************************)
(* Revoking, alone or at the end of a rotation.                             *)
(***************************************************************************)
ReadKey(c) ==
  LET call == skCalls[c] IN
  /\ call.at = "get"
  /\ Go(c, CASE ~IsThere(call.key) \/ (call.op # "revoke" /\ skMeta[call.key].revoked) -> "unknown"
             [] IsThere(call.key) /\ call.op = "revoke" -> "entomb"
             [] OTHER -> "pin")
  /\ RestKept({})

ReadAgain(c) ==
  /\ skCalls[c].at = "getagain"
  /\ Go(c, IF IsThere(skCalls[c].key) THEN "entomb" ELSE "answered")
  /\ RestKept({})

TombLife(k) == Larger(MinTombstone, Smaller(Larger(0, skMeta[k].expires - skNow), Tombstone))
Entombed(k) == [skMeta[k] EXCEPT !.revoked = TRUE, !.until = skNow + TombLife(k)]

Entomb(c) ==
  LET k == skCalls[c].key IN
  /\ skCalls[c].at = "entomb"
  /\ skMeta' = [skMeta EXCEPT ![k] = Entombed(k)]
  /\ skRevoked' = skRevoked \cup {k}
  /\ Go(c, "delsecret")
  /\ RestKept({"meta", "revoked"})

DropSecret(c) ==
  /\ skCalls[c].at = "delsecret"
  /\ skSecret' = [skSecret EXCEPT ![skCalls[c].key] = 0]
  /\ Go(c, "answered")
  /\ RestKept({"secret"})

(***************************************************************************)
(* Serving a signed request: the keys are listed (which clears dead ones    *)
(* out of the index), the secrets of the live ones are read, and the        *)
(* request is authenticated.                                                *)
(***************************************************************************)
Members(c) ==
  /\ skCalls[c].at = "members"
  /\ skCalls' = [skCalls EXCEPT ![c].at = "list", ![c].left = IF skIndex.until > skNow THEN skIndex.ids ELSE {}]
  /\ RestKept({})

Kept(k) == IsThere(k) /\ skMeta[k].expires > skNow
Usable(k) == Kept(k) /\ ~skMeta[k].revoked

\* The record as it is read, the commands that clear a dead one with it.
ListKey(c) ==
  /\ skCalls[c].at = "list"
  /\ \E k \in skCalls[c].left :
       /\ skCalls' = [skCalls EXCEPT ![c].left = @ \ {k}, ![c].got = IF Usable(k) THEN @ \cup {k} ELSE @,
                                     ![c].at = IF Kept(k) THEN "list" ELSE "drop", ![c].new = IF Kept(k) THEN @ ELSE k]
       /\ IF IsThere(k) /\ ~Kept(k)
          THEN skMeta' = [skMeta EXCEPT ![k] = Gone] /\ skSecret' = [skSecret EXCEPT ![k] = 0]
          ELSE UNCHANGED <<skMeta, skSecret>>
  /\ RestKept({"meta", "secret"})

Unlist(c) ==
  /\ skCalls[c].at = "drop"
  /\ skIndex' = [skIndex EXCEPT !.ids = @ \ {skCalls[c].new}]
  /\ UNCHANGED skShortened
  /\ skCalls' = [skCalls EXCEPT ![c].at = "list", ![c].new = 0]
  /\ RestKept({"index"})

LoadSecret(c) ==
  LET call == skCalls[c] IN
  /\ call.at = "list" /\ call.left = {}
  /\ Go(c, IF call.key \in call.got /\ skSecret[call.key] > skNow THEN "stamp" ELSE "unknown")
  /\ RestKept({})

Outside(s) == skNow - s > AuthWindow \/ s - skNow > AuthWindow

\* The request was stamped by a clock that may be behind or ahead; its retries carry the same
\* stamp and nonce.
CheckStamp(c) ==
  /\ skCalls[c].at = "stamp"
  /\ \E s \in IF skStamp = 0 THEN 1..(MaxTime + AuthWindow + 1) ELSE {skStamp} :
       /\ skStamp' = s
       /\ Go(c, IF Outside(s) THEN "refused" ELSE "rate")
  /\ UNCHANGED <<skNonce, skRate, skServed, skFirst>>
  /\ RestKept({"auth"})

WindowStart == skNow \div RateWindow

TakeRate(c) ==
  /\ skCalls[c].at = "rate"
  /\ skRate' = IF skRate.start = WindowStart THEN [skRate EXCEPT !.count = @ + 1]
               ELSE [start |-> WindowStart, count |-> 1]
  /\ Go(c, IF skRate'.count > RateLimit THEN "limited" ELSE "nonce")
  /\ UNCHANGED <<skNonce, skServed, skStamp, skFirst>>
  /\ RestKept({"auth"})

NonceLife == AuthWindow + 1
ClaimNonce(c) ==
  /\ skCalls[c].at = "nonce"
  /\ IF skNonce > skNow THEN Go(c, "replayed") /\ UNCHANGED <<skNonce, skServed, skFirst>>
     ELSE /\ Go(c, "served") /\ skNonce' = skNow + NonceLife /\ skServed' = skServed + 1
          /\ skFirst' = IF skServed = 0 THEN skNow ELSE skFirst
  /\ UNCHANGED <<skRate, skStamp>>
  /\ RestKept({"auth"})

(***************************************************************************)
(* Time, and instances that stop.  A tick is minutes: none passes between   *)
(* the check of the stamp and the claim of the nonce.                       *)
(***************************************************************************)
SkTick ==
  /\ skNow < MaxTime /\ \A c \in KeyCalls : skCalls[c].at \notin {"rate", "nonce"}
  /\ skNow' = skNow + 1
  /\ skMeta' = [k \in KeyIds |-> IF skMeta[k].until <= skNow' THEN Gone ELSE skMeta[k]]
  /\ skSecret' = [k \in KeyIds |-> IF skSecret[k] <= skNow' THEN 0 ELSE skSecret[k]]
  /\ IF skIndex.until <= skNow'
     THEN skIndex' = [ids |-> {}, until |-> 0] /\ skDropped' = skDropped \cup skIndex.ids
     ELSE UNCHANGED <<skIndex, skDropped>>
  /\ skPin' = IF skPin.until <= skNow' THEN [count |-> 0, until |-> 0] ELSE skPin
  /\ skNonce' = IF skNonce <= skNow' THEN 0 ELSE skNonce
  /\ UNCHANGED <<skRate, skCalls, skIssued, skRevoked, skShortened, skServed, skStamp, skFirst, skDead>>

SkDone == {"idle", "answered", "unknown", "refused", "limited", "replayed", "served", "stopped"}

SkStop(c) ==
  /\ skDead = {} /\ skCalls[c].at \notin SkDone
  /\ skDead' = {skCalls[c].at}
  /\ Go(c, "stopped")
  /\ UNCHANGED <<skNow, skMeta, skSecret, skIndex, skPin, skNonce, skRate, skIssued, skRevoked, skDropped,
                 skShortened, skServed, skStamp, skFirst>>

SkNext ==
  \/ SkTick
  \/ \E c \in KeyCalls :
       \/ \E op \in {"issue", "revoke", "rotate", "serve"} : SkAsk(c, op)
       \/ PinIncr(c) \/ PinLife(c) \/ PinCheck(c) \/ SetMeta(c) \/ SetSecret(c) \/ AddToIndex(c) \/ IndexLife(c)
       \/ ReadKey(c) \/ ReadAgain(c) \/ Entomb(c) \/ DropSecret(c)
       \/ Members(c) \/ ListKey(c) \/ Unlist(c) \/ LoadSecret(c)
       \/ CheckStamp(c) \/ TakeRate(c) \/ ClaimNonce(c) \/ SkStop(c)

(***************************************************************************)
(* Properties.                                                              *)
(***************************************************************************)
SkTypeOK ==
  /\ skNow \in 1..MaxTime
  /\ \A k \in KeyIds : skMeta[k].until \in 0..Never /\ skSecret[k] \in 0..Never
  /\ skIndex.ids \subseteq KeyIds /\ skPin.count \in 0..Cardinality(KeyCalls)
  /\ \A c \in KeyCalls : skCalls[c].op \in {"none", "issue", "revoke", "rotate", "serve"}

\* No request that came after a key was revoked is served under it, even when the
\* revocation stopped half way and its record has since expired.
RevokedNotServed ==
  \A c \in KeyCalls : skCalls[c].at \in {"stamp", "rate", "nonce", "served"} => skCalls[c].key \notin skCalls[c].dead

\* A live key that was handed out is found in the index, unless the index itself lapsed
\* (IndexLife), and the index outlives it, unless a later key had a shorter life.
LiveKeysListed ==
  \A k \in skIssued :
    (Usable(k) /\ skSecret[k] > skNow) =>
      \/ k \in skDropped
      \/ k \in skIndex.ids /\ (skShortened \/ skIndex.until >= skMeta[k].expires)

\* The counter of PIN attempts ends, unless its request stopped before setting its life.
PinCounterEnds ==
  skPin.until = Never => "pinlife" \in skDead \cup {skCalls[c].at : c \in KeyCalls}

\* A signed request is served once however often it is delivered, unless it was stamped ahead of
\* the server's clock: then it may outlive its nonce, and be served a second time but never a
\* third.  A nonce is spent only by being served: a refusal for the rate leaves it good for a retry.
ServedOnce ==
  /\ skServed > 1 => skServed = 2 /\ skFirst < skStamp
  /\ skNonce > 0 => skServed > 0

\* "a reused nonce is rejected" (docs/PROVIDER-INTEGRATION.md), which the code does not keep: a
\* nonce lives from its use, and a stamp may be as far ahead as behind.
NonceNeverReused == skServed <= 1

\* What the staging keys promise.
StagingKeysSafe == RevokedNotServed /\ LiveKeysListed /\ PinCounterEnds /\ ServedOnce

=============================================================================
