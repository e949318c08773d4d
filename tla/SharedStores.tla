---------------------------- MODULE SharedStores ----------------------------
(***************************************************************************)
(* The Redis stores of integrations/redis_store.py: launch tokens,         *)
(* sessions and idempotency claims.  Each store has one MinimalRedis, one  *)
(* socket with no lock, that every HTTP thread of the server uses: a       *)
(* thread sends its command and then reads whatever reply is next on the   *)
(* socket.  A reply is one whole value; a read that times out leaves its   *)
(* reply behind, and a socket that closes is never opened again.           *)
(***************************************************************************)
EXTENDS Integers, Sequences, FiniteSets

CONSTANTS
  RedisCalls,  \* bound: store operations
  RedisKeys,   \* launch tokens, session ids, idempotency keys
  MaxFaults    \* bound: timeouts and disconnections

ASSUME StoresAssumption == MaxFaults \in Nat

VARIABLES
  rsOp,       \* a call: its store, operation and key
  rsCmd,      \* the command it sends next or waits on; "over" between operations
  rsWaiting,  \* it has sent it
  rsGot,      \* what its last operation came to
  rsWhose,    \* the key whose value it was answered with
  rsData,     \* Redis: store -> key -> value
  rsWire,     \* replies on a store's socket, with the call each answers
  rsClosed,   \* sockets that closed
  rsFaults,   \* bound: faults so far
  rsInStep,   \* history: every reply went to the call it answers
  rsFellBack  \* history: tokens redeemed by GET and DEL

rsVars == <<rsOp, rsCmd, rsWaiting, rsGot, rsWhose, rsData, rsWire, rsClosed, rsFaults, rsInStep, rsFellBack>>

Stores == {"launch", "session", "idem"}
Ops == [redeem |-> "launch", get |-> "session", touch |-> "session", end |-> "session",
        peek |-> "idem", claim |-> "idem", complete |-> "idem", release |-> "idem"]
First(op) == CASE op = "redeem" -> "EVAL" [] op = "end" -> "DEL" [] OTHER -> "GET"

RsInit ==
  /\ rsOp = [c \in RedisCalls |-> [name |-> "none"]]
  /\ rsCmd = [c \in RedisCalls |-> "over"] /\ rsWaiting = [c \in RedisCalls |-> FALSE]
  /\ rsGot = [c \in RedisCalls |-> "nothing"] /\ rsWhose = [c \in RedisCalls |-> "nobody"]
  /\ rsData = [s \in Stores |-> [k \in RedisKeys |-> IF s = "idem" THEN "nil" ELSE "live"]]
  /\ rsWire = [s \in Stores |-> <<>>] /\ rsClosed = {} /\ rsFaults = 0
  /\ rsInStep = TRUE /\ rsFellBack = {}

\* A call begins; only the holder of a claim completes or releases it, once.
OpBegins(c) ==
  \E name \in DOMAIN Ops, k \in RedisKeys :
    /\ rsCmd[c] = "over"
    /\ IF name \in {"complete", "release"} THEN rsGot[c] = "claimed" /\ rsOp[c].key = k
                                           ELSE rsGot[c] = "nothing"
    /\ rsOp' = [rsOp EXCEPT ![c] = [name |-> name, store |-> Ops[name], key |-> k]]
    /\ rsCmd' = [rsCmd EXCEPT ![c] = First(name)]
    /\ UNCHANGED <<rsWaiting, rsGot, rsWhose, rsData, rsWire, rsClosed, rsFaults, rsInStep, rsFellBack>>

\* Mutant: the script reads the token and does not delete it.
StoredUnspent(op, cmd, old) ==
  CASE cmd = "DEL" -> "nil" [] cmd = "SET" -> IF op = "complete" THEN "done" ELSE "live"
    [] cmd = "SETNX" -> IF old = "nil" THEN "claimed" ELSE old [] OTHER -> old

\* What a command leaves under its key: REDEEM_LUA deletes, touch sets anew, complete attaches.
Stored(op, cmd, old) ==
  CASE cmd \in {"EVAL", "DEL"} -> "nil" [] cmd = "SET" -> IF op = "complete" THEN "done" ELSE "live"
    [] cmd = "SETNX" -> IF old = "nil" THEN "claimed" ELSE old [] OTHER -> old

Replied(op, cmd, old) ==
  CASE cmd \in {"EVAL", "GET"} -> old
    [] cmd = "SETNX" -> IF Stored(op, cmd, old) = old THEN "nil" ELSE "OK"
    [] OTHER -> "OK"

\* _send: Redis runs the command, its reply is on the way.
SendsCommand(c) ==
  LET op == rsOp[c]
      old == rsData[op.store][op.key]
      reply == [to |-> c, key |-> op.key, val |-> Replied(op.name, rsCmd[c], old)]
  IN  /\ rsCmd[c] # "over" /\ ~rsWaiting[c] /\ op.store \notin rsClosed
      /\ rsWaiting' = [rsWaiting EXCEPT ![c] = TRUE]
      /\ rsData' = [rsData EXCEPT ![op.store][op.key] = Stored(op.name, rsCmd[c], old)]
      /\ rsWire' = [rsWire EXCEPT ![op.store] = Append(@, reply)]
      /\ UNCHANGED <<rsOp, rsCmd, rsGot, rsWhose, rsClosed, rsFaults, rsInStep, rsFellBack>>

GoesOn(cmd) == [cmd |-> cmd, got |-> "nothing"]
EndsAs(got) == [cmd |-> "over", got |-> got]

\* What an entry of another key, which has another payload, a claim and a result come to.
Seen(own, val) == EndsAs(IF ~own THEN "error" ELSE IF val = "claimed" THEN "inFlight" ELSE "replay")

\* What an operation makes of what it read: "OK" is no JSON.
AfterRead(op, cmd, own, val) ==
  IF val = "OK" THEN EndsAs("error") ELSE
  CASE op = "redeem" -> IF val = "nil" THEN EndsAs("refused") ELSE IF cmd = "GET" THEN GoesOn("DEL") ELSE EndsAs("redeemed")
    [] op = "get" -> EndsAs(IF val = "nil" THEN "gone" ELSE "found")
    [] op = "touch" -> IF val = "nil" THEN EndsAs("gone") ELSE GoesOn("SET")
    [] op = "peek" -> IF val = "nil" THEN EndsAs("unseen") ELSE Seen(own, val)
    [] op = "claim" -> IF val = "nil" THEN GoesOn("SETNX") ELSE Seen(own, val)
    [] op = "complete" -> IF val = "nil" THEN EndsAs("error") ELSE GoesOn("SET")
    [] op = "release" -> IF val \in {"nil", "done"} \/ ~own THEN EndsAs("kept") ELSE GoesOn("DEL")

\* What it makes of the reply to its command: SET NX only asks whether it is nil.
AfterReply(op, cmd, own, val) ==
  CASE cmd = "SETNX" -> IF val = "nil" THEN GoesOn("GET") ELSE EndsAs("claimed")
    [] cmd = "DEL" -> EndsAs(CASE op = "redeem" -> "redeemed" [] op = "release" -> "released" [] OTHER -> "ended")
    [] cmd = "SET" -> EndsAs(IF op = "complete" THEN "completed" ELSE "found")
    [] OTHER -> AfterRead(op, cmd, own, val)

OpContinues(c, next) ==
  /\ rsCmd' = [rsCmd EXCEPT ![c] = next.cmd]
  /\ rsGot' = [rsGot EXCEPT ![c] = IF next.cmd = "over" THEN next.got ELSE @]
  /\ rsWaiting' = [rsWaiting EXCEPT ![c] = FALSE]

\* _read: the next reply on the socket, whoever it is for.
ReadsReply(c) ==
  LET op == rsOp[c]
      reply == Head(rsWire[op.store])
  IN  /\ rsWaiting[c] /\ op.store \notin rsClosed /\ rsWire[op.store] # <<>>
      /\ rsWire' = [rsWire EXCEPT ![op.store] = Tail(@)]
      /\ OpContinues(c, AfterReply(op.name, rsCmd[c], reply.key = op.key, reply.val))
      /\ rsWhose' = IF reply.val = "OK" THEN rsWhose ELSE [rsWhose EXCEPT ![c] = reply.key]
      /\ rsInStep' = (rsInStep /\ reply.to = c)
      /\ UNCHANGED <<rsOp, rsData, rsClosed, rsFaults, rsFellBack>>

\* RedisConnectionError: redeem goes on without its script, anything else raises.
OpRaises(c) ==
  /\ OpContinues(c, IF rsCmd[c] = "EVAL" THEN GoesOn("GET") ELSE EndsAs("error"))
  /\ rsFellBack' = IF rsCmd[c] = "EVAL" THEN rsFellBack \cup {rsOp[c].key} ELSE rsFellBack

\* The socket's timeout passes: the reply, if it is still to come, stays on the socket.
ReadTimesOut(c) ==
  /\ rsWaiting[c] /\ rsFaults < MaxFaults /\ rsFaults' = rsFaults + 1
  /\ OpRaises(c)
  /\ UNCHANGED <<rsOp, rsWhose, rsData, rsWire, rsClosed, rsInStep>>

\* Redis answers a command with an error before it ran it.
RedisErrs(c) ==
  /\ rsCmd[c] # "over" /\ ~rsWaiting[c] /\ rsOp[c].store \notin rsClosed
  /\ rsFaults < MaxFaults /\ rsFaults' = rsFaults + 1
  /\ OpRaises(c)
  /\ UNCHANGED <<rsOp, rsWhose, rsData, rsWire, rsClosed, rsInStep>>

SocketLost(s) ==
  /\ s \notin rsClosed /\ rsFaults < MaxFaults /\ rsFaults' = rsFaults + 1
  /\ rsClosed' = rsClosed \cup {s}
  /\ UNCHANGED <<rsOp, rsCmd, rsWaiting, rsGot, rsWhose, rsData, rsWire, rsInStep, rsFellBack>>

\* There is no socket any more, for this call and for every later one.
OpBroken(c) ==
  /\ rsCmd[c] # "over" /\ rsOp[c].store \in rsClosed
  /\ OpRaises(c)
  /\ UNCHANGED <<rsOp, rsWhose, rsData, rsWire, rsClosed, rsFaults, rsInStep>>

RsNext ==
  \/ \E c \in RedisCalls : OpBegins(c) \/ SendsCommand(c) \/ ReadsReply(c) \/ ReadTimesOut(c) \/ RedisErrs(c) \/ OpBroken(c)
  \/ \E s \in Stores : SocketLost(s)

RsSpec == RsInit /\ [][RsNext]_rsVars

-----------------------------------------------------------------------------
RsTypeOK ==
  /\ rsCmd \in [RedisCalls -> {"over", "EVAL", "GET", "SET", "SETNX", "DEL"}]
  /\ rsWaiting \in [RedisCalls -> BOOLEAN] /\ rsWhose \in [RedisCalls -> RedisKeys \cup {"nobody"}]
  /\ rsData \in [Stores -> [RedisKeys -> {"nil", "live", "claimed", "done"}]]
  /\ rsClosed \subseteq Stores /\ rsFaults \in 0..MaxFaults /\ rsInStep \in BOOLEAN

\* "Single-use: validate + consume" (session.py): a token is redeemed once, as long as every
\* reply reached its caller and no redemption of it went on without the script.
TokenSpentOnce ==
  rsInStep => \A c, d \in RedisCalls :
    /\ rsGot[c] = "redeemed" /\ rsGot[d] = "redeemed" /\ rsOp[c].key = rsOp[d].key
    /\ rsOp[c].key \notin rsFellBack
    => c = d

\* "Never drops a completed result" (release): GET and then DEL by the holders of claims leaves
\* a completed key completed, as long as every reply reached its caller.
CompletedKept ==
  rsInStep => \A c \in RedisCalls : rsGot[c] = "completed" => rsData["idem"][rsOp[c].key] = "done"

\* What the stores promise, over every interleaving of commands.
StoresKeepPromises == TokenSpentOnce /\ CompletedKept

\* A session is answered with its own player.  Two threads on the store's socket, or one command
\* after another's timeout, break it.
OwnSession ==
  \A c \in RedisCalls : rsGot[c] = "found" => rsWhose[c] = rsOp[c].key
=============================================================================
