----------------------------- MODULE AdminSessions -----------------------------
(***************************************************************************)
(* Player sessions and their bearer tokens, kept in Redis                   *)
(* (provider/sessions.py, integrations/redis_store.py): minted by an        *)
(* administrator (api.py) or an operator (provider/router.py), used by the  *)
(* player's socket (ws.py), and taken back by either of the former.  A step *)
(* is one Redis command, which may fail before or after it took effect.     *)
(*                                                                         *)
(* A session, its one token and that token's entry in the session's index   *)
(* are named for the request that mints them.                               *)
(***************************************************************************)
EXTENDS Integers, Sequences, FiniteSets

CONSTANTS
  TokenCalls,    \* bound: requests
  MaxRaises      \* bound: Redis commands that fail

ASSUME TokensAssumption == MaxRaises \in Nat

VARIABLES asSession, asToken, asIndexed, asEntry, asCall, asRaises, asGone, asRevived
asVars == <<asSession, asToken, asIndexed, asEntry, asCall, asRaises, asGone, asRevived>>
asKept == <<asSession, asToken, asIndexed>>

IdleRequest == [op |-> "none", at |-> "idle", target |-> "none", raised |-> FALSE]

AsInit ==
  /\ asSession = {}     \* dearlive:session:<id>
  /\ asToken = {}       \* pvdr:<token>: a token that resolves
  /\ asIndexed = {}     \* pvdr:session_tokens:<id> has the token
  /\ asEntry = [s \in TokenCalls |-> "none"]   \* Handler.admin_sessions: "none", "active", "revoked"
  /\ asCall = [c \in TokenCalls |-> IdleRequest]
  /\ asRaises = 0
  /\ asGone = {}        \* history: taken back, no command having failed
  /\ asRevived = {}     \* history: sessions that a touch stored anew

(***************************************************************************)
(* The commands of a request, in order.                                     *)
(***************************************************************************)
AdminMint == <<"set_session", "set_token", "add_to_index", "list">>
OperatorCreate == <<"set_session", "set_token", "add_to_index", "answer">>

\* Mutant: the index loses the token before the token is dropped.
RevokesIndexFirst == <<"get_token", "remove_from_index", "drop_token", "end_session", "unlist">>

\* The token first, "then end the game session itself"; what either raises is passed over.
AdminRevoke == <<"get_token", "drop_token", "remove_from_index", "end_session", "unlist">>

OperatorDelete == <<"load", "get_index", "drop_token", "drop_index", "get_session", "end_session", "answer">>
Subscribe == <<"get_token", "get_session", "touch", "set_session_anew", "answer">>

Plan(op) ==
  CASE op = "mint" -> AdminMint [] op = "create" -> OperatorCreate [] op = "revoke" -> AdminRevoke
    [] op = "delete" -> OperatorDelete [] op = "subscribe" -> Subscribe
Following(op, at) == Plan(op)[1 + CHOOSE i \in DOMAIN Plan(op) : Plan(op)[i] = at]

AsGo(c, at) == asCall' = [asCall EXCEPT ![c].at = at]
Answered(s) == asCall[s].op \in {"mint", "create"} /\ asCall[s].at = "done"

\* A session id is known once its mint was answered; the admin route knows the ones it lists.
AsksFor(c) ==
  /\ asCall[c].at = "idle"
  /\ \E op \in {"mint", "create", "revoke", "delete", "subscribe"}, s \in TokenCalls :
       /\ op \in {"mint", "create"} => s = c
       /\ op \in {"delete", "subscribe"} => Answered(s)
       /\ op = "revoke" => asEntry[s] # "none"
       /\ asCall' = [asCall EXCEPT ![c] = [op |-> op, at |-> Plan(op)[1], target |-> s, raised |-> FALSE]]
  /\ UNCHANGED <<asKept, asEntry, asRaises, asGone, asRevived>>

(***************************************************************************)
(* Commands that read, and what the request does next.                      *)
(***************************************************************************)
Finds(c) ==
  LET s == asCall[c].target IN
  CASE asCall[c].at = "get_token" -> s \in asToken
    [] asCall[c].at = "get_index" -> s \in asIndexed
    [] OTHER -> s \in asSession

\* Nothing found: revoke goes on to the session, delete to the index and past the session's end,
\* a touch does nothing, and the rest refuse with 401.
Without(c) ==
  CASE <<asCall[c].op, asCall[c].at>> = <<"revoke", "get_token">> -> "end_session"
    [] <<asCall[c].op, asCall[c].at>> = <<"delete", "get_index">> -> "drop_index"
    [] <<asCall[c].op, asCall[c].at>> = <<"delete", "get_session">> -> "answer"
    [] asCall[c].at = "touch" -> "answer"
    [] OTHER -> "done"

Reading == {"get_token", "get_index", "load", "get_session", "touch"}
Reads(c) ==
  /\ asCall[c].at \in Reading
  /\ AsGo(c, IF Finds(c) THEN Following(asCall[c].op, asCall[c].at) ELSE Without(c))
  /\ UNCHANGED <<asKept, asEntry, asRaises, asGone, asRevived>>

(***************************************************************************)
(* Commands that write.                                                     *)
(***************************************************************************)
Changed(set, c, adds, drops) ==
  IF asCall[c].at \in adds THEN set \cup {asCall[c].target}
  ELSE IF asCall[c].at \in drops THEN set \ {asCall[c].target} ELSE set
TakesEffect(c) ==
  /\ asSession' = Changed(asSession, c, {"set_session", "set_session_anew"}, {"end_session"})
  /\ asToken' = Changed(asToken, c, {"set_token"}, {"drop_token"})
  /\ asIndexed' = Changed(asIndexed, c, {"add_to_index"}, {"remove_from_index", "drop_index"})
  /\ asRevived' = IF asCall[c].at = "set_session_anew" /\ asCall[c].target \notin asSession
                  THEN asRevived \cup {asCall[c].target} ELSE asRevived
Writing == {"set_session", "set_session_anew", "end_session", "set_token", "drop_token",
            "add_to_index", "remove_from_index", "drop_index"}

Writes(c) ==
  /\ asCall[c].at \in Writing
  /\ TakesEffect(c)
  /\ AsGo(c, Following(asCall[c].op, asCall[c].at))
  /\ UNCHANGED <<asEntry, asRaises, asGone>>

\* What is raised ends a mint, a subscription and a delete that has not begun; it is passed over
\* where a token is revoked and where a session is ended.
Raised(c) ==
  IF asCall[c].op \notin {"revoke", "delete"} \/ asCall[c].at = "load" THEN "done"
  ELSE IF asCall[c].at = "end_session" THEN Following(asCall[c].op, "end_session")
  ELSE IF asCall[c].op = "revoke" THEN "end_session"
  ELSE IF asCall[c].at = "get_session" THEN "answer" ELSE "get_session"

CommandFails(c) ==
  /\ asCall[c].at \in Reading \cup Writing
  /\ asRaises < MaxRaises /\ asRaises' = asRaises + 1
  /\ \/ UNCHANGED <<asKept, asRevived>>
     \/ asCall[c].at \in Writing /\ TakesEffect(c)
  /\ asCall' = [asCall EXCEPT ![c].at = Raised(c), ![c].raised = TRUE,
                              ![c].op = IF Raised(c) = "done" THEN "failed" ELSE @]
  /\ UNCHANGED <<asEntry, asGone>>

(***************************************************************************)
(* The ends of requests, and of entries.                                    *)
(***************************************************************************)
Lists(c) ==
  /\ asCall[c].at = "list"
  /\ asEntry' = [asEntry EXCEPT ![c] = "active"] /\ AsGo(c, "done")
  /\ UNCHANGED <<asKept, asRaises, asGone, asRevived>>

TookBack(c) == asGone' = IF asCall[c].raised THEN asGone ELSE asGone \cup {asCall[c].target}

\* The entry is marked and the answer says revoked: True, whatever was raised.
Unlists(c) ==
  /\ asCall[c].at = "unlist"
  /\ asEntry' = [asEntry EXCEPT ![asCall[c].target] = IF @ = "none" THEN @ ELSE "revoked"]
  /\ TookBack(c) /\ AsGo(c, "done")
  /\ UNCHANGED <<asKept, asRaises, asRevived>>

Answers(c) ==
  /\ asCall[c].at = "answer" /\ AsGo(c, "done")
  /\ IF asCall[c].op = "delete" THEN TookBack(c) ELSE UNCHANGED asGone
  /\ UNCHANGED <<asKept, asEntry, asRaises, asRevived>>

\* An index is given its token's life after the token is; a session has a life of its own, 24 h.
LifeEnds(s) ==
  /\ \/ s \in asToken /\ asToken' = asToken \ {s} /\ UNCHANGED <<asSession, asIndexed>>
     \/ s \in asIndexed \ asToken /\ Answered(s) /\ asIndexed' = asIndexed \ {s} /\ UNCHANGED <<asSession, asToken>>
     \/ s \in asSession /\ asSession' = asSession \ {s} /\ UNCHANGED <<asToken, asIndexed>>
  /\ UNCHANGED <<asEntry, asCall, asRaises, asGone, asRevived>>

\* A restart forgets the entries and the requests under way, and leaves Redis as it is.
HandlerRestarts ==
  /\ \E s \in TokenCalls : asEntry[s] # "none"
  /\ asEntry' = [s \in TokenCalls |-> "none"]
  /\ asCall' = [c \in TokenCalls |->
       IF asCall[c].at \in {"idle", "done"} THEN asCall[c] ELSE [asCall[c] EXCEPT !.at = "done", !.op = "failed"]]
  /\ UNCHANGED <<asKept, asRaises, asGone, asRevived>>

AsNext ==
  \/ \E c \in TokenCalls :
       AsksFor(c) \/ Reads(c) \/ Writes(c) \/ CommandFails(c) \/ Lists(c) \/ Unlists(c) \/ Answers(c) \/ LifeEnds(c)
  \/ HandlerRestarts

(***************************************************************************)
(* Properties.                                                              *)
(***************************************************************************)
AsTypeOK ==
  /\ asSession \subseteq TokenCalls /\ asToken \subseteq TokenCalls /\ asIndexed \subseteq TokenCalls
  /\ asEntry \in [TokenCalls -> {"none", "active", "revoked"}]
  /\ \A c \in TokenCalls : asCall[c].at \in Reading \cup Writing \cup {"idle", "done", "list", "unlist", "answer"}
  /\ asRaises \in 0..MaxRaises

\* "any in-flight use fails closed from here on" (api.py, the revocation): what was taken back with
\* no command failed never resolves again, and its session is not found unless a socket that was
\* subscribing meanwhile stored it anew.
TakenBackStaysBack == \A s \in asGone : s \notin asToken /\ (s \in asRevived \/ s \notin asSession)

\* A token that was handed out and still resolves can be found through its session, as deleting the
\* session needs it, whatever failed or stopped on the way (provider/sessions.py revoke_session).
LiveTokensAreIndexed == \A s \in asToken : Answered(s) => s \in asIndexed

\* What the list of sessions shows as "active" (api.py).
ShownActive(s) == asEntry[s] = "active" /\ s \in asToken /\ s \in asSession

\* Not so: a token shown as revoked is dead (the session's life may end before the token's, and
\* what a revocation raises is passed over), and every token an administrator minted is listed (not
\* after a restart).
ShownRevokedIsDead == \A s \in TokenCalls : asEntry[s] # "none" /\ ~ShownActive(s) => s \notin asToken
MintedIsListed == \A s \in TokenCalls : asCall[s].op = "mint" /\ Answered(s) => asEntry[s] # "none"

AdminSessionsSafe == TakenBackStaysBack /\ LiveTokensAreIndexed
=============================================================================
