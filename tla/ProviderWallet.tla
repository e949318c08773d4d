--------------------------- MODULE ProviderWallet ---------------------------
(***************************************************************************)
(* The wallet operators call over /api/v1/wallet: debit, credit and        *)
(* rollback of provider/ledger.py over a result store (claims with a       *)
(* 24 h TTL), an append-only ledger and a wallet adapter that knows its    *)
(* keys.  No lock spans a call: each store, ledger or adapter operation is *)
(* a step, the adapter may raise before or after the money moved, and a    *)
(* worker may die between two steps.                                       *)
(***************************************************************************)
EXTENDS Integers, Sequences, FiniteSets

CONSTANTS
  WalletCalls,    \* bound: requests served
  WalletNames,    \* what callers use as Idempotency-Key and as reference
  WalletRequests, \* bound: what they ask for
  MaxExpiries,    \* bound: store entries that reach their TTL
  NoCall          \* no call

ASSUME WalletAssumption ==
  /\ NoCall \notin WalletCalls /\ MaxExpiries \in Nat
  /\ \A req \in WalletRequests :
       req.op \in {"debit", "credit", "rollback"} /\ req.key \in WalletNames /\ req.ref \in WalletNames

VARIABLES
  pwReq,     \* the request of a call
  pwAt,      \* where the call is
  pwRow,     \* the ledger row it wrote or answered with
  pwStore,   \* ResultStore, by key: free, claimed, or the row of the completed result
  pwGuard,   \* ResultStore, by "rollback:<reference>": the call whose claim holds
  pwLedger,  \* rows, oldest first
  pwMoves,   \* movements the adapter made, with the call that made them
  pwForgot   \* history: names whose store entries expired

pwVars == <<pwReq, pwAt, pwRow, pwStore, pwGuard, pwLedger, pwMoves, pwForgot>>

NoRequest == [op |-> "none"]
Unclaimed == 0 - 1
InFlight == 0

\* The row's reference: a rollback is filed under its own key.
RowReference(req) == IF req.op = "rollback" THEN req.key ELSE req.ref
Fingerprint(req) == <<req.op, req.player, req.ref>>

\* find_by_reference: the newest row.
RowsOf(name) == {i \in DOMAIN pwLedger : RowReference(pwLedger[i]) = name}
Newest(I) == CHOOSE i \in I : \A j \in I : j <= i

PWInit ==
  /\ pwReq = [c \in WalletCalls |-> NoRequest] /\ pwAt = [c \in WalletCalls |-> "idle"]
  /\ pwRow = [c \in WalletCalls |-> 0]
  /\ pwStore = [k \in WalletNames |-> Unclaimed] /\ pwGuard = [r \in WalletNames |-> NoCall]
  /\ pwLedger = <<>> /\ pwMoves = {} /\ pwForgot = {}

PWGoes(c, from, to) == pwAt[c] = from /\ pwAt' = [pwAt EXCEPT ![c] = to]

PWSend(c) ==
  /\ PWGoes(c, "idle", "new")
  /\ \E req \in WalletRequests : pwReq' = [pwReq EXCEPT ![c] = req]
  /\ UNCHANGED <<pwRow, pwStore, pwGuard, pwLedger, pwMoves, pwForgot>>

\* rollback() looks its original up before it claims anything.
PWFind(c) ==
  LET rows == RowsOf(pwReq[c].ref)
      good == /\ rows # {}
              /\ pwLedger[Newest(rows)].player = pwReq[c].player
              /\ pwLedger[Newest(rows)].op = "debit"
  IN  /\ pwReq[c].op = "rollback"
      /\ PWGoes(c, "new", IF good THEN "found" ELSE "refused")
      /\ UNCHANGED <<pwReq, pwRow, pwStore, pwGuard, pwLedger, pwMoves, pwForgot>>

PWStarts(c) ==
  \/ pwAt[c] = "new" /\ pwReq[c].op # "rollback"
  \/ pwAt[c] = "found"

\* _replay, the key is free.
PWClaim(c) ==
  /\ PWStarts(c) /\ pwStore[pwReq[c].key] = Unclaimed
  /\ pwStore' = [pwStore EXCEPT ![pwReq[c].key] = InFlight]
  /\ pwAt' = [pwAt EXCEPT ![c] = IF pwReq[c].op = "rollback" THEN "guarding" ELSE "paying"]
  /\ UNCHANGED <<pwReq, pwRow, pwGuard, pwLedger, pwMoves, pwForgot>>

\* _replay, the key was seen: in flight and another payload are refused.
PWReplay(c) ==
  LET stored == pwStore[pwReq[c].key]
      same == stored > 0 /\ Fingerprint(pwLedger[stored]) = Fingerprint(pwReq[c])
  IN  /\ PWStarts(c) /\ stored # Unclaimed
      /\ pwAt' = [pwAt EXCEPT ![c] = IF same THEN "answered" ELSE "refused"]
      /\ pwRow' = [pwRow EXCEPT ![c] = IF same THEN stored ELSE 0]
      /\ UNCHANGED <<pwReq, pwStore, pwGuard, pwLedger, pwMoves, pwForgot>>

PWGuard(c) ==
  /\ PWGoes(c, "guarding", "paying") /\ pwGuard[pwReq[c].ref] = NoCall
  /\ pwGuard' = [pwGuard EXCEPT ![pwReq[c].ref] = c]
  /\ UNCHANGED <<pwReq, pwRow, pwStore, pwLedger, pwMoves, pwForgot>>

\* The guard is held: an earlier rollback under this very key is answered again, and
\* any other is refused.  The call's own claim stays, not completed, either way.
PWGuardHeld(c) ==
  LET rows == RowsOf(pwReq[c].key)
      prior == Newest(rows)
      mine == rows # {} /\ pwLedger[prior].op = "rollback" /\ pwLedger[prior].ref = pwReq[c].ref
  IN  /\ pwAt[c] = "guarding" /\ pwGuard[pwReq[c].ref] # NoCall
      /\ PWGoes(c, "guarding", IF mine THEN "answered" ELSE "refused")
      /\ pwRow' = [pwRow EXCEPT ![c] = IF mine THEN prior ELSE 0]
      /\ UNCHANGED <<pwReq, pwStore, pwGuard, pwLedger, pwMoves, pwForgot>>

\* adapter.debit or credit under the key, credit under "rollback:<key>": a key the adapter
\* knows moves nothing again.
PWAdapter(c) ==
  LET req == pwReq[c]
      known == \E m \in pwMoves : m.req.key = req.key /\ (m.req.op = "rollback" <=> req.op = "rollback")
  IN  /\ PWGoes(c, "paying", "moved")
      /\ pwMoves' = IF known THEN pwMoves ELSE pwMoves \cup {[by |-> c, req |-> req]}
      /\ UNCHANGED <<pwReq, pwRow, pwStore, pwGuard, pwLedger, pwForgot>>

PWAppend(c) ==
  /\ PWGoes(c, "moved", "appended")
  /\ pwLedger' = Append(pwLedger, pwReq[c])
  /\ pwRow' = [pwRow EXCEPT ![c] = Len(pwLedger) + 1]
  /\ UNCHANGED <<pwReq, pwStore, pwGuard, pwMoves, pwForgot>>

\* Mutant: the result is answered and never completed in the store, and the claim released.
FinishReleases(c) ==
  /\ PWGoes(c, "appended", "answered")
  /\ pwStore' = [pwStore EXCEPT ![pwReq[c].key] = Unclaimed]
  /\ UNCHANGED <<pwReq, pwRow, pwGuard, pwLedger, pwMoves, pwForgot>>

\* _finish.
PWFinish(c) ==
  /\ PWGoes(c, "appended", "answered")
  /\ pwStore' = [pwStore EXCEPT ![pwReq[c].key] = pwRow[c]]
  /\ UNCHANGED <<pwReq, pwRow, pwGuard, pwLedger, pwMoves, pwForgot>>

\* The adapter raises, before or after the money moved, or the worker dies: no claim of the
\* call is completed or released.
PWStops(c) ==
  /\ pwAt[c] \in {"guarding", "paying", "moved", "appended"}
  /\ pwAt' = [pwAt EXCEPT ![c] = "stopped"]
  /\ UNCHANGED <<pwReq, pwRow, pwStore, pwGuard, pwLedger, pwMoves, pwForgot>>

\* A claim lives 24 h from its last write; no call takes that long.
PWExpires(n) ==
  /\ Cardinality(pwForgot) < MaxExpiries /\ n \notin pwForgot
  /\ \A c \in WalletCalls : pwAt[c] \in {"guarding", "paying", "moved", "appended"} =>
                              n \notin {pwReq[c].key, pwReq[c].ref}
  /\ pwStore' = [pwStore EXCEPT ![n] = Unclaimed]
  /\ pwGuard' = [pwGuard EXCEPT ![n] = NoCall]
  /\ pwForgot' = pwForgot \cup {n}
  /\ UNCHANGED <<pwReq, pwAt, pwRow, pwLedger, pwMoves>>

PWNext ==
  \/ \E c \in WalletCalls :
       PWSend(c) \/ PWFind(c) \/ PWClaim(c) \/ PWReplay(c) \/ PWGuard(c) \/ PWGuardHeld(c)
       \/ PWAdapter(c) \/ PWAppend(c) \/ PWFinish(c) \/ PWStops(c)
  \/ \E n \in WalletNames : PWExpires(n)

PWSpec == PWInit /\ [][PWNext]_pwVars

-----------------------------------------------------------------------------
PWTypeOK ==
  /\ pwReq \in [WalletCalls -> WalletRequests \cup {NoRequest}] /\ pwRow \in [WalletCalls -> Nat]
  /\ pwAt \in [WalletCalls -> {"idle", "new", "found", "guarding", "paying", "moved", "appended",
                               "answered", "refused", "stopped"}]
  /\ pwStore \in [WalletNames -> {Unclaimed} \cup Nat] /\ pwGuard \in [WalletNames -> WalletCalls \cup {NoCall}]
  /\ pwLedger \in Seq(WalletRequests) /\ pwMoves \subseteq [by : WalletCalls, req : WalletRequests]
  /\ pwForgot \subseteq WalletNames

\* One debit is given back once, however many rollbacks name it under however many keys,
\* as long as its guard has not expired ("original transaction was already rolled back").
RefundedOnce ==
  \A m, n \in pwMoves :
    m.req.op = "rollback" /\ n.req.op = "rollback" /\ m.req.ref = n.req.ref /\ m.req.ref \notin pwForgot
      => m = n

\* Every success answered under one key shows the same row, and with it one payload.
OneAnswerPerKey ==
  \A c, d \in WalletCalls :
    /\ pwAt[c] = "answered" /\ pwAt[d] = "answered" /\ pwReq[c].key = pwReq[d].key
    /\ pwReq[c].key \notin pwForgot
    => pwRow[c] = pwRow[d] /\ Fingerprint(pwReq[c]) = Fingerprint(pwReq[d])
=============================================================================
