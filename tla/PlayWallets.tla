----------------------------- MODULE PlayWallets -----------------------------
(***************************************************************************)
(* The three wallets of a deployment without an operator's:                *)
(*   "memory"  common/wallet.py MemoryWallet: debit and credit under a     *)
(*             lock with a ledger row each, fund without the lock;         *)
(*   "demo"    integrations/wallet_demo.py: a seeded balance per player,   *)
(*             everything under a lock, and a rollback by transaction;     *)
(*   "mock"    integrations/dearlive_mock.py: no lock, injected faults, a  *)
(*             fund that writes no row.                                    *)
(* One player; threads of the HTTP server and of the settlement call them. *)
(* Where there is no lock, a read and the write that follows it are steps  *)
(* of their own.                                                           *)
(***************************************************************************)
EXTENDS Integers, FiniteSets, Functions

CONSTANTS
  PlayKinds,      \* the wallets
  PlayCalls,      \* bound: calls made
  PlayRequests,   \* bound: what they ask for: [op, key, amount]
  Seed,           \* the balance a player starts with
  PlayFaults      \* bound: faults injected into the mock

ASSUME PlayAssumption ==
  /\ PlayKinds \subseteq {"memory", "demo", "mock"} /\ IsFiniteSet(PlayCalls) /\ Seed \in Nat
  /\ \A req \in PlayRequests : req.op \in {"debit", "credit", "rollback", "fund"} /\ req.amount \in Nat

VARIABLES plKind, plBalance, plKeys, plLedger, plReversed, plCall, plFaults, plFunds, plOverlap
plVars == <<plKind, plBalance, plKeys, plLedger, plReversed, plCall, plFaults, plFunds, plOverlap>>

PlIdle == [op |-> "none", key |-> 0, amount |-> 0, at |-> "idle", read |-> 0]

PlInit ==
  /\ plKind \in PlayKinds
  /\ plBalance = Seed
  /\ plKeys = {}       \* keys with a stored transaction
  /\ plLedger = {}     \* rows, with the call that made them: amounts are signed
  /\ plReversed = {}   \* keys whose transaction was rolled back
  /\ plCall = [c \in PlayCalls |-> PlIdle]
  /\ plFaults = 0
  /\ plFunds = 0       \* history: coins funded without a row
  /\ plOverlap = FALSE \* history: a balance or a key was read between another call's read and record

Signed(call) == IF call.op = "debit" THEN 0 - call.amount ELSE call.amount
RowOf(c) == [by |-> c, key |-> plCall[c].key, amount |-> Signed(plCall[c])]

PlGo(c, at) == plCall' = [plCall EXCEPT ![c].at = at]

PlAsk(c, req) ==
  /\ plCall[c].at = "idle"
  /\ req.op = "rollback" => plKind = "demo"
  /\ req.op = "fund" => plKind # "demo"
  /\ plCall' = [plCall EXCEPT ![c] = [op |-> req.op, key |-> req.key, amount |-> req.amount, at |-> "asked", read |-> 0]]
  /\ UNCHANGED <<plKind, plBalance, plKeys, plLedger, plReversed, plFaults, plFunds, plOverlap>>

(***************************************************************************)
(* debit and credit under the lock: one step.                               *)
(***************************************************************************)
Short(call) == call.op = "debit" /\ plBalance < call.amount

Midway(c) ==
  \E other \in PlayCalls \ {c} :
    \/ plCall[other].at \in {"load", "write"}
    \/ plCall[other].at = "record" /\ plKind = "mock" /\ plCall[other].key = plCall[c].key

Once(c) ==
  LET call == plCall[c] IN
  /\ plKind # "mock" /\ call.at = "asked" /\ call.op \in {"debit", "credit"}
  /\ IF call.key \in plKeys THEN PlGo(c, "answered") /\ UNCHANGED <<plBalance, plKeys, plLedger>>
     ELSE IF Short(call) THEN PlGo(c, "refused") /\ UNCHANGED <<plBalance, plKeys, plLedger>>
     ELSE /\ plBalance' = plBalance + Signed(call)
          /\ plLedger' = plLedger \cup {RowOf(c)}
          /\ plKeys' = plKeys \cup {call.key}
          /\ PlGo(c, "answered")
  /\ plOverlap' = (plOverlap \/ Midway(c))
  /\ UNCHANGED <<plKind, plReversed, plFaults, plFunds>>

\* The demo wallet's rollback of the transaction stored under a key.
GivenBack(row) == plBalance - row.amount
Reversed(row) == row.key \in plReversed

RollBack(c) ==
  LET call == plCall[c] IN
  /\ plKind = "demo" /\ call.at = "asked" /\ call.op = "rollback"
  /\ \E row \in IF call.key \in plKeys THEN {r \in plLedger : r.key = call.key} ELSE {[key |-> 0, amount |-> 0]} :
       /\ CASE row.key = 0 -> PlGo(c, "unknown") /\ UNCHANGED <<plBalance, plReversed>>
            [] row.key # 0 /\ Reversed(row) -> PlGo(c, "answered") /\ UNCHANGED <<plBalance, plReversed>>
            [] row.key # 0 /\ ~Reversed(row) /\ GivenBack(row) < 0 ->
                 PlGo(c, "refused") /\ UNCHANGED <<plBalance, plReversed>>
            [] OTHER -> /\ plBalance' = GivenBack(row)
                        /\ plReversed' = plReversed \cup {row.key}
                        /\ PlGo(c, "answered")
  /\ UNCHANGED <<plKind, plKeys, plLedger, plFaults, plFunds, plOverlap>>

(***************************************************************************)
(* fund, and the mock's debit and credit, which take no lock.               *)
(***************************************************************************)
FundRead(c) ==
  /\ plCall[c].op = "fund" /\ plCall[c].at = "asked"
  /\ plCall' = [plCall EXCEPT ![c].at = "write", ![c].read = plBalance]
  /\ plOverlap' = (plOverlap \/ Midway(c))
  /\ UNCHANGED <<plKind, plBalance, plKeys, plLedger, plReversed, plFaults, plFunds>>

MockFault(c) ==
  /\ plKind = "mock" /\ plCall[c].at = "asked" /\ plCall[c].op \in {"debit", "credit"}
  /\ plFaults < PlayFaults /\ plFaults' = plFaults + 1
  /\ PlGo(c, "raised")
  /\ UNCHANGED <<plKind, plBalance, plKeys, plLedger, plReversed, plFunds, plOverlap>>

MockCheck(c) ==
  LET call == plCall[c] IN
  /\ plKind = "mock" /\ call.at = "asked" /\ call.op \in {"debit", "credit"}
  /\ PlGo(c, CASE call.key \in plKeys -> "answered"
               [] call.key \notin plKeys /\ Short(call) -> "refused"
               [] OTHER -> "load")
  /\ plOverlap' = (plOverlap \/ Midway(c))
  /\ UNCHANGED <<plKind, plBalance, plKeys, plLedger, plReversed, plFaults, plFunds>>

MockLoad(c) ==
  /\ plCall[c].at = "load"
  /\ plCall' = [plCall EXCEPT ![c].at = "write", ![c].read = plBalance]
  /\ UNCHANGED <<plKind, plBalance, plKeys, plLedger, plReversed, plFaults, plFunds, plOverlap>>

\* What was read and changed is written back; the mock's fund writes no row.
WriteBack(c) ==
  LET call == plCall[c]
      rowless == call.op = "fund" /\ plKind = "mock"
  IN
  /\ call.at = "write"
  /\ plBalance' = call.read + Signed(call)
  /\ PlGo(c, IF rowless THEN "answered" ELSE "record")
  /\ plFunds' = plFunds + (IF rowless THEN call.amount ELSE 0)
  /\ UNCHANGED <<plKind, plKeys, plLedger, plReversed, plFaults, plOverlap>>

\* The mock looks at the key again, after the money moved; fund's keys differ in each call.
Recorded(call) == call.op # "fund" /\ call.key \in plKeys

RecordUnlessKnown(c) ==
  LET call == plCall[c] IN
  /\ call.at = "record"
  /\ PlGo(c, "answered")
  /\ plKeys' = IF call.op = "fund" THEN plKeys ELSE plKeys \cup {call.key}
  /\ plLedger' = IF Recorded(call) THEN plLedger ELSE plLedger \cup {RowOf(c)}
  /\ UNCHANGED <<plKind, plBalance, plReversed, plFaults, plFunds, plOverlap>>

PlNext ==
  \E c \in PlayCalls :
    \/ \E req \in PlayRequests : PlAsk(c, req)
    \/ Once(c) \/ RollBack(c) \/ FundRead(c) \/ MockFault(c) \/ MockCheck(c) \/ MockLoad(c) \/ WriteBack(c)
    \/ RecordUnlessKnown(c)

(***************************************************************************)
(* Properties.                                                              *)
(***************************************************************************)
PlTypeOK == plKind \in PlayKinds /\ plBalance \in Int /\ plReversed \subseteq plKeys

Quiet == \A c \in PlayCalls : plCall[c].at \notin {"write", "record"}
SumOf(rows) == SumFunction([row \in rows |-> row.amount])

\* The balance is what the ledger explains: every change of it has its row, and a rolled-back
\* transaction weighs nothing.  (Of calls that overlap without a lock nothing is said:
\* LedgerAlwaysExact is violated.)
LedgerExplains ==
  Quiet /\ ~plOverlap =>
    plBalance = Seed + plFunds + SumOf({row \in plLedger : row.key \notin plReversed})
LedgerAlwaysExact ==
  Quiet => plBalance = Seed + plFunds + SumOf({row \in plLedger : row.key \notin plReversed})

\* Nobody's balance is overdrawn, though a rollback takes a payout back.
NoOverdraft == plBalance >= 0 \/ (plKind = "mock" /\ plOverlap)

\* What the play-money wallets promise.
PlayMoneySafe == LedgerExplains /\ NoOverdraft
=============================================================================
