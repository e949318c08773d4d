---------------------------- MODULE BetPlacement ----------------------------
(***************************************************************************)
(* TeenPattiService.place_bet with Room.place_bet, the idempotency store   *)
(* and the wallet it drives: HTTP threads place bets on one table while    *)
(* its betting window closes and the next round is dealt under them.       *)
(*                                                                         *)
(* Each request is a thread.  A step is one call that takes a lock or      *)
(* moves money: the store's claim, complete and release, the wallet's      *)
(* debit and credit, and the room's decision are each atomic, and nothing  *)
(* holds from one of them to the next.  A client retry is another request  *)
(* carrying the same key.                                                  *)
(*                                                                         *)
(* A payload is what _h() hashes (player, position, amount): all payloads  *)
(* here have a legal seat and chip, the other half of validate_bet being   *)
(* stateless.                                                              *)
(***************************************************************************)
EXTENDS Integers, FiniteSets

CONSTANTS
  Requests,     \* HTTP threads serving POST /bets
  Keys,         \* Idempotency-Key values
  Players,
  Payloads,     \* distinct bodies a key can arrive with
  PlayerOf,     \* [Payloads -> Players]
  AmountOf,     \* [Payloads -> Nat \ {0}]
  Fund,         \* initial balance of every player
  MaxBets,      \* config.max_bets_per_player_per_round
  MaxRounds,    \* bound: rounds dealt
  DebitFaults,  \* ways wallet.debit may raise: subset of {"fail", "lost"}
  CreditFaults, \* ways wallet.credit may raise: subset of {"fail", "lost"}
  NoPayload,    \* "no transaction under this key"
  NoBet         \* "no bet in this reply"

\* fail: the call raised and no money moved.  lost: the money moved and the
\* answer was lost (a timeout after commit).
Faults == {"fail", "lost"}

Bets == [key : Keys, payload : Payloads, round : 0..MaxRounds]

ASSUME PayloadAssumption ==
  /\ PlayerOf \in [Payloads -> Players]
  /\ AmountOf \in [Payloads -> Nat \ {0}]
  /\ NoPayload \notin Payloads
  /\ NoBet \notin Bets
ASSUME BoundAssumption ==
  Fund \in Nat /\ MaxBets \in Nat \ {0} /\ MaxRounds \in Nat
ASSUME FaultAssumption == DebitFaults \subseteq Faults /\ CreditFaults \subseteq Faults

VARIABLES
  round,    \* number of the current round, 0 before the first deal
  open,     \* the current round is BETTING_OPEN and before its deadline
  bets,     \* every bet ever created (Round.bets of all rounds)
  idem,     \* IdempotencyStore._entries, under "bet:<key>"
  debits,   \* wallet txns under "bet:<key>": the payload charged
  voids,    \* wallet txns under "bet-void:<key>": the payload returned
  balance,  \* wallet balances
  ask,      \* the key and payload each request carries
  pc,       \* where each request is in place_bet
  reply,    \* what it answered
  replyBet  \* the bet in the answer

vars == <<round, open, bets, idem, debits, voids, balance, ask, pc, reply, replyBet>>
money == <<debits, voids, balance>>
window == <<round, open>>
answers == <<reply, replyBet>>

Absent == [state |-> "absent", payload |-> NoPayload, bet |-> NoBet]
Held(p) == [state |-> "held", payload |-> p, bet |-> NoBet]
Done(p, b) == [state |-> "done", payload |-> p, bet |-> b]
Entries == [state : {"absent", "held", "done"}, payload : Payloads \cup {NoPayload},
            bet : Bets \cup {NoBet}]

Steps == {"validate", "balance", "claim", "debit", "create", "refund",
          "release", "complete", "done"}
Replies == {"none", "accepted", "replayed", "refused", "insufficient",
            "duplicate", "in_flight", "wallet_error", "refunded", "refund_failed"}

\* The steps between a fresh claim and complete() or release().
Owning == {"debit", "create", "refund", "release", "complete"}

KeyOf(r) == ask[r].key
PayloadOf(r) == ask[r].payload

-----------------------------------------------------------------------------
Init ==
  /\ round = 0 /\ open = FALSE /\ bets = {}
  /\ idem = [k \in Keys |-> Absent]
  /\ debits = [k \in Keys |-> NoPayload]
  /\ voids = [k \in Keys |-> NoPayload]
  /\ balance = [p \in Players |-> Fund]
  /\ ask \in [Requests -> [key : Keys, payload : Payloads]]
  /\ pc = [r \in Requests |-> "validate"]
  /\ reply = [r \in Requests |-> "none"]
  /\ replyBet = [r \in Requests |-> NoBet]

\* The thread answers and ends.
Answer(r, code, bet) ==
  /\ pc' = [pc EXCEPT ![r] = "done"]
  /\ reply' = [reply EXCEPT ![r] = code]
  /\ replyBet' = [replyBet EXCEPT ![r] = bet]

Goto(r, step) ==
  /\ pc' = [pc EXCEPT ![r] = step]
  /\ UNCHANGED answers

\* The thread goes on with the error it will raise already known.
Failing(r, step, code) ==
  /\ pc' = [pc EXCEPT ![r] = step]
  /\ reply' = [reply EXCEPT ![r] = code]
  /\ UNCHANGED replyBet

-----------------------------------------------------------------------------
(* The round under the requests.                                           *)

\* start_round: only over a round that is settled or closed.
StartRound ==
  /\ ~open /\ round < MaxRounds
  /\ round' = round + 1 /\ open' = TRUE
  /\ UNCHANGED <<bets, idem, money, ask, pc, answers>>

\* The deadline passes or close_betting runs; either shuts _window_open.
CloseBetting ==
  /\ open
  /\ open' = FALSE
  /\ UNCHANGED <<round, bets, idem, money, ask, pc, answers>>

-----------------------------------------------------------------------------
(* place_bet, call by call.                                                *)

AcceptedBy(player) ==
  {b \in bets : b.round = round /\ PlayerOf[b.payload] = player}

\* validate_bet: window and per-round limit, read without a lock.
ValidBet(r) == open /\ Cardinality(AcceptedBy(PlayerOf[PayloadOf(r)])) < MaxBets

Validate(r) ==
  /\ pc[r] = "validate"
  /\ IF ValidBet(r) THEN Goto(r, "balance") ELSE Answer(r, "refused", NoBet)
  /\ UNCHANGED <<window, bets, idem, money, ask>>

CanPay(r) == balance[PlayerOf[PayloadOf(r)]] >= AmountOf[PayloadOf(r)]

ReadBalance(r) ==
  /\ pc[r] = "balance"
  /\ IF CanPay(r) THEN Goto(r, "claim") ELSE Answer(r, "insufficient", NoBet)
  /\ UNCHANGED <<window, bets, idem, money, ask>>

\* Mutant: an in-flight entry is taken for a fresh one (the old store answered
\* None to both).
ClaimFreshOrHeld(r) ==
  /\ pc[r] = "claim" /\ idem[KeyOf(r)] \in {Absent, Held(PayloadOf(r))}
  /\ idem' = [idem EXCEPT ![KeyOf(r)] = Held(PayloadOf(r))]
  /\ Goto(r, "debit")
  /\ UNCHANGED <<window, bets, money, ask>>

\* Mutant: a completed entry is claimed again.
ClaimFreshOverDone(r) ==
  /\ pc[r] = "claim" /\ idem[KeyOf(r)].state # "held"
  /\ idem' = [idem EXCEPT ![KeyOf(r)] = Held(PayloadOf(r))]
  /\ Goto(r, "debit")
  /\ UNCHANGED <<window, bets, money, ask>>

\* idempotency.claim.
ClaimFresh(r) ==
  /\ pc[r] = "claim" /\ idem[KeyOf(r)].state = "absent"
  /\ idem' = [idem EXCEPT ![KeyOf(r)] = Held(PayloadOf(r))]
  /\ Goto(r, "debit")
  /\ UNCHANGED <<window, bets, money, ask>>

ClaimConflict(r) ==
  /\ pc[r] = "claim" /\ idem[KeyOf(r)].state # "absent"
  /\ idem[KeyOf(r)].payload # PayloadOf(r)
  /\ Answer(r, "duplicate", NoBet)
  /\ UNCHANGED <<window, bets, idem, money, ask>>

ClaimInFlight(r) ==
  /\ pc[r] = "claim" /\ idem[KeyOf(r)] = Held(PayloadOf(r))
  /\ Answer(r, "in_flight", NoBet)
  /\ UNCHANGED <<window, bets, idem, money, ask>>

\* Mutant: a replay that does not compare payload hashes.
ClaimReplayAnyPayload(r) ==
  /\ pc[r] = "claim" /\ idem[KeyOf(r)].state = "done"
  /\ Answer(r, "replayed", idem[KeyOf(r)].bet)
  /\ UNCHANGED <<window, bets, idem, money, ask>>

ClaimReplay(r) ==
  /\ pc[r] = "claim" /\ idem[KeyOf(r)].state = "done"
  /\ idem[KeyOf(r)].payload = PayloadOf(r)
  /\ Answer(r, "replayed", idem[KeyOf(r)].bet)
  /\ UNCHANGED <<window, bets, idem, money, ask>>

\* wallet.debit: a key already in txns replays and moves nothing.
ChargeOnce(r) ==
  IF debits[KeyOf(r)] # NoPayload THEN UNCHANGED money
  ELSE /\ debits' = [debits EXCEPT ![KeyOf(r)] = PayloadOf(r)]
       /\ balance' = [balance EXCEPT ![PlayerOf[PayloadOf(r)]] = @ - AmountOf[PayloadOf(r)]]
       /\ UNCHANGED voids

Chargeable(r) == debits[KeyOf(r)] # NoPayload \/ CanPay(r)

DebitTaken(r) ==
  /\ pc[r] = "debit" /\ Chargeable(r)
  /\ ChargeOnce(r) /\ Goto(r, "create")
  /\ UNCHANGED <<window, bets, idem, ask>>

\* Mutant: the insufficient-balance path forgets to release the key.
DebitInsufficientNoRelease(r) ==
  /\ pc[r] = "debit" /\ ~Chargeable(r)
  /\ Answer(r, "insufficient", NoBet)
  /\ UNCHANGED <<window, bets, idem, money, ask>>

DebitInsufficient(r) ==
  /\ pc[r] = "debit" /\ ~Chargeable(r)
  /\ Failing(r, "release", "insufficient")
  /\ UNCHANGED <<window, bets, idem, money, ask>>

\* Mutant: an adapter error is swallowed and the bet created anyway.
DebitRaisesIgnored(r) ==
  /\ pc[r] = "debit" /\ "fail" \in DebitFaults
  /\ Goto(r, "create")
  /\ UNCHANGED <<window, bets, idem, money, ask>>

\* Mutant: only WalletError is caught, so a leaked exception keeps the key.
DebitRaisesNoRelease(r) ==
  /\ pc[r] = "debit" /\ "fail" \in DebitFaults
  /\ Answer(r, "wallet_error", NoBet)
  /\ UNCHANGED <<window, bets, idem, money, ask>>

\* Any other exception out of the adapter: the code takes it that no money
\* moved, which a lost answer makes untrue.
DebitRaises(r) ==
  /\ pc[r] = "debit"
  /\ \/ "fail" \in DebitFaults /\ UNCHANGED money
     \/ "lost" \in DebitFaults /\ Chargeable(r) /\ ChargeOnce(r)
  /\ Failing(r, "release", "wallet_error")
  /\ UNCHANGED <<window, bets, idem, ask>>

\* Mutant: the bet is stamped with the round after.
NewBetNextRound(r) == [key |-> KeyOf(r), payload |-> PayloadOf(r), round |-> round + 1]

\* Room.place_bet, under the room lock: a key the round already has replays its
\* bet, otherwise window and limit are checked again before the bet is added.
NewBet(r) == [key |-> KeyOf(r), payload |-> PayloadOf(r), round |-> round]
KeyInRound(r) == \E b \in bets : b.round = round /\ b.key = KeyOf(r)
\* Mutant: the room re-checks the window but not the limit.
RoomAcceptsNoLimit(r) == NewBet(r) \in bets \/ (~KeyInRound(r) /\ open)

RoomAccepts(r) == NewBet(r) \in bets \/ (~KeyInRound(r) /\ ValidBet(r))

CreateBet(r) ==
  /\ pc[r] = "create" /\ RoomAccepts(r)
  /\ bets' = bets \cup {NewBet(r)}
  /\ pc' = [pc EXCEPT ![r] = "complete"]
  /\ replyBet' = [replyBet EXCEPT ![r] = NewBet(r)]
  /\ UNCHANGED <<window, idem, money, ask, reply>>

RefuseBet(r) ==
  /\ pc[r] = "create" /\ ~RoomAccepts(r)
  /\ Goto(r, "refund")
  /\ UNCHANGED <<window, bets, idem, money, ask>>

\* The compensating wallet.credit, once per "bet-void:<key>".
RefundOnce(r) ==
  IF voids[KeyOf(r)] # NoPayload THEN UNCHANGED money
  ELSE /\ voids' = [voids EXCEPT ![KeyOf(r)] = PayloadOf(r)]
       /\ balance' = [balance EXCEPT ![PlayerOf[PayloadOf(r)]] = @ + AmountOf[PayloadOf(r)]]
       /\ UNCHANGED debits

\* Mutant: the refused bet's key is released without the credit.
RefundSkipped(r) ==
  /\ pc[r] = "refund"
  /\ Failing(r, "release", "refunded")
  /\ UNCHANGED <<window, bets, idem, money, ask>>

Refund(r) ==
  /\ pc[r] = "refund"
  /\ RefundOnce(r) /\ Failing(r, "release", "refunded")
  /\ UNCHANGED <<window, bets, idem, ask>>

\* The credit raises: nothing catches it, so the key is not released either.
RefundRaises(r) ==
  /\ pc[r] = "refund"
  /\ \/ "fail" \in CreditFaults /\ UNCHANGED money
     \/ "lost" \in CreditFaults /\ RefundOnce(r)
  /\ Answer(r, "refund_failed", NoBet)
  /\ UNCHANGED <<window, bets, idem, ask>>

\* idempotency.release: drops the entry only while held by this payload.
Release(r) ==
  /\ pc[r] = "release"
  /\ idem' = IF idem[KeyOf(r)] = Held(PayloadOf(r))
              THEN [idem EXCEPT ![KeyOf(r)] = Absent] ELSE idem
  /\ Goto(r, "done")
  /\ UNCHANGED <<window, bets, money, ask>>

\* Mutant: the key is released after the bet instead of completed.
CompleteByRelease(r) ==
  /\ pc[r] = "complete"
  /\ idem' = [idem EXCEPT ![KeyOf(r)] = Absent]
  /\ Answer(r, "accepted", replyBet[r])
  /\ UNCHANGED <<window, bets, money, ask>>

\* idempotency.complete, then the answer.
Complete(r) ==
  /\ pc[r] = "complete"
  /\ idem' = [idem EXCEPT ![KeyOf(r)] = Done(@.payload, replyBet[r])]
  /\ Answer(r, "accepted", replyBet[r])
  /\ UNCHANGED <<window, bets, money, ask>>

-----------------------------------------------------------------------------
Request(r) ==
  \/ Validate(r) \/ ReadBalance(r)
  \/ ClaimFresh(r) \/ ClaimConflict(r) \/ ClaimInFlight(r) \/ ClaimReplay(r)
  \/ DebitTaken(r) \/ DebitInsufficient(r) \/ DebitRaises(r)
  \/ CreateBet(r) \/ RefuseBet(r) \/ Refund(r) \/ RefundRaises(r)
  \/ Release(r) \/ Complete(r)

Next == StartRound \/ CloseBetting \/ \E r \in Requests : Request(r)

Spec == Init /\ [][Next]_vars

\* An HTTP thread that started runs to its answer; rounds owe nothing.
FairSpec == Spec /\ \A r \in Requests : WF_vars(Request(r))

-----------------------------------------------------------------------------
TypeOK ==
  /\ round \in 0..MaxRounds /\ open \in BOOLEAN
  /\ bets \subseteq Bets
  /\ idem \in [Keys -> Entries]
  /\ debits \in [Keys -> Payloads \cup {NoPayload}]
  /\ voids \in [Keys -> Payloads \cup {NoPayload}]
  /\ balance \in [Players -> Int]
  /\ ask \in [Requests -> [key : Keys, payload : Payloads]]
  /\ pc \in [Requests -> Steps] /\ reply \in [Requests -> Replies]
  /\ replyBet \in [Requests -> Bets \cup {NoBet}]

Owner(r, k) == KeyOf(r) = k /\ pc[r] \in Owning
RefundFailed(k) == \E r \in Requests : KeyOf(r) = k /\ reply[r] = "refund_failed"

\* Between a claim and its complete() or release() the key has one owner: no two
\* requests with one key are ever both past the claim (service.py, step 8).
OneOwnerPerKey ==
  \A r1, r2 \in Requests : Owner(r1, KeyOf(r1)) /\ Owner(r2, KeyOf(r1)) => r1 = r2

\* A key buys at most one bet, whatever retries, conflicts and rounds come in
\* between (place_bet's promise that a duplicate replays the stored bet).
OneBetPerKey == \A b1, b2 \in bets : b1.key = b2.key => b1 = b2

\* A stake that was debited has become a bet or was given back, unless a request
\* is still at work on it or its compensating credit raised (step 10).
NoStrandedStake ==
  \A k \in Keys :
    debits[k] # NoPayload /\ ~RefundFailed(k) /\ (\A r \in Requests : ~Owner(r, k))
      => (\E b \in bets : b.key = k) \/ voids[k] # NoPayload

\* No key stays locked with nobody working on it: every error path released it,
\* except the one whose compensating credit raised.
NoOrphanClaim ==
  \A k \in Keys :
    idem[k].state = "held" => RefundFailed(k) \/ \E r \in Requests : Owner(r, k)

\* A bet without a live debit of its own payload only ever stands on a key that
\* was refunded before: the one hole of the retry path, and no other.
UnbackedOnlyAfterRefund ==
  \A b \in bets : debits[b.key] = b.payload \/ voids[b.key] # NoPayload

\* The bet in an answer is a created bet with the key and payload of the request
\* (a replay never hands one request another's bet).
AnswerIsOwnBet ==
  \A r \in Requests :
    replyBet[r] # NoBet =>
      replyBet[r] \in bets /\ replyBet[r].key = KeyOf(r) /\ replyBet[r].payload = PayloadOf(r)

\* The per-round limit holds although it is first checked outside the lock.
BetLimitHolds ==
  \A p \in Players : Cardinality(AcceptedBy(p)) <= MaxBets

\* complete() is final: no later claim or release drops or changes a result.
CompletedNeverDropped ==
  [][\A k \in Keys : idem[k].state = "done" => idem'[k] = idem[k]]_vars

\* A claimed key is completed or released in the end, unless its compensating
\* credit raised.
ClaimsEnd ==
  \A k \in Keys : idem[k].state = "held" ~> idem[k].state # "held" \/ RefundFailed(k)

-----------------------------------------------------------------------------
(* What makes the properties above inductive (BetPlacementProofs).         *)

\* The entry of a key somebody works on is that request's own claim.
HeldByOwner == \A r \in Requests : pc[r] \in Owning => idem[KeyOf(r)] = Held(PayloadOf(r))

\* A created bet stays findable by its key: in the stored result, or with the
\* request about to store it.
BetRemembered ==
  \A b \in bets :
    \/ idem[b.key].state = "done" /\ idem[b.key].bet = b
    \/ \E r \in Requests : pc[r] = "complete" /\ replyBet[r] = b

EntriesSound ==
  \A k \in Keys :
    /\ idem[k].state = "held" => idem[k] = Held(idem[k].payload)
    /\ idem[k].state = "done" => /\ idem[k].bet \in bets
                                /\ idem[k].bet.key = k
                                /\ idem[k].bet.payload = idem[k].payload

RepliesSound ==
  \A r \in Requests : /\ pc[r] = "complete" => replyBet[r] # NoBet
                      /\ reply[r] = "refund_failed" => pc[r] = "done"

\* Every key has one story: one owner, one entry, one bet, one answer, whatever the
\* adapter's faults (the inductive invariant behind the key properties).
KeyInv ==
  /\ HeldByOwner /\ OneOwnerPerKey /\ BetRemembered /\ EntriesSound /\ RepliesSound
  /\ OneBetPerKey /\ AnswerIsOwnBet /\ NoOrphanClaim

\* A key whose compensating credit failed stays locked with nobody working on it.
FailedKeepsKey ==
  \A k \in Keys :
    RefundFailed(k) => idem[k].state = "held" /\ \A r \in Requests : ~Owner(r, k)

\* What an owner may take for granted of the wallet at each of its steps.
OwnerKnowsWallet ==
  \A r \in Requests :
    LET k == KeyOf(r) IN
    /\ pc[r] \in {"debit", "release"} => debits[k] = NoPayload \/ voids[k] # NoPayload
    /\ pc[r] = "create" => debits[k] = PayloadOf(r) \/ voids[k] # NoPayload

\* Where every debited stake is, at every step (inductive with KeyInv when no debit
\* loses its answer).
StakeInv ==
  FailedKeepsKey /\ OwnerKnowsWallet /\ NoStrandedStake /\ UnbackedOnlyAfterRefund

-----------------------------------------------------------------------------
\* README and IDEMPOTENCY.md: each accepted bet was paid for, by a debit of its own
\* payload that was not given back.  Not so after a refund and a retry.
EveryBetPaidFor ==
  \A b \in bets : debits[b.key] = b.payload /\ voids[b.key] = NoPayload
=============================================================================
