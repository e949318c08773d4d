----------------------------- MODULE Settlement -----------------------------
(***************************************************************************)
(* How one table's rounds are closed, decided, settled and paid, by the    *)
(* threads of the one process that drive it:                               *)
(*   Sweeper   api._start_sweeper calling TeenPattiService.sweep           *)
(*   Pump      Hub.tick_loop calling TeenPattiService.pump                 *)
(*   Operators HTTP threads: the start, close, result and settle routes,   *)
(*             every route that calls ensure_round, and cancel_round       *)
(*                                                                         *)
(* Room.lock makes each Room method one step; TeenPattiService._settle_lock *)
(* covers the credit loop of service.settle and nothing else.  Between two *)
(* calls every other thread runs.  All a driver keeps from one step to the *)
(* next are the rows room.settle returned: every other access goes through *)
(* room.round, which may be another round by then.                         *)
(*                                                                         *)
(* Clocks are three timers that may run out at any time after they start:  *)
(* the betting deadline, the result dwell and the retry backoff.  Amounts  *)
(* are left to RoundMoney: here a settlement row pays something exactly    *)
(* when its bet is on a winning seat.                                      *)
(***************************************************************************)
EXTENDS RoundLifecycle, FiniteSets

CONSTANTS
  Sweeper, Pump,   \* the two timer threads
  Operators,       \* HTTP threads
  Routes,          \* what they call: players reach only "start" (ensure_round)
  MaxRounds,       \* bound: rounds dealt
  BetIds,          \* bound: bets a round can hold
  MaxAttempts,     \* SETTLE_MAX_ATTEMPTS
  WalletFaults,    \* how wallet.credit may raise WalletError: {"fail", "lost"}
  WalletKeyed,     \* the wallet honours idempotency_key
  StoreRaises,     \* the settlement store may raise (a database error)
  NoDriver, NoRow

Drivers == {Sweeper, Pump} \cup Operators
Rounds == 1..MaxRounds
Rows == Rounds \X BetIds      \* settlement rows, by bet_id

ASSUME BoundAssumption == MaxRounds \in Nat /\ MaxAttempts \in Nat \ {0}
ASSUME DriverAssumption ==
  /\ Sweeper # Pump /\ Sweeper \notin Operators /\ Pump \notin Operators
  /\ NoDriver \notin Drivers /\ NoRow \notin Rows
ASSUME RouteAssumption == Routes \subseteq {"start", "close", "publish", "settle", "cancel"}
ASSUME FaultAssumption ==
  /\ WalletFaults \subseteq {"fail", "lost"}
  /\ WalletKeyed \in BOOLEAN /\ StoreRaises \in BOOLEAN

VARIABLES
  \* Room and its rounds
  cur,        \* number of room.round, 0 before the first deal
  status,     \* [Rounds -> RoundStatus]
  bets,       \* [Rounds -> SUBSET BetIds]: accepted bets
  voided,     \* [Rounds -> SUBSET BetIds]: bets of a cancelled round
  winners,    \* [Rounds -> SUBSET BetIds]: bets on a winning seat
  settled,    \* [Rounds -> BOOLEAN]: _settled, the rows exist
  resume,     \* [Rounds -> status]: _settle_resume_from
  attempts,   \* [Rounds -> Nat]: _settle_attempts
  \* timers
  expired,    \* the current round's betting deadline has passed
  dwelling,   \* the last published result is still to be shown
  backoff,    \* the current round's retry is not due yet
  \* settlement store, wallet, service records
  store,      \* [Rows -> "none" | "recorded" | "credited"]
  credits,    \* [Rows -> Nat]: times the wallet moved the payout
  refunds,    \* stakes credited back under "cancel:<bet_id>"
  history,    \* [Rounds -> "none" | "blank" | "final"]: round_history rows
  alerts,     \* rounds in settlement_alerts
  settleLock, \* holder of _settle_lock
  \* drivers
  pc,         \* [Drivers -> step]
  retrying,   \* the sweeper is in _retry_settlement
  todo,       \* [Drivers -> SUBSET Rows]: rows left in its credit or refund loop
  row         \* [Drivers -> row its loop is at]

roomVars == <<cur, status, bets, voided, winners, settled, resume, attempts>>
timers == <<expired, dwelling, backoff>>
ledgers == <<store, credits, refunds>>
records == <<history, alerts>>
loop == <<settleLock, todo, row>>
vars == <<roomVars, timers, ledgers, records, loop, pc, retrying>>

RoundRows(r) == {r} \X bets[r]
Won(b) == b[2] \in winners[b[1]]
Unpaid(r) == {b \in RoundRows(r) : Won(b) /\ credits[b] = 0}

Steps == {"idle", "close", "look", "publish", "decide", "settle", "lock",
          "record", "credit", "mark", "park", "sweepPark", "history",
          "rehistory", "deal", "start", "restore", "giveup", "cancel", "void"}

-----------------------------------------------------------------------------
Init ==
  /\ cur = 0
  /\ status = [r \in Rounds |-> UPCOMING]
  /\ bets = [r \in Rounds |-> {}] /\ voided = [r \in Rounds |-> {}]
  /\ winners = [r \in Rounds |-> {}]
  /\ settled = [r \in Rounds |-> FALSE]
  /\ resume = [r \in Rounds |-> UPCOMING]
  /\ attempts = [r \in Rounds |-> 0]
  /\ expired = FALSE /\ dwelling = FALSE /\ backoff = FALSE
  /\ store = [b \in Rows |-> "none"]
  /\ credits = [b \in Rows |-> 0] /\ refunds = {}
  /\ history = [r \in Rounds |-> "none"] /\ alerts = {}
  /\ settleLock = NoDriver
  /\ pc = [d \in Drivers |-> "idle"]
  /\ retrying = FALSE
  /\ todo = [d \in Drivers |-> {}]
  /\ row = [d \in Drivers |-> NoRow]

Goto(d, step) == pc' = [pc EXCEPT ![d] = step]

\* Where an exception out of publish_result or settle takes its caller: pump
\* swallows what settle raises and goes on to deal; sweep parks the round in its
\* first branch and only audits in its retry branch; a route answers an error.
AfterError(d) ==
  CASE d = Pump -> "deal"
    [] d = Sweeper /\ ~retrying -> "sweepPark"
    [] OTHER -> "idle"

\* An exception sweep does not name leaves the pass altogether.
AfterLeak(d) == IF d = Pump THEN "deal" ELSE "idle"

AfterSettle(d) ==
  CASE d = Pump -> "deal"
    [] d = Sweeper /\ retrying -> "rehistory"
    [] OTHER -> "idle"

-----------------------------------------------------------------------------
(* Bets and timers.                                                        *)

\* A bet accepted by Room.place_bet (BetPlacement has the whole of it).
AcceptBet ==
  /\ cur # 0 /\ status[cur] = BETTING_OPEN /\ ~expired
  /\ \E i \in BetIds \ bets[cur] : bets' = [bets EXCEPT ![cur] = @ \cup {i}]
  /\ UNCHANGED <<cur, status, voided, winners, settled, resume, attempts, timers,
                 ledgers, records, loop, pc, retrying>>

DeadlinePasses ==
  /\ cur # 0 /\ status[cur] = BETTING_OPEN /\ ~expired
  /\ expired' = TRUE
  /\ UNCHANGED <<roomVars, dwelling, backoff, ledgers, records, loop, pc, retrying>>

DwellEnds ==
  /\ dwelling /\ dwelling' = FALSE
  /\ UNCHANGED <<roomVars, expired, backoff, ledgers, records, loop, pc, retrying>>

BackoffEnds ==
  /\ backoff /\ backoff' = FALSE
  /\ UNCHANGED <<roomVars, expired, dwelling, ledgers, records, loop, pc, retrying>>

-----------------------------------------------------------------------------
(* What starts each driver.                                                *)

\* sweep, the BETTING_OPEN branch: the status is read without the lock.
SweepExpired ==
  /\ pc[Sweeper] = "idle" /\ cur # 0
  /\ status[cur] = BETTING_OPEN /\ expired
  /\ Goto(Sweeper, "close") /\ retrying' = FALSE
  /\ UNCHANGED <<roomVars, timers, ledgers, records, loop>>

\* Mutant: one retry more than the budget.
SweepPendingOffByOne ==
  /\ pc[Sweeper] = "idle" /\ cur # 0 /\ status[cur] = SETTLED_PENDING
  /\ \/ attempts[cur] > MaxAttempts /\ Goto(Sweeper, "giveup")
     \/ attempts[cur] <= MaxAttempts /\ ~backoff /\ Goto(Sweeper, "restore")
  /\ UNCHANGED <<roomVars, timers, ledgers, records, loop, retrying>>

\* sweep, the SETTLED_PENDING branch: exhausted, due, or still backing off.
SweepPending ==
  /\ pc[Sweeper] = "idle" /\ cur # 0 /\ status[cur] = SETTLED_PENDING
  /\ \/ attempts[cur] >= MaxAttempts /\ Goto(Sweeper, "giveup")
     \/ attempts[cur] < MaxAttempts /\ ~backoff /\ Goto(Sweeper, "restore")
  /\ UNCHANGED <<roomVars, timers, ledgers, records, loop, retrying>>

\* mark_settle_failed, which does nothing to a round no longer parked, then
\* _alert_settle_failed.
GiveUp ==
  /\ pc[Sweeper] = "giveup"
  /\ status' = IF status[cur] = SETTLED_PENDING
               THEN [status EXCEPT ![cur] = SETTLE_FAILED] ELSE status
  /\ alerts' = alerts \cup {cur}
  /\ Goto(Sweeper, "idle")
  /\ UNCHANGED <<cur, bets, voided, winners, settled, resume, attempts, timers, ledgers,
                 history, loop, retrying>>

\* _retry_settlement: restore_resume_status, then on from the restored point.
Restore ==
  /\ pc[Sweeper] = "restore"
  /\ status' = IF status[cur] = SETTLED_PENDING
               THEN [status EXCEPT ![cur] = resume[cur]] ELSE status
  /\ Goto(Sweeper, IF status'[cur] = BETTING_CLOSED THEN "publish" ELSE "settle")
  /\ retrying' = TRUE
  /\ UNCHANGED <<cur, bets, voided, winners, settled, resume, attempts, timers, ledgers,
                 records, loop>>

\* pump, down to its first decision.
PumpTick ==
  /\ pc[Pump] = "idle" /\ cur # 0
  /\ Goto(Pump, IF status[cur] = BETTING_OPEN /\ expired THEN "close" ELSE "look")
  /\ UNCHANGED <<roomVars, timers, ledgers, records, loop, retrying>>

PumpLook ==
  /\ pc[Pump] = "look"
  /\ Goto(Pump, IF status[cur] = BETTING_CLOSED THEN "publish" ELSE "decide")
  /\ UNCHANGED <<roomVars, timers, ledgers, records, loop, retrying>>

PumpDecide ==
  /\ pc[Pump] = "decide"
  /\ Goto(Pump, IF status[cur] \in {RESULT, SETTLED, SETTLED_PENDING}
                THEN "settle" ELSE "deal")
  /\ UNCHANGED <<roomVars, timers, ledgers, records, loop, retrying>>

\* pump holds a settled round on screen for result_dwell_ms, then deals.
PumpDeal ==
  /\ pc[Pump] = "deal"
  /\ Goto(Pump, IF Replaceable(status[cur]) /\ ~dwelling THEN "start" ELSE "idle")
  /\ UNCHANGED <<roomVars, timers, ledgers, records, loop, retrying>>

\* Bound: a round past its retry budget is not cancelled again (every cancel of a
\* parked round lets a settle in flight park it once more, without end).
CancelBound == attempts[cur] <= MaxAttempts

\* A route: start_round or ensure_round, close_betting, publish_result, settle,
\* cancel_round; all but the first fail on a room that never had a round.
OperatorCalls(d) ==
  /\ d \in Operators /\ pc[d] = "idle"
  /\ \E step \in Routes : /\ step = "start" \/ cur # 0
                          /\ step = "cancel" => CancelBound
                          /\ Goto(d, step)
  /\ UNCHANGED <<roomVars, timers, ledgers, records, loop, retrying>>

-----------------------------------------------------------------------------
(* Room methods, each under Room.lock.                                     *)

CloseBetting(d) ==
  /\ pc[d] = "close"
  /\ status' = IF status[cur] = BETTING_OPEN
               THEN [status EXCEPT ![cur] = BETTING_CLOSED] ELSE status
  /\ Goto(d, CASE d = Pump -> "look" [] d = Sweeper -> "publish" [] OTHER -> "idle")
  /\ UNCHANGED <<cur, bets, voided, winners, settled, resume, attempts, timers, ledgers,
                 records, loop, retrying>>

\* calculate_result: the winning seats are among the staked ones, so some bet
\* wins whenever there is a bet.  publish_result then starts the dwell.
PublishResult(d) ==
  /\ pc[d] = "publish" /\ status[cur] = BETTING_CLOSED
  /\ \E won \in SUBSET bets[cur] :
       /\ won = {} <=> bets[cur] = {}
       /\ winners' = [winners EXCEPT ![cur] = won]
  /\ status' = [status EXCEPT ![cur] = RESULT]
  /\ dwelling' = TRUE
  /\ Goto(d, CASE d = Pump -> "decide" [] d = Sweeper -> "settle" [] OTHER -> "idle")
  /\ UNCHANGED <<cur, bets, voided, settled, resume, attempts, expired, backoff, ledgers,
                 records, loop, retrying>>

\* Another thread published first.  pump's own publish_result is not guarded: the
\* exception ends the tick.
PublishRefused(d) ==
  /\ pc[d] = "publish" /\ status[cur] # BETTING_CLOSED
  /\ Goto(d, IF d = Pump THEN "idle" ELSE AfterError(d))
  /\ UNCHANGED <<roomVars, timers, ledgers, records, loop, retrying>>

CanSettle(r) == settled[r] \/ status[r] \in {RESULT, RESULT_DECLARED}

\* room.settle: the first call builds the rows and closes the round, a later one
\* replays them whatever the status.  The rows are the driver's to pay.
SettleRoom(d) ==
  /\ pc[d] = "settle" /\ CanSettle(cur)
  /\ settled' = [settled EXCEPT ![cur] = TRUE]
  /\ status' = IF settled[cur] THEN status ELSE [status EXCEPT ![cur] = CLOSED]
  /\ todo' = [todo EXCEPT ![d] = RoundRows(cur)]
  /\ Goto(d, "lock")
  /\ UNCHANGED <<cur, bets, voided, winners, resume, attempts, timers, ledgers, records,
                 settleLock, row, retrying>>

SettleRefused(d) ==
  /\ pc[d] = "settle" /\ ~CanSettle(cur)
  /\ Goto(d, AfterError(d))
  /\ UNCHANGED <<roomVars, timers, ledgers, records, loop, retrying>>

\* start_round: the room refuses while the previous round is active.
StartRound(d) ==
  /\ pc[d] = "start" /\ cur < MaxRounds
  /\ cur # 0 => Replaceable(status[cur])
  /\ cur' = cur + 1
  /\ status' = [status EXCEPT ![cur + 1] = BETTING_OPEN]
  /\ expired' = FALSE /\ backoff' = FALSE
  /\ Goto(d, "idle")
  /\ UNCHANGED <<bets, voided, winners, settled, resume, attempts, dwelling, ledgers,
                 records, loop, retrying>>

StartRefused(d) ==
  /\ pc[d] = "start"
  /\ cur = 0 => MaxRounds = 0
  /\ cur \in 1..(MaxRounds - 1) => ~Replaceable(status[cur])
  /\ Goto(d, "idle")
  /\ UNCHANGED <<roomVars, timers, ledgers, records, loop, retrying>>

-----------------------------------------------------------------------------
(* The credit loop of service.settle, under _settle_lock.                  *)

\* Mutant: the credit loop without _settle_lock.
TakeNoLock(d) ==
  /\ pc[d] = "lock"
  /\ Goto(d, "record")
  /\ UNCHANGED <<roomVars, timers, ledgers, records, loop, retrying>>

TakeLock(d) ==
  /\ pc[d] = "lock" /\ settleLock = NoDriver
  /\ settleLock' = d
  /\ Goto(d, "record")
  /\ UNCHANGED <<roomVars, timers, ledgers, records, todo, row, retrying>>

\* Mutant: every row is paid, the losers' too.
RecordRowPaysAll(d) ==
  /\ pc[d] = "record"
  /\ \E b \in todo[d] :
       /\ store' = [store EXCEPT ![b] = "recorded"]
       /\ row' = [row EXCEPT ![d] = b]
       /\ Goto(d, "credit")
  /\ UNCHANGED <<roomVars, timers, credits, refunds, records, settleLock, todo, retrying>>

\* settlements.record, and `continue` on a row already credited.
RecordRow(d) ==
  /\ pc[d] = "record"
  /\ \E b \in todo[d] :
       IF store[b] = "credited"
       THEN /\ todo' = [todo EXCEPT ![d] = @ \ {b}]
            /\ UNCHANGED <<store, row, pc>>
       ELSE /\ store' = [store EXCEPT ![b] = "recorded"]
            /\ row' = [row EXCEPT ![d] = b]
            /\ Goto(d, IF Won(b) THEN "credit" ELSE "mark")
            /\ UNCHANGED todo
  /\ UNCHANGED <<roomVars, timers, credits, refunds, records, settleLock, retrying>>

\* Mutant: a fresh idempotency key for every attempt.
CreditUnkeyed(b) == credits' = [credits EXCEPT ![b] = @ + 1]

\* wallet.credit under "settle:<bet_id>".
Credit(b) ==
  credits' = IF WalletKeyed /\ credits[b] > 0 THEN credits
             ELSE [credits EXCEPT ![b] = @ + 1]

CreditRow(d) ==
  /\ pc[d] = "credit"
  /\ Credit(row[d])
  /\ Goto(d, "mark")
  /\ UNCHANGED <<roomVars, timers, store, refunds, records, loop, retrying>>

MarkRow(d) ==
  /\ pc[d] = "mark"
  /\ store' = [store EXCEPT ![row[d]] = "credited"]
  /\ todo' = [todo EXCEPT ![d] = @ \ {row[d]}]
  /\ row' = [row EXCEPT ![d] = NoRow]
  /\ Goto(d, "record")
  /\ UNCHANGED <<roomVars, timers, credits, refunds, records, settleLock, retrying>>

\* Leaving the `with` block, for whatever reason.
LeaveLoop(d, step) ==
  /\ settleLock' = NoDriver
  /\ todo' = [todo EXCEPT ![d] = {}]
  /\ row' = [row EXCEPT ![d] = NoRow]
  /\ Goto(d, step)

LoopDone(d) ==
  /\ pc[d] = "record" /\ todo[d] = {}
  /\ LeaveLoop(d, "history")
  /\ UNCHANGED <<roomVars, timers, ledgers, records, retrying>>

\* Mutant: service.settle raises without parking the round.
CreditRaisesUnparked(d) ==
  /\ pc[d] = "credit" /\ "fail" \in WalletFaults
  /\ LeaveLoop(d, AfterError(d))
  /\ UNCHANGED <<roomVars, timers, ledgers, records, retrying>>

CreditRaises(d) ==
  /\ pc[d] = "credit"
  /\ \/ "fail" \in WalletFaults /\ UNCHANGED credits
     \/ "lost" \in WalletFaults /\ Credit(row[d])
  /\ LeaveLoop(d, "park")
  /\ UNCHANGED <<roomVars, timers, store, refunds, records, retrying>>

\* A database error out of record or mark_credited is no WalletError.
StoreFails(d) ==
  /\ StoreRaises /\ pc[d] \in {"record", "mark"} /\ todo[d] # {}
  /\ LeaveLoop(d, AfterLeak(d))
  /\ UNCHANGED <<roomVars, timers, ledgers, records, retrying>>

-----------------------------------------------------------------------------
(* Parking, and the history row.                                           *)

\* Mutants: the resume point is always the closed betting, or the enum's name in place
\* of its value.
MarkPendingAt(point) ==
  IF status[cur] \in {SETTLED_PENDING, SETTLE_FAILED}
  THEN UNCHANGED <<resume, status, attempts, backoff>>
  ELSE /\ resume' = [resume EXCEPT ![cur] = point]
       /\ IF CanTransition(status[cur], SETTLED_PENDING)
          THEN /\ status' = [status EXCEPT ![cur] = SETTLED_PENDING]
               /\ attempts' = [attempts EXCEPT ![cur] = @ + 1]
               /\ backoff' = TRUE
          ELSE UNCHANGED <<status, attempts, backoff>>
MarkPendingAtBetting == MarkPendingAt(BETTING_CLOSED)
MarkPendingByName == MarkPendingAt("RoundStatus.CLOSED")

\* mark_settle_pending on whatever round the room holds now: the resume point is
\* written before the transition is validated, and an illegal transition is
\* swallowed by _park_settlement.
MarkSettlePending ==
  IF status[cur] \in {SETTLED_PENDING, SETTLE_FAILED}
  THEN UNCHANGED <<resume, status, attempts, backoff>>
  ELSE /\ resume' = [resume EXCEPT ![cur] = status[cur]]
       /\ IF CanTransition(status[cur], SETTLED_PENDING)
          THEN /\ status' = [status EXCEPT ![cur] = SETTLED_PENDING]
               /\ attempts' = [attempts EXCEPT ![cur] = @ + 1]
               /\ backoff' = TRUE
          ELSE UNCHANGED <<status, attempts, backoff>>

\* service.settle parks and raises again; sweep's first branch parks once more.
Park(d) ==
  /\ pc[d] \in {"park", "sweepPark"}
  /\ MarkSettlePending
  /\ Goto(d, IF pc[d] = "park" THEN AfterError(d) ELSE "idle")
  /\ UNCHANGED <<cur, bets, voided, winners, settled, expired, dwelling, ledgers, records,
                 loop, retrying>>

\* _record_history: room.round as it is now, once per round_id.
RecordHistory(d) ==
  /\ pc[d] \in {"history", "rehistory"}
  /\ history' = IF history[cur] # "none" THEN history
                ELSE [history EXCEPT ![cur] = IF settled[cur] THEN "final" ELSE "blank"]
  /\ Goto(d, IF pc[d] = "history" THEN AfterSettle(d) ELSE "idle")
  /\ UNCHANGED <<roomVars, timers, ledgers, alerts, loop, retrying>>

-----------------------------------------------------------------------------
(* cancel_round: Room.cancel, then one wallet.credit per voided bet.       *)

\* Mutant: every bet of the round is voided, not only the accepted ones.
CancelRoomVoidsAll(d) ==
  /\ pc[d] = "cancel" /\ status[cur] \notin {RESULT, SETTLED, CLOSED}
  /\ voided' = [voided EXCEPT ![cur] = @ \cup bets[cur]]
  /\ bets' = [bets EXCEPT ![cur] = {}]
  /\ todo' = [todo EXCEPT ![d] = RoundRows(cur)]
  /\ status' = [status EXCEPT ![cur] = CLOSED]
  /\ Goto(d, "void")
  /\ UNCHANGED <<cur, winners, settled, resume, attempts, timers, ledgers, records,
                 settleLock, row, retrying>>

\* Settled bets are won or lost, no longer accepted, and are not voided.
CancelRoom(d) ==
  /\ pc[d] = "cancel" /\ status[cur] \notin {RESULT, SETTLED, CLOSED}
  /\ LET void == IF settled[cur] THEN {} ELSE bets[cur]
     IN  /\ voided' = [voided EXCEPT ![cur] = @ \cup void]
         /\ bets' = [bets EXCEPT ![cur] = @ \ void]
         /\ todo' = [todo EXCEPT ![d] = {cur} \X void]
  /\ status' = [status EXCEPT ![cur] = CLOSED]
  /\ Goto(d, "void")
  /\ UNCHANGED <<cur, winners, settled, resume, attempts, timers, ledgers, records,
                 settleLock, row, retrying>>

CancelRefused(d) ==
  /\ pc[d] = "cancel" /\ status[cur] \in {RESULT, SETTLED, CLOSED}
  /\ Goto(d, "idle")
  /\ UNCHANGED <<roomVars, timers, ledgers, records, loop, retrying>>

VoidRow(d) ==
  /\ pc[d] = "void"
  /\ \E b \in todo[d] : /\ refunds' = refunds \cup {b}
                        /\ todo' = [todo EXCEPT ![d] = @ \ {b}]
  /\ UNCHANGED <<roomVars, timers, store, credits, records, settleLock, row, pc, retrying>>

\* The route answers an error and nothing comes back for the rest of the bets: a
\* second cancel_round is refused.
VoidRaises(d) ==
  /\ pc[d] = "void" /\ todo[d] # {}
  /\ \/ "fail" \in WalletFaults /\ UNCHANGED refunds
     \/ "lost" \in WalletFaults /\ \E b \in todo[d] : refunds' = refunds \cup {b}
  /\ todo' = [todo EXCEPT ![d] = {}]
  /\ Goto(d, "idle")
  /\ UNCHANGED <<roomVars, timers, store, credits, records, settleLock, row, retrying>>

VoidDone(d) ==
  /\ pc[d] = "void" /\ todo[d] = {}
  /\ Goto(d, "idle")
  /\ UNCHANGED <<roomVars, timers, ledgers, records, loop, retrying>>

-----------------------------------------------------------------------------
Driver(d) ==
  \/ CloseBetting(d) \/ PublishResult(d) \/ PublishRefused(d)
  \/ SettleRoom(d) \/ SettleRefused(d) \/ StartRound(d) \/ StartRefused(d)
  \/ TakeLock(d) \/ RecordRow(d) \/ CreditRow(d) \/ MarkRow(d) \/ LoopDone(d)
  \/ CreditRaises(d) \/ StoreFails(d) \/ Park(d) \/ RecordHistory(d)
  \/ CancelRoom(d) \/ CancelRefused(d) \/ VoidRow(d) \/ VoidRaises(d) \/ VoidDone(d)

SweepTick == SweepExpired \/ SweepPending \/ GiveUp \/ Restore
PumpStep == PumpTick \/ PumpLook \/ PumpDecide \/ PumpDeal
Timer == DeadlinePasses \/ DwellEnds \/ BackoffEnds

Next ==
  \/ AcceptBet \/ Timer \/ SweepTick \/ PumpStep
  \/ \E d \in Operators : OperatorCalls(d)
  \/ \E d \in Drivers : Driver(d)

Spec == Init /\ [][Next]_vars

\* The sweeper wakes every second, deadlines and backoffs run out, a thread inside
\* a call goes on, and the sweeper gets a lock that is free again and again (every
\* other holder sleeps a second between ticks).  Nothing is assumed of pump, which
\* runs only for rooms somebody watches, beyond finishing what it began.
FairSpec ==
  /\ Spec
  /\ WF_vars(SweepTick) /\ WF_vars(DeadlinePasses) /\ WF_vars(BackoffEnds)
  /\ WF_vars(PumpLook \/ PumpDecide \/ PumpDeal)
  /\ \A d \in Drivers : WF_vars(Driver(d))
  /\ SF_vars(TakeLock(Sweeper))

-----------------------------------------------------------------------------
TypeOK ==
  /\ cur \in 0..MaxRounds
  /\ status \in [Rounds -> RoundStatus] /\ resume \in [Rounds -> RoundStatus]
  /\ bets \in [Rounds -> SUBSET BetIds] /\ voided \in [Rounds -> SUBSET BetIds]
  /\ winners \in [Rounds -> SUBSET BetIds]
  /\ settled \in [Rounds -> BOOLEAN] /\ attempts \in [Rounds -> Nat]
  /\ expired \in BOOLEAN /\ dwelling \in BOOLEAN /\ backoff \in BOOLEAN
  /\ store \in [Rows -> {"none", "recorded", "credited"}]
  /\ credits \in [Rows -> Nat] /\ refunds \subseteq Rows
  /\ history \in [Rounds -> {"none", "blank", "final"}] /\ alerts \subseteq Rounds
  /\ settleLock \in Drivers \cup {NoDriver}
  /\ pc \in [Drivers -> Steps] /\ retrying \in BOOLEAN
  /\ todo \in [Drivers -> SUBSET Rows] /\ row \in [Drivers -> Rows \cup {NoRow}]

InLoop == {"lock", "record", "credit", "mark"}

\* Round r's unpaid winnings are on somebody's way: parked for the sweep (or given
\* up with an alert), in a credit loop, or in a driver about to park or settle it.
Tracked(r) ==
  \/ r = cur /\ status[r] \in {SETTLED_PENDING, SETTLE_FAILED}
  \/ \E d \in Drivers : pc[d] \in InLoop /\ Unpaid(r) \subseteq todo[d]
  \/ r = cur /\ \E d \in Drivers : pc[d] = "park"
  \/ r = cur /\ pc[Sweeper] = "settle"

\* No payout is moved twice, however many threads settle, replay and retry.
PaidAtMostOnce == \A b \in Rows : credits[b] <= 1

\* Money only ever moves for a winning bet of a settled round whose settlement row
\* was recorded first.
PaidOnlyIfRecorded ==
  \A b \in Rows :
    credits[b] > 0 => settled[b[1]] /\ b \in RoundRows(b[1]) /\ Won(b) /\ store[b] # "none"

\* A row the store calls credited has been paid (what lets a later loop skip it).
CreditedMeansPaid ==
  \A b \in Rows : store[b] = "credited" /\ Won(b) => credits[b] > 0

\* While a round is on the table its unpaid winnings are never forgotten (the
\* promise of the sweep's docstring, for the round room.round still names).
UnpaidStaysTracked == cur # 0 /\ settled[cur] /\ Unpaid(cur) # {} => Tracked(cur)

\* A parked round resumes at the step that is missing: the credit loop if the rows
\* exist, settle if the result does, the result otherwise.
ResumePointRight ==
  cur # 0 /\ status[cur] = SETTLED_PENDING =>
    /\ resume[cur] \in {BETTING_CLOSED, RESULT, CLOSED}
    /\ resume[cur] = CLOSED <=> settled[cur]

\* The retry budget: never more attempts than SETTLE_MAX_ATTEMPTS, and a round is
\* given up, with an alert, only when they are used up.
BudgetHolds ==
  \A r \in Rounds :
    /\ attempts[r] <= MaxAttempts
    /\ status[r] = SETTLE_FAILED => attempts[r] = MaxAttempts /\ r \in alerts

\* What the retries promise: the missing step, within the budget.
RetrySound == ResumePointRight /\ BudgetHolds

\* Once a result is published, no bet is added and no winner redrawn: a retry pays
\* the rows of the first settlement (engine.settle: re-running returns the same).
OutcomeFrozen ==
  [][\A r \in Rounds : settled[r] \/ winners[r] # {} =>
        bets'[r] = bets[r] /\ winners'[r] = winners[r]]_vars

\* A round whose betting closes is closed for good or given up with an alert, and
\* if it is closed its winnings are paid, as long as it stays on the table.
EveryRoundEnds ==
  \A r \in Rounds :
    status[r] = BETTING_OPEN ~> (status[r] = CLOSED /\ Unpaid(r) = {}) \/ r \in alerts

\* No bet is both bought back and paid out, whatever cancel races with publish,
\* settle and retry.
NeverRefundedAndPaid ==
  \A b \in Rows : b \in refunds => b[2] \in voided[b[1]] /\ credits[b] = 0

-----------------------------------------------------------------------------
(* What makes the properties above inductive (SettlementProofs).           *)

\* Only a round that exists is closed, published, settled or cancelled.
CurKnown == cur = 0 => \A d \in Drivers : pc[d] \in {"idle", "start"}

\* A settled round is over but for its credits, and resumes at them.
SettledIsOver ==
  \A r \in Rounds :
    settled[r] => /\ r <= cur
                  /\ status[r] \in {CLOSED, SETTLED_PENDING, SETTLE_FAILED}
                  /\ status[r] = SETTLED_PENDING => resume[r] = CLOSED

\* A voided bet is out of its round, which takes no bet any more.
VoidedIsOut ==
  \A r \in Rounds :
    /\ voided[r] \cap bets[r] = {}
    /\ voided[r] # {} => r <= cur /\ status[r] # BETTING_OPEN
    /\ status[r] = SETTLED_PENDING => resume[r] # BETTING_OPEN

\* The rows that room.settle made.
Settleable == {b \in Rows : settled[b[1]] /\ b \in RoundRows(b[1])}

Crediting == {"record", "credit", "mark"}

\* What a driver holds is what room.settle or room.cancel gave it, and the credit
\* loop belongs to the holder of the lock.
LoopSound ==
  \A d \in Drivers :
    /\ pc[d] \in Crediting <=> settleLock = d
    /\ pc[d] \in InLoop => todo[d] \subseteq Settleable
    /\ pc[d] \in {"credit", "mark"} => row[d] \in todo[d] /\ store[row[d]] # "none"
    /\ pc[d] = "credit" => Won(row[d])
    /\ pc[d] = "mark" /\ Won(row[d]) => credits[row[d]] > 0
    /\ pc[d] = "void" => \A b \in todo[d] : b[2] \in voided[b[1]]

RecordedIsSettled == \A b \in Rows : store[b] # "none" => b \in Settleable

\* Rounds, drivers, store and wallet agree on every row, whatever fails.
LedgerInv ==
  /\ SettledIsOver /\ VoidedIsOut /\ LoopSound /\ RecordedIsSettled
  /\ CreditedMeansPaid /\ PaidOnlyIfRecorded /\ NeverRefundedAndPaid

-----------------------------------------------------------------------------
\* The implementation of the payout contract.
Due == {b \in Settleable : Won(b)}
Contract == INSTANCE PayoutContract WITH
  Payout <- Rows, due <- Due, credits <- credits
ImplementsContract == Contract!Spec

\* lifecycle.py: a round is never silently abandoned with an unsettled pot.  Not so
\* when a new round is dealt while the credit loop of the last one can still fail.
NeverAbandoned == \A r \in Rounds : settled[r] /\ Unpaid(r) # {} => Tracked(r)
=============================================================================
