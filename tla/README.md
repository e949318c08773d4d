# DearLive games in TLA+

The repository runs a card betting game. Players at a table (a *room*) bet on
seats while a window is open; the server closes the window, deals, publishes the
winning seats, splits the pot among the winning bets and credits a wallet that
usually belongs to somebody else. Around that game stand an API for operators, an
admin console, a serverless staging deployment, stores in Redis and Postgres, demo
bots and the page the players see. The parts that have to be right first are those
that move money: a bet is paid for exactly once, a payout is credited exactly once,
whatever threads, retries, timeouts and cancels come in between, and every coin of a
pot ends up somewhere. These are modelled in most detail and proved about. The rest
is modelled wherever requests can interleave, fail half way or meet something stale.

## 1. Inventory

| Component | State it keeps | Operations | Interacts with | What is hard |
|---|---|---|---|---|
| Round life cycle, `common/lifecycle.py` | none (a table) | `can_transition`, `transition`, backoff and budget | every status write | a round must not stop in a status nobody drives |
| Room, `teen_patti_pro/engine.py` | the round, its bets, carry-over, sequence numbers, one lock | `start_round`, `place_bet`, `close_betting`, `calculate_result`, `settle`, `mark_settle_pending`, `restore_resume_status`, `mark_settle_failed`, `cancel` | called by the service | `room.round` is replaced under callers that still mean the old one |
| Service, `teen_patti_pro/service.py` | rooms, round history, alerts, `_settle_lock` | `place_bet`, `pump`, `publish_result`, `settle`, `sweep`, `cancel_round`, `ensure_round` | room, wallet, stores | several locks, none held across a whole operation |
| Drivers: `api._start_sweeper`, `ws.Hub.tick_loop`, HTTP routes | none | one pass a second; one request | service | sweep, pump and routes drive one round at the same time |
| Idempotency store, `common/idempotency.py` | entry per key: absent, claimed, completed | `claim`, `complete`, `release` | `place_bet` | a retry while the first request runs, or after it failed |
| Wallets, `common/wallet.py`, `integrations/dearlive.py`, `dearlive_mock.py`, `wallet_demo.py` | balances, transactions per key | `get_balance`, `debit`, `credit`, `rollback`, `fund` | `place_bet`, `settle`, `cancel_round` | a call that raised may or may not have moved money; a balance read and written around a lock |
| Settlement store, `common/settlement.py`, `settlement_postgres.py` | row per bet, credited flag | `record`, `mark_credited` | `settle` | a crash or an error between credit and mark; two workers; ids used again |
| Card ranking, `engine.py` 60-206, `table.py` | the lookup table | `evaluate_hand`, `best_expansion`, `score_hand` | `calculate_result` | jokers, ties, rankings an operator orders |
| Seats, hub, bots: `engine.claim_seat`, `ws.py`, `bot_manager.py` | seats, members, connections, grace timers, bots | claim, leave, connect, drop, tick, bet | each other and the room | a reconnect racing the grace timer, bots displaced by people, a tick acting on an old round |
| Events and snapshot, `engine.py` 789-880 | event log per round | `snapshot`, `events_since` | HTTP, WebSocket | hidden cards seen early, events missed |
| Game HTTP API, `teen_patti_pro/api.py` | admin rooms and sessions, demo store | routes | all of the above | shared dictionaries changed from every HTTP thread |
| Player's page, `client/game.js` | what it shows | refresh, socket, tap, repeat | HTTP, WebSocket | answers that overtake each other |
| Provider wallet, `provider/ledger.py` | results, ledger, guards | debit, credit, rollback | wallet adapter, Redis | a rollback racing its debit or another; a claim never released |
| Provider sessions and tables, `provider/router.py`, `tables.py`, `sessions.py` | sessions, tokens, index of tokens | create, join, leave, delete, revoke | room, Redis | counting seats before sitting down; a token that cannot be found any more |
| Provider keys, `provider/dynamic_keys.py`, `auth.py` | a key in three entries with a life each, nonces, rate | issue, list, revoke, rotate, serve | Redis | a request that stops between the entries |
| Redis stores, `integrations/redis_store.py` | tokens, sessions, claims; one socket | redeem, touch, claim, complete, release | every HTTP thread | a reply read by another thread |
| Staging room, `staging/wsgi.py`, `state.py`, `redis_wallet.py` | copies of rooms, a lock with a life, markers | load, lock, sweep, handle, save | function instances | stale saves, lapsed locks, markers with nothing behind them |
| Staging economy, `staging/economy.py` | lists of rows | read, clear, push, append | function instances | a list half written |
| Demo sessions, `common/session.py`, `staging/demo.py` | sessions, counts per address | create, get, close, expire | HTTP threads, Redis | two first requests; an end that is overwritten |
| Admin store and scheduler, `common/admin_store.py`, `config_scheduler.py` | rules, versions, due changes | save, publish, roll back, apply | one shared connection | one thread's rollback drops another's work |
| Deck, plugin, configuration, assets, webhooks, simulator, front ends, SDKs, tools | own records | see section 6 | | no protocol of their own |

PROJECT.json lists each part with its sources and status, the hazards at their
lines, and every definition's source lines.

What makes each component correct:

- *bet placement*: a key has one owner and buys at most one bet; a debited stake
  becomes a bet or goes back; no key stays locked for nobody; an answer carries the
  requester's own bet; the per-round limit holds although it is checked early;
- *settlement*: a payout is due when its round is decided and is credited exactly
  once; money moves only for a recorded winning row; a failed round is retried from
  the step that is missing, within the budget, and ends paid or alerted; a bet is
  not both refunded and paid; a bet id pays once over all the lives of its room;
- *round money*: coins are conserved over rounds, splits, caps, rake and cancels;
  no winner loses in a dead heat without rake; shares are fair to the rounding;
- *ranking*: the jokers are put to their best use, a winner is beaten by nobody who
  was staked on, the ace ranks where its mode says;
- *wallets*: a balance is what its rows explain; nobody is overdrawn; what a wallet
  moved is what the bet's row says;
- *seats*: a seat has one owner; nobody keeps one for ever after leaving, or loses
  one while connected; people and bots are told apart;
- *events and page*: no card is shown before the result, no event is skipped over, no
  win is celebrated twice, no stake is shown that is not there;
- *access*: what was revoked is not served, what is live can be found to be revoked,
  a token or a signed request is good once;
- *provider and admin*: one debit is given back once, a key has one answer, an
  accepted join keeps its seat, a decided change keeps its status.

## 2. Modules

| Module | What it is |
|---|---|
| `RoundLifecycle` | statuses and the transition table of `lifecycle.py`; constant-level, extended by the next two |
| `BetPlacement` | `place_bet`, call by call, for any number of requests |
| `BetPlacementProofs` | its theorems |
| `FoldLemmas` | induction over finite sets, least members, the laws of sums over sets |
| `PayoutContract` | the abstract specification of settlement: due, then credited once |
| `Settlement` | sweeper, pump and operators driving the rounds of one table |
| `SettlementProofs` | ledger, retries, exactly-once, and that `Settlement` implements `PayoutContract` |
| `RoundMoney`, `MoneyProofs` | the amounts of one table, round after round; that no coin is lost and shares are fair |
| `RoomLives` | settlement rows and wallet keys across deletions of a room and restarts |
| `PayoutRows` | two workers settling one round over the Postgres store and an HTTP wallet |
| `PlayWallets` | the memory, demo and mock wallets |
| `CardRanking` | hands, jokers, lookup table, winners |
| `SeatHub`, `TableProofs` | seats, sockets, grace timers and the filling in of bots; their invariant, and the page's |
| `BotBets` | what the bots bet |
| `RoundEvents` | event log, snapshot and reconnect |
| `GameClient`, `PageBets` | the player's page: what it shows, and how it bets |
| `StagingRoom` | instances that load, lock, handle and save one room |
| `StagingShared` | settings, rules, webhooks, trails and coins that staging's requests share |
| `StagingEconomy` | the staging consoles' lists |
| `OperatorLogin` | the PIN of the consoles: failures, lockout, tokens |
| `StagingKeys` | short-lived provider keys, and requests served under them |
| `DemoSessions` | demo sessions of both deployments |
| `ProviderWallet`, `ProviderTables` | the operators' wallet calls; sessions and seats over the provider API |
| `AdminSessions` | sessions and tokens, minted and taken back |
| `SharedStores` | the Redis stores over one socket |
| `ConfigStore` | the admin store and the sweeper of scheduled changes, over one connection |
| `MCBetPlacement`, `MCSettlement` | instances for TLC |
| `MCTable` | `SeatHub`, `RoundMoney`, `GameClient` and `PageBets`: a room of the game server and the page that shows it |
| `MCStaging` | the seven modules of the staging deployment: `StagingRoom`, `StagingShared`, `OperatorLogin`, `StagingEconomy`, `StagingKeys`, `DemoSessions`, `AdminSessions` |
| `MCServices` | the ten modules about stores and services around the game |
| `ServiceProofs` | theorems about `MCServices`, and about `RoomLives` by itself |
| `AccessProofs` | who may do what on staging: the invariants of `OperatorLogin`, `StagingKeys`, `DemoSessions` and `AdminSessions` |
| `StagingProofs` | the invariants of the rest of staging, and from all of them the theorems about `MCStaging` |

How they meet. `BetPlacement` and `Settlement` meet in the room: the first has the
whole of a bet and only opens and shuts the window, the second has the whole of a
round and lets bets appear (`AcceptBet`). `Settlement` knows only whether a row pays;
how much is `RoundMoney`'s, and which seats win is `CardRanking`'s. `Settlement`
implements `PayoutContract` through an `INSTANCE` whose `due` is the set of winning
rows of settled rounds. What `Settlement` assumes of a store and a wallet is looked
at from the other side in `PayoutRows`, `PlayWallets` and `SharedStores`. `RoomLives`
takes a life of a room to be one round and looks at what comes after it.

The modules in `MCServices` share no state in the code other than through calls that
each of them models as its own steps, so a behaviour of `MCServices` picks one of them
(`service`) and runs it alone: the state space is the sum of theirs and not the
product. `MCStaging` and `MCTable` do the same (`about`).

### BetPlacement and the code

One request is one thread in `TeenPattiService.place_bet`; `pc` is the call it is
about to make. Each step is one call that takes a lock or moves money.

| Step | Actions | Code |
|---|---|---|
| `validate` | `Validate` | `room.validate_bet`: window and limit, no lock |
| `balance` | `ReadBalance` | `wallet.get_balance` |
| `claim` | `ClaimFresh`, `ClaimConflict`, `ClaimInFlight`, `ClaimReplay` | `idempotency.claim` and the branches on its outcome |
| `debit` | `DebitTaken`, `DebitInsufficient`, `DebitRaises` | `wallet.debit` and its three except clauses |
| `create` | `CreateBet`, `RefuseBet` | `room.place_bet` under the room lock |
| `refund` | `Refund`, `RefundRaises` | the compensating credit |
| `release`, `complete` | `Release`, `Complete` | `idempotency.release`, `complete` |

`debits` and `voids` are the wallet's transactions by key; `DebitFaults` and
`CreditFaults` say how an adapter may raise: `fail` (no money moved) or `lost` (it
moved, the answer did not come). Entries do not expire: the 24 h TTL is left out,
as a key that expired does to the money what a released one does.
Audit rows, webhooks and skills are left out too. Seat names and chips are legal
in every payload; what is illegal is refused by a stateless check before any of this.

### Settlement and the code

The threads are `Sweeper` (`api._start_sweeper`, one `sweep` a second), `Pump`
(`Hub.tick_loop`, one `pump` a second for watched rooms) and `Operators` (HTTP
threads on start, ensure, close, result, settle and cancel routes). `Room.lock`
makes each `Room` method one step; `_settle_lock` (`settleLock`) covers the credit
loop only. All else goes through `room.round` as it is at that moment, which is why
`park`, `history` and `restore` act on `cur` and not on the round the driver
began with: this is the code's behaviour and the source of two of the findings.
`expired`, `dwelling` and `backoff` are the three clocks, which may run out
whenever they run. A round keeps its own `status`, `bets`, `winners`, `resume` point
and `attempts` after it left the table, so that properties can speak of it.
`RESULT_DECLARED` and `ABOUT_TO_START` are in the table but no code path reaches
them (`_declare` has no caller).

### RoundMoney and the code

Each action is one `Room` method with its arithmetic in integers; `config` is one of
`Configs` for a whole run. `taken`, `paid`, `house` and `forfeited` count every coin
that crossed the table's edge. `StringKey` reproduces the string order of `bet_id`,
by which the bet that takes the remainder is chosen; `FirstIds` starts the counter
on both sides of the 9/10 boundary, where that order differs from the numeric one.

### SeatHub and the code

A step is what runs under one lock (`Room.lock`, `Hub.lock`, `BotManager._lock`) or
one read the thread acts on later. A socket's handler subscribes, claims and notifies
in three steps (`Subscribe`, `HandlerClaim`, `HandlerNotify`); a closed one runs
`HubLeave` and its player's 45 s timer (`GraceElapses`, `ReleaseCheck`, `ReleaseLeave`,
`ReleaseNotify`). The reaper counts and then acts (`TickCounts`, `TickActs`), and its
fill loop looks, seats and registers a bot without a lock. `OpenSession`, `ClaimNamed`
and `DeleteSession` are the HTTP calls. `putOut` remembers who was unseated by a
release that had looked before the return: the one way to lose a seat while connected.

### StagingRoom and the code

One instance serves one request: `LoadAll`, the sweep under its own lock, the room lock, the
handler on the copy, `SaveAll` after the lock is given back, in the order of
`wsgi._run_handler`. A bet goes on to `BetClaims`, `DebitMarks` (the marker in Redis),
`DebitReads` and `DebitExecs` (WATCH, MULTI, EXEC on the balance); a settling sweep goes row
by row through `CreditMarks` (SET NX) and `CreditIncrs` (INCRBY). `LockLapses` is the 15 s
life of a lock, `MarkLapses` and `ClaimLapses` the 24 h life of a movement's marker and of a
bet's idempotency entry, `InstanceStops` the platform taking an instance away. A marker or
an entry does not end while the request that set it is still at work, which would have to
run for a day. `stLeft` counts markers whose movement will not come (the debit came up
short, or the instance stopped between the two commands), `stForgot` those that ended: so
`AppliedByOneCaller` can say that each life of a marker is one movement. A win can therefore
be paid twice, a day apart, when a copy of the unsettled round overwrote the settled one;
`PaidOnceEver` is the statement the code does not keep.

### StagingShared, OperatorLogin and the code

A request of `StagingShared` goes through `_run_handler` key by key: `SgLoads`, the sweep
with the rows it spills (`SgSweeps`, `SgChecks`, `SgPushes`, `SgNotes`, `SgTrims`), the
handler on what was loaded (`SgLooks`, `SgEdits`, `SgHooksSet`, the coins of a first login
or a grant), and `_save_all` (`SgSavesSettings`, `SgSavesRules`, then the rows again).
`sgBefore` and `sgTorn` remember which requests were over when one began and which broke
off, as most of what the code keeps it keeps only for requests that did not overlap. An
attempt of `OperatorLogin` is the series of Redis commands of `login`, `_locked` and
`_record_failure`; keys with a life are the times they end.

### The operators' side

`ProviderWallet`: a call sends, finds or claims its key, takes the rollback's guard, asks
the adapter, appends its row and finishes; each is one operation of store, ledger or
adapter. `PWStops` is a worker that dies, `PWExpires` an entry that ends. `ProviderTables`:
a join counts the seats, sits down and, if the table is over its limit, gives the seat up,
each under the room's lock and nothing between. `StagingKeys`: metadata, secret and index of
a key are set and dropped command by command; a served request passes stamp, rate and nonce.
A stamp may be behind the server's clock or ahead of it by the window's width, and a nonce
lives a window's width from its use: a request stamped ahead may outlive its nonce and be
served again, once (`ServedOnce`, which `skFirst`, the time of the first serving, makes
exact). `AdminSessions`: `Plan(op)` is the order of Redis commands of each request and
`Writes` runs the next; a command may raise before or after it took effect (`CommandFails`),
and what then happens is the `except` clause of that route.

### Stores

`SharedStores`: `SendsCommand` and `ReadsReply` are steps of their own because the
threads share one socket without a lock; `ReadTimesOut` leaves a reply behind.
`ConfigStore`: every console request is a list of statements (`Statements(op)`), each a
map from tables to tables, that the threads run in the one transaction they share;
`ConsoleCommits` and `ConsoleRollsBack` act on what all of them wrote. `StagingEconomy`:
`EcReads`, `EcClears`, one `EcPushes` a row, `EcAppends`, `EcAudits`. `DemoSessions`:
finding, installing and filling the memory store, or the commands of `staging/demo.py`.
`PayoutRows`: INSERT, COMMIT, read back, credit over HTTP, mark, with a failure at each.
`PlayWallets`: what a wallet does under its lock is one step, what it does without is
a read and a write.

### The game's edge

`CardRanking` has the deck as rank and suit, hands by category with tiebreaks, the three
rules for one, two and three jokers and the table they are looked up in; a deal is one step
and `calculate_result` another. `RoundEvents` moves rounds under the room's lock and lets a
reconnect read status, version and events one after another; a round is parked from any
status the transition table allows (a failed credit finds it `CLOSED`), a park of a new
round that is still taking bets is refused (`ParkRefused`), and a parked round or one given
up may be cancelled. `BotBets` is one tick over a copy of the registry, bot by bot, with the
round it read. `GameClient` gives way where the page awaits, and the server is a counter of
views, from betting over a result and a parked settlement to the next round; `gcSlipped`
remembers the rounds shown with the key of another answer, after a snapshot came during a
reset. `PageBets` counts bets: one player, one seat, one chip. `RoomLives` names a bet by
its life and its number (`bet_id` has only the number), keeps the store and the wallet keys
by number, and runs the credit loops one after another under `_settle_lock`.

## 3. Runs

| Run | Bounds | What it shows |
|---|---|---|
| `bets` | 3 requests, 2 keys, 2 bodies of one player, limit 1, 2 rounds, failing debits and credits | all safety properties of bet placement |
| `bets_faults` | 3 requests, 1 key, bodies of two players, lost answers too, fairness | the key invariant, and that claims end |
| `bets_retry` (violation) | 2 requests, 1 key, no faults | a retried refund buys a free bet |
| `bets_timeout` (violation) | 2 requests, 1 key, lost debits | a timed-out debit strands its stake |
| `settlement` | 3 threads, 2 rounds, 1 bet each, budget 2, wallet without keys | exactly-once by lock and store alone, resume points and budget (`RetrySound`) |
| `settlement_faults` | 3 threads, 1 round, 2 bets, cancel, lost answers, raising store, keyed wallet | exactly-once by key, no bet refunded and paid, no losing or unrecorded row paid, the refinement |
| `settlement_live` | 3 threads, 1 round, 2 bets, budget 2, fairness | every round ends paid or alerted, with the outcome it published |
| `settlement_abandon` (violation) | 2 rounds | a failed credit of a replaced round is forgotten |
| `settlement_leak` (violation) | 1 round, raising store | a store error leaves a round unpaid and unparked |
| `table` | seats: 2 players, 3 sockets, 1 bot, 2 seats, 3 HTTP calls; money: 3 seats, chips 2 and 5, up to 3 bets, 2 rounds, rake 0 or 15 %, cap none, 1x or 2x; page: 2 refreshes, the four views of one round and the first of the next, 2 calls in 2 rounds | who owns a seat and for how long; conservation and fair shares; what the page celebrates and shows as staked |
| `staging` | see below | what requests that each load and save leave each other, one part at a time |
| `services` | see below | the stores and services around the game, one at a time |

Why the bounds are enough. Three requests are a bet, its retry and a third that
conflicts with either or competes for the limit; two keys let that third be a
different bet; two rounds let a retry meet the round after. In settlement the code
tells apart three kinds of thread only by what they do after an error, so one of
each meets every pair; two rounds are needed for anything to act on the wrong one,
two bets for a payout to be partial, a budget of two for a first retry, a second
and an exhaustion. For the money of `table` three bets on three seats give a dead heat
among two or three seats, two bets on one seat and one loser; chips 2 and 5 with a
rake of 15 % give remainders at every division; a cap of 1x binds at once and 2x
only for a long shot. Two rounds put a carry-over into a pot. The wallet without
keys in `settlement` is deliberate: the store's credited flag and the lock have to
be enough when no answer is lost, and only `settlement_faults` relies on the key.

`CHECK_DEADLOCK FALSE` is given where all requests may have answered and all rounds
been dealt (`bets*`), and in `table`, `staging` and `services`, whose requests and rounds are
bounded in number and may all have been served. The settlement runs check deadlock: sweeper
and pump never stop. `CancelBound` keeps a round past its budget from being
cancelled again and again. Symmetry is used over requests and keys, over seats,
over players and sockets, and over the calls of `services`, `staging` and the page, in the runs that
check no liveness; `StringKey` orders bets by id, not by seat.

A property of a run may be a conjunction of named parts, for one question asked of
several modules at once; each part stands in its module with what it says of the code:

| Property | Parts | Where |
|---|---|---|
| `RetrySound` | `ResumePointRight`, `BudgetHolds` | `Settlement` |
| `MoneyConserved` | `TypeOK` (no negative sum) and the balance of coins | `RoundMoney` |
| `SharesFair` | `NoWinnerLoses`, `DustBounded` | `RoundMoney` |
| `RoomMoneySafe` | `AppliedByOneCaller`, `NeverOverdrawn`, `BetsStaked` | `StagingRoom` |
| `ProviderMoneySafe` | `RefundedOnce`, `OneAnswerPerKey` | `ProviderWallet` |
| `TablesKeepSeats` | `JoinedSeatKept`, `OverfullOnlyByRace` | `ProviderTables` |
| `StoresKeepPromises` | `TokenSpentOnce`, `CompletedKept` | `SharedStores` |
| `PageSound` | both type invariants, `WinShownOnce`, `PageBetsSound` | `GameClient`, `PageBets` |
| `StagingSafe` | `StagingKept` (`SharedSafe`, `SerialLedgerExact`), `AccessSafe` (`StagingKeysSafe`, `DemoSessionsSafe`, `AdminSessionsSafe`, `LoginSafe`) | `StagingShared`, `StagingEconomy`, `OperatorLogin` and the modules of these names |
| `StagingTypeOK`, `ServicesTypeOK` | the type invariant of each module, with what binds its variables together | the modules |
| `WalletsSafe` | `PlayMoneySafe`, `PayoutRowsSafe`, `RoomLivesSafe` | `PlayWallets`, `PayoutRows`, `RoomLives` |
| `RankingSound` | `JokersBest`, `WinnersBest`, `AceRunPlaced` | `CardRanking` |
| `RoundEventsSafe` | `ReplayComplete`, `HandsAfterResult` | `RoundEvents` |
| `BotBetsSafe` | `OneTryPerRound`, `OneOwnBetPerRound` | `BotBets` |

The bounds of `table`. A reconnect racing its timer takes two sockets of one player
(the third is the other player's), a claim racing a claim two players and one free
seat, the fill loop one bot; with two seats the table fills. On the page two answers
overtake each other, a round's result, its parked settlement and its payment come in
between, and the reset awaits at the turn to the next; a tap meets a repeat or another client.

The bounds of `staging`, by module. `StagingRoom`: 3 instances, 2 bets of stakes 2 and 3
over a balance of 4, 1 lapse of a lock or an entry, markers that lapse at any time: two
instances race and a third comes after both, the second debit fails, two instances hold the
lock, a settled round is settled again with its markers and without them. `StagingShared`: 2
requests, 2 settings, 2 builds, logs cut at 2 rows, 1 command that raises. `OperatorLogin`:
3 attempts, a limit of 2, lives of 1 in 3 ticks. `StagingEconomy`: 2 requests over 2
wallets. `StagingKeys`: 2 calls, 2 keys, lives of 1 and 2 in 3 ticks, stamps from the first
tick to a window past the last. `DemoSessions`: 3 requests, a limit of 1, 5 ticks of a
quarter of an hour (an hour ends within). `AdminSessions`: 3 requests, 1 failure. Where a
hazard is one request overtaking another, two are enough, and a third is the request that
was there before.

The bounds of `services`, by module. `ProviderWallet`: 3 calls out of two debits under one
key, another debit, a credit under its key, and rollbacks of one debit under three keys, so
that a rollback meets its debit, a second rollback, and an expired guard. `ProviderTables`:
3 calls, 2 players, 2 tables of one seat. `SharedStores`: 2 operations, 2 keys, 1 fault.
`ConfigStore`: 2 console threads and 2 sweepers, 1 change, 2 versions, 3 requests.
`PlayWallets`: each of the three wallets, 3 calls, 1 fault. `CardRanking`: 6 ranks from both
ends of the deck, 2 seats, all hands of 0 to 2 of five cards filled up with jokers and six
plain ones, 2 orders, 3 ace modes. `PayoutRows`: 2 workers, 2 bets, 3 faults; the workers
compute different payouts. `RoundEvents`: 2 rounds, a log of 3 events, 2 visits, a bet or a
parking a round. `BotBets`: 2 bots, 2 rounds, 4 ticks. `RoomLives`: 2 lives, 2 bets, 1 lost
credit.

### Fairness

`BetPlacement!FairSpec`: an HTTP thread inside `place_bet` goes on to its answer
(weak fairness per request); nothing is assumed of rounds, so the claim that a
held key is freed does not rest on any window opening. `Settlement!FairSpec`: the
sweeper thread loops for ever with a one-second sleep and swallows every exception;
clocks advance; a driver inside a call goes on; and the sweeper gets `_settle_lock`
if it is free again and again (strong fairness), since every other holder leaves it
after a finite loop and pauses a second. Pump is assumed only to finish what it began,
as it runs only for rooms with a connection, and routes are never assumed to be called.

## 4. Proofs

TLC checks the instances above; the theorems hold for every value of the constants that
the `ASSUME`s of the modules allow: any number of requests, rounds, bets, threads, seats,
sockets, calls, instances, lives and faults, any limits, budgets, rakes and caps.

| Theorem | Statement | Assumes |
|---|---|---|
| `BetPlacementProofs!TypeCorrect` | `Spec => []TypeOK` | |
| `KeySafety` | one owner and one bet per key, own answers, no orphan claim | |
| `KeyInvHolds`, `CompletedFinal` | `Spec => []KeyInv`, `Spec => CompletedNeverDropped` | |
| `StakeSafety` | `NoStrandedStake` and `UnbackedOnlyAfterRefund` | `NoLostDebit` |
| `LimitSafety` | `Spec => []BetLimitHolds` | |
| `TypesHold`, `SettlementProofs!TypeCorrect` | `Spec => []TypeInv` (`TypeOK` and `CurKnown`), `Spec => []TypeOK` | |
| `LedgerSafety` | `LedgerInv`, `CreditedMeansPaid`, `PaidOnlyIfRecorded`, `NeverRefundedAndPaid` | |
| `RetriesSound`, `OutcomeStays` | `Spec => []RetrySound`, `Spec => OutcomeFrozen` | `NoCancel` |
| `UnpaidTracked` | `Spec => []UnpaidStaysTracked` | `NoCancel`, `~StoreRaises` |
| `ExactlyOnce`, `Implements` | `Spec => []PaidAtMostOnce`, `Spec => ImplementsContract` | `Reliable` |
| `MoneyKept`, `WinnersShare` | `Spec => []MoneyConserved`, `Spec => []SharesFair` of `RoundMoney` | |
| `TableTypes`, `SeatsOwned`, `NoGhosts`, `SeatsKept`, `BotsRegistered` | `HubSpec => []` each of the five properties of `SeatHub` | |
| `LivesSafety` | `RlSpec => []RoomLivesSafe` | |
| `ProviderWalletKept`, `ProviderTablesKept`, `BotBetsKept`, `ReconnectTells` | `SvSpec => []` `ProviderMoneySafe`, `TablesKeepSeats`, `BotBetsSafe`, `RoundEventsSafe` | |
| `WalletsKept`, `StoresKept` | `SvSpec => []WalletsSafe`, `SvSpec => []StoresKeepPromises` | |
| `ConfigStatusKept` | `SvSpec => StatusFinal` | |
| `PageKept` | `TableSpec => []PageSound` | |
| `RoomMoney`, `StagingHolds` | `StagingSpec => []RoomMoneySafe`, `StagingSpec => []StagingSafe` | |
| `SharedKept`, `ConsolesKept`, `LoginKept`, `AccessKept` | `StagingSpec => []` the parts of `StagingSafe`: `SharedSafe`, `SerialLedgerExact`, `LoginSafe`, `AccessSafe` | |
| `ServiceTypes`, `StagingTypes` | `SvSpec => []ServicesTypeOK`, `StagingSpec => []StagingTypeOK` | for staging: finitely many attempts and key requests |

The hypotheses name what the code relies on, and each is needed. `NoLostDebit`: no adapter
loses the answer of a debit it made (run `bets_timeout` has the opposite). `Reliable`: the
wallet honours its key, or its errors mean that nothing moved and the store does not raise.
`~StoreRaises`: run `settlement_leak`. `NoCancel`: no route cancels a round; a parked round
that is cancelled is closed with rows unpaid or with none made, and parks again beyond its
budget, which is the finding of section 5 and not a retry.

Bet placement. None of the key properties is inductive alone: that a claimed key is
fresh only because nobody owns it needs the entry of an owned key to be that owner's
own claim (`HeldByOwner`); that a second bet under a key is impossible needs every
bet to be findable by its key, in the stored result or in the hands of the request
about to store it (`BetRemembered`). With the shape of entries and replies
these make `KeyInv`, proved step by step: one lemma for the steps that leave the
entry alone (`KeyQuiet`), one for each that does not. `StakeInv` rides on
`KeyInv` and adds what an owner knows of the wallet at each of its steps: before its
debit and at its release there is nothing of it left in the wallet
(`OwnerKnowsWallet`). That is exactly what a lost answer breaks, hence
`NoLostDebit`, and run `bets_timeout` shows the assumption is needed. `LimitInv`
adds that bets are finite and of rounds already dealt, so that a new round starts
from no bets.

Settlement. A driver pays rows it was handed by a `room.settle` that may be several
steps and a whole round behind, so the invariant has to say that nothing it relies on
has moved since. `SettledIsOver` keeps a settled round away from every method that
would change its bets or winners (a parked one resumes at `CLOSED`, never at the
betting or the result), which makes rows permanent (`OutcomeKept`, `RowsStep`).
`VoidedIsOut` keeps a cancelled bet out of any row. `LoopSound` ties each driver's
position to the lock, the rows it holds and what the store and the wallet already know
of the row it is at. On these the ledger properties go through action by action
(`LedgerStep`), with one lemma for the steps that touch neither store nor money
(`LoopQuiet`) and one for the drivers that did not move (`LoopOthers`).

Exactly-once has two reasons, and `OnceInv` is the case split. With a wallet that honours
`settle:<bet_id>` the key is enough. Without keys it takes the lock and the store
together: whatever was paid is stored as credited, or the one holder of the lock is about
to store it (`PaidIsStored`). `Reliable` says exactly when that suffices: the
wallet loses no answer and the store does not raise between the payment and its mark.
For the refinement, `due` is the set of winning rows of settled rounds: the first
`room.settle` is `Decide`, a credit that moves money is `Pay`, all else stutters.

Lives of a room. That a wallet key pays once is plain; that a bet goes unpaid *only*
because its id was settled in an earlier life is not, since a loop pays the row the
store has under the id, which need not be its own. `LivesInv` says whose row it can be.
Life and number name one bet and so one payout (`BetsNamed`), and a life that has yet to
decide its bets has none anywhere (`LivesPast`): hence a fresh decision collides with
nothing. Rows wait in the order of their lives, behind all that was stored or paid
(`LoopOrder`), which is what makes "an earlier life" of a foreign row true. `KeysSound`
and `StoreSound` tie a key and a row to a bet that was asked for under that id, and
`RowSound` the row in hand to the stored one: if it is marked, it owed nothing or the key
has moved money, for this bet or for an earlier one of its id. That rows wait in that
order is the one simplification the theorem rests on: loops run one after another
under `_settle_lock`, and `RoomLives` takes threads to get that lock in the order they
came for it. A thread held up there for the whole of the next life's round would
leave the id to the later life, which is the same loss with the lives exchanged.

Retries. `RetryInv` says what the status of a round tells of its rows: closed has them,
parked resumes at what is missing, attempts are used up only by a round that is parked or
given up (`BudgetInv`), and what the sweeper read of a parked round before it asked for the
lock still holds (`SweepInv`): the budget is read in one step and counted in another. That
no unpaid round is forgotten follows from every exit of the credit loop: `Tracked` is kept
by showing that each either parks the round or has paid it. `DrawnOnce` puts a
round that has winners past the point where it could be drawn again; the action property
`OutcomeFrozen` is read off the steps from it.

Money. Sums over sets of bets are folds, which the prover knows nothing about.
`FoldLemmas` derives what is needed of them from the induction over finite sets that
`FiniteSetTheorems` and `WellFoundedInduction` allow without an operator as a parameter
(`SubsetInduction`: the set of the subsets for which something holds is everything), among
them that a sum may be taken apart in any order and that of finitely many bets one is last
in string order. `MoneyInv` then says that a round's payouts are the formula's value on the
round as it was settled; the floors of all shares but the last fall short by less than a
coin each, which gives conservation and both bounds of `DustBounded`.

Seats. `HubInv` adds to the properties who stands behind a place: `PlacesBacked` (an open
socket, a timer that runs, a stray one, or a releaser at work) and `PlacesClaimed` (a
connected player has a place or a handler about to claim one), with `Registry` for the bot
that is between its seat and its entry. Every step is read as what it does to one player's
place, sockets and timer, and the invariant checked of that.

Services. In `PWInv` a call past its claim holds it and, for a rollback, the guard
(`ClaimsHeld`); each movement is its call's and its guard remembers it (`MovesGuarded`); and
the store, the ledger and the answers agree on rows (`RowsKept`). `PtInv` follows the one
active request while none overlap (`RoomLeft`), and whose a taken seat is (`SeatTaken`).
`BbInv`: the rounds a bot tried rise (`TriesRise`). `ReInv`: a round whose status shows the
hands was told of (`ShownIsTold`), and what a reconnect has read so far is still so
(`VisitSound`). `CsInv`: what was saved as final no open transaction has undone, whatever the
threads that share it commit or roll back. The types take a little more: a store's job is not past
the end of its statements (`ConfigCounts`), a bot is armed for no round to come and its call's
chip is one of the table's when it is taken (`BetBounds`), nobody wins before the result
(`CardStages`).

Wallets and payout rows. `PlInv` says of a balance that it is what the ledger says, counting
the rows of money that has moved and is still to be written (`Counted`, `Balanced`): as long as
no calls overlapped, one call at a time works on the balance and what it read is what is there
(`Alone`). In a wallet with a lock that is the lock; in the mock it is a premise. A sum over rows
that gain a row is `FoldLemmas`' (`RowAdds`). `PrInv`: a worker has passed only rows that are
credited for good (`PassedRows`), and which stage goes with which row (`GoesByRow`).

The Redis stores. `RsInv` counts a reply on its way as what the call that waits for it will
be: a redemption whose token is in it was given that token (`TokensGiven`), and a claim is held
from the `OK` on the socket to the `DEL` that gives it up, the value under its key following
who holds it (`ClaimsHeldOnce`). Each reply answers one waiting call of its store or one that has
given up (`RepliesDue`); all three need `rsInStep`, that no reply went to another call.

The page. In `GcInv` every view on its way is one the server has been at (`Arrivals`), and a
round whose win was celebrated either has its key stored while it is shown or has been left
behind (`WinsRemembered`). `PbInv` follows a tap from `betBusy` to its answer (`TapsAlone`), a
compared round to the turn that may overtake it (`GuardHolds`), and keeps room among the placed
bets for the tap that is accepted and not yet shown (`StakesCovered`).

Staging. `StInv`: who is to make a movement has set its marker, alone (`MoversMarked`), and
every step is read as what it does to the movements: it sets a marker, makes the movement,
drops it, or leaves them be (`Movements`). A settling sweep credits one row at a time
(`RowsHeld`) and a bet is placed by the one request that holds its entry (`ClaimsHeld`): so
a debit that finds its marker set, with nobody about to make it, was made or left undone
before, and the bet may be created (`LoserStaked`, `StakesTaken`), though rooms are copied
and overwritten meanwhile. A debit about to be made was covered by the balance it read
(`DebitsCovered`). `LoginInv`: the counter counts who failed since it began (`Tally`), the
lock is set by whoever reached the limit before the clock moves on (`LockOutlives`), and
lives end within a lock's life from now. `SkInv`: a key in the making is its request's alone
(`KeysOwned`, `MakingAlone`) and is in the index, or unusable, before its request gives the
index its life (`KeyRequestSound`); an index whose life is not set lists no key that was
handed out, so that no life it is given is shorter than theirs unnoticed (`IndexSound`).
`DsInv` ties a request and its session to one store of those that were made, and whoever was
let in to room for one more session in it (`RoomForOne`). `AsInv` says which commands of its
plan a request has behind it, and so what is gone for good (`PastToken`, `PastAll`); a token
leaves the index only after it was dropped.

What staging's requests share. `SgInv` compares a request with those that were over before it
began (`BeforeIsOver`): an edit that overlapped no other is in the settings and in what every
later request loaded (`EditHolds`, `RulesHold`). A row about to be pushed is not there yet, one
about to be noted is (`SpillSound`), and one that a save has passed is in its list, or the list
is full, or another request's audit row had the number (`PassedKept`, with `Noted` for the
numbers that were seen). Every stored row is one its request wrote (`StoredRow`). `HooksSound`
does for the webhook settings what `EditHolds` does for an edit, and `CoinsSound` counts the
credits of a coin's key by its mark and the lapse of the mark.

The consoles' lists. A request empties a list and pushes its rows back one by one, so that
between two commands the wallets are neither the old list nor the new. `EcInv` says where each
row is while a request works alone: still in the request's copy, or in the list and no longer
among those to push, with the balance that the transactions make, the one being added included
(`Ledger`, `Halved`, `Due`, `Adding`); when nobody is at work, every holder has one row and it
holds the seed and its transactions (`Holds`). `Others` is a recursive function and `Adjusted` a
`SumFunction`, which the lemmas take apart (`OthersTable`, `FoldLemmas!SumFronted`). The model
has the lists short of the 5000 rows to which the code trims them (`economy.py:36`): beyond that
a transaction is forgotten, and with it its key.

Lives. `StagingTypes` bounds what only grows: a key, its tombstone and the counter of PINs
end before what a key without an expiry stands for (`KeyBounds`), and since no request counts
its PIN twice (`CallsAdvance`), the counter never exceeds the number of requests.

Two of these proofs did not go through at first because the model was wrong: a request that
had finished its audit rows fitted two arms of a `CASE` in `SgTrims`, of which TLC takes the
first, and `StagingKeys!Never`, meant to lie beyond every life, fell short of a tombstone whose
minimum is long. Both are put right.

`StakeInv`, `LedgerInv`, `PaidIsStored` and `CreditedMeansPaid` appear in the proofs only:
the runs check what follows from them.

Only model-checked. Liveness (`ClaimsEnd`, `EveryRoundEnds`) is out of the prover's reach, as
are ENABLED and recursion. `RankingSound` compares every hand of a small deck with a reference
definition: a statement about data (what the search for the jokers' best hand returns), not about steps.
It is the one invariant of the runs without a theorem.

## 5. What the checks found

- A refund releases the key while the wallet still remembers the debit: a retry in a
  later round is accepted without paying (`bets_retry`, `service.py:295`).
- A debit that timed out after committing is taken for one that moved nothing, and
  the transaction status is never asked for (`bets_timeout`, `service.py:277`).
- A credit that fails after the next round was dealt is followed by a park of the new
  round, which is refused while that one takes bets and parks the wrong round later; the
  unpaid winnings of the old one are forgotten (`settlement_abandon`, `service.py:576`).
- A store error is not a `WalletError`: the round stays closed, unpaid, unparked
  (`settlement_leak`, `service.py:466`).
- A late bet is refused after its debit, not without it, as STATE-MACHINE.md has it.
- The carry-over of a cancelled round is lost (`forfeited` in `RoundMoney`).
- The remainder of a split goes to the last winning bet in string order of its id,
  where the documents send it to the carry-over.
- A parked round can be cancelled, which forgets its unpaid winnings and refunds none
  of its bets; a refund loop that raises is never resumed.
- The history row written after `settle` may be of another round than the settled one.
- Staging numbers audit rows from 1 in every request, and drops those whose number it has
  (`RowsKept` excepts them); a read that overlaps an edit of the settings puts the old ones
  back (`EditsStay`).
- The markers of the staging wallet live 24 h, the room for ever: a win is paid again when a
  copy of the unsettled round is settled a day later (`redis_wallet.py:87`); and an instance
  that stops between SET NX and INCRBY leaves a win that is never paid (`:91`).
- A request stamped ahead of the server's clock outlives its nonce and is served twice
  (`auth.py:220`, `:232`).

Statements of documents and comments that the models contradict are kept beside the
properties that do hold, so that each can be checked by naming it in a configuration:

| Statement | Module | Why it fails |
|---|---|---|
| `EveryLifePaid` | `RoomLives` | a room made anew numbers its bets from 1: a winner finds an earlier life's row or transaction |
| `NoStakeStranded` | `RoomLives` | a room is deleted whatever its round is at |
| `UnpaidIsPursued` | `PayoutRows` | only the process that parked a round retries it; a reply that is no JSON parks nothing |
| `LedgerAlwaysExact` | `PlayWallets` | `fund`, and all of the mock, run outside a lock |
| `JokersBestAnyOrder` | `CardRanking` | jokers are substituted for the built-in order only |
| `DisplacedForSomeone` | `SeatHub` | a displaced bot's seat goes to nobody |
| `OneBetPerRound` | `BotBets` | the tick decides on one round and bets in the next |
| `NothingMissed` | `RoundEvents` | events are numbered from 1 in every round |
| `OneStatusPerVersion` | `RoundEvents` | status and version are read apart |
| `NeverOlder` | `GameClient` | answers overtake each other |
| `OneBetAtATime`, `LandsWhereShown` | `PageBets` | a repeat does not wait; the bet route names no round |
| `PaidOnceEver` | `StagingRoom` | a wallet marker lives 24 h, the room for ever |
| `NonceNeverReused` | `StagingKeys` | a stamp may be ahead of the clock, and outlives a nonce that counts from its use |
| `CompletedBetStays` | `StagingRoom` | the room is loaded before the lock and saved after it |
| `LedgerExact` | `StagingEconomy` | lists are rewritten row by row, without a lock |
| `HourlyLimit` | `DemoSessions` | an expired session no longer counts |
| `AcceptedIsSeated` | `ProviderTables` | a second join finds the seat that the first is giving up |
| `OwnSession` | `SharedStores` | threads share a socket |
| `AppliedOnce` | `ConfigStore` | nothing claims a due change |
| `ShownRevokedIsDead`, `MintedIsListed` | `AdminSessions` | a failed revocation is passed over; the list dies with the process |

Others have no statement of their own but shape an action: a win key worked out before the
reset is awaited (`ResetOver`, `gcSlipped`), a rollback's guard that
expires (`PWExpires`), a claim that is never released (`PWStops`, `PWGuardHeld`), a
Redis socket that is never opened again (`SocketLost`), a key index with the life of the
newest key (`IndexLife`), PIN counters without a life (`PinLife`, `FailuresForgotten`), two rotations of one
key (`ReadKey`), a second demo store (`InstallStore`), a bot that stays a member without a
seat (`FillSeats`), a transaction shared by all console threads (`ConsoleRollsBack`), a
rollback of the rules that always fails (`TablesAfter`), a session that comes back
after its end (`asRevived`). PROJECT.json has each with its lines and quotations.

## 6. Not modelled

- *Deck shuffle and commit*: a SHA-256 stream over a seed; there is nothing to explore
  but the hash. A deal is any deal in `CardRanking`.
- *Plugin, service registry, skills*: registered once at start; the hooks' results are
  read by no round.
- *Configuration, envelope, asset registry*: constants, response shapes, file lookup.
- *Webhooks*: nothing constructs the sender, so no delivery is ever sent; what is
  recorded is read by no round.
- *Profit simulator*: offline statistics over random rounds.
- *Front ends, SDKs, TypeScript package*: other views of the API and a skeleton over a
  mock: no authoritative state.
- *Schema, tools, scripts, assets*: DDL (its keys appear in `ConfigStore` as statements
  the database refuses), developer tools, media.

Parts of modelled components that are left out: parsing, rendering, logging, wording;
signatures and JWTs (cryptography: a request of `StagingKeys` is one whose signature is
right, a PIN of `OperatorLogin` is right or wrong); the 24 h life of in-process idempotency entries, which
does to the money what a released key does (section 2); reads that change nothing
(balances, history, reports); the memory fallback of the admin console; health routes of the staging
application; the random choices of bots beyond
their members. A crash of the in-process deployment takes rooms, keys and stores with it;
`RoomLives` shows what becomes of the wallet's keys, which survive.
