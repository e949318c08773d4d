------------------------------ MODULE PayoutRows ------------------------------
(***************************************************************************)
(* Two workers settle the bets of one round over a shared settlement table *)
(* (common/settlement_postgres.py: a row per bet, by INSERT .. ON CONFLICT) *)
(* and an operator's wallet behind HTTP (integrations/dearlive.py), with    *)
(* the loop of service.settle.  A worker may have computed another payout   *)
(* for a bet than the other.  The operator's wallet is keyed: its first     *)
(* credit under settle:<bet> moves the money, a replay answers again.       *)
(***************************************************************************)
EXTENDS Integers, Sequences, FiniteSets

CONSTANTS
  PayWorkers,
  RoundBets,        \* a sequence: the order of the settlement rows
  Computed(_, _),   \* what a worker computed for a bet
  MaxTrouble        \* bound: failures of the database, of HTTP, and restarts

VARIABLES prRow, prPaid, prWorker, prTrouble
prVars == <<prRow, prPaid, prWorker, prTrouble>>

PrBets == {RoundBets[i] : i \in DOMAIN RoundBets}

ASSUME PayoutAssumption ==
  /\ RoundBets \in Seq(PrBets) /\ RoundBets # <<>>
  /\ \A w \in PayWorkers, b \in PrBets : Computed(w, b) \in Nat

NoRow == [state |-> "none", by |-> "", payout |-> 0]
Ready == [at |-> "record", place |-> 1, payout |-> 0]

PrInit ==
  /\ prRow = [b \in PrBets |-> NoRow]
  /\ prPaid = [b \in PrBets |-> <<>>]        \* amounts the wallet moved under settle:<bet>
  /\ prWorker = [w \in PayWorkers |-> Ready]
  /\ prTrouble = 0

BetOf(w) == RoundBets[prWorker[w].place]
PrGo(w, at) == prWorker' = [prWorker EXCEPT ![w].at = at]
Trouble == prTrouble < MaxTrouble /\ prTrouble' = prTrouble + 1

\* On to the next row, or to the end of the loop.
Onward(w) ==
  prWorker' = [prWorker EXCEPT ![w] =
    IF @.place = Len(RoundBets) THEN [@ EXCEPT !.at = "settled"]
    ELSE [at |-> "record", place |-> @.place + 1, payout |-> 0]]

(***************************************************************************)
(* record: the insert waits for another worker's uncommitted row; of a      *)
(* committed one nothing is inserted and the row is read back.              *)
(***************************************************************************)
Insert(w) ==
  /\ prWorker[w].at = "record" /\ prRow[BetOf(w)].state = "none"
  /\ prRow' = [prRow EXCEPT ![BetOf(w)] = [state |-> "open", by |-> w, payout |-> Computed(w, BetOf(w))]]
  /\ PrGo(w, "commit")
  /\ UNCHANGED <<prPaid, prTrouble>>

CommitRow(w) ==
  /\ prWorker[w].at = "commit"
  /\ prRow' = [prRow EXCEPT ![BetOf(w)].state = "unpaid"]
  /\ prWorker' = [prWorker EXCEPT ![w].at = "pay", ![w].payout = prRow[BetOf(w)].payout]
  /\ UNCHANGED <<prPaid, prTrouble>>

\* A database error is neither WalletError nor ServiceError: the loop ends and nothing is parked.
CommitFails(w) ==
  /\ prWorker[w].at = "commit" /\ Trouble
  /\ prRow' = [prRow EXCEPT ![BetOf(w)] = NoRow]
  /\ PrGo(w, "raised")
  /\ UNCHANGED prPaid

\* Mutant: a worker pays what it computed itself.
OwnPayout(w) == Computed(w, BetOf(w))

\* The stored payout is the one to pay, whoever computed it.
StoredPayout(w) == prRow[BetOf(w)].payout

PaidAlready(w) == prRow[BetOf(w)].state = "credited"

ReadBack(w) ==
  /\ prWorker[w].at = "record" /\ prRow[BetOf(w)].state \in {"unpaid", "credited"}
  /\ IF PaidAlready(w) THEN Onward(w)
     ELSE prWorker' = [prWorker EXCEPT ![w].at = "pay", ![w].payout = StoredPayout(w)]
  /\ UNCHANGED <<prRow, prPaid, prTrouble>>

(***************************************************************************)
(* wallet.credit over HTTP.                                                 *)
(***************************************************************************)
Moved(w) == IF prPaid[BetOf(w)] = <<>> THEN [prPaid EXCEPT ![BetOf(w)] = <<prWorker[w].payout>>] ELSE prPaid

NothingToPay(w) ==
  /\ prWorker[w].at = "pay" /\ prWorker[w].payout = 0
  /\ PrGo(w, "mark")
  /\ UNCHANGED <<prRow, prPaid, prTrouble>>

HttpCredits(w) ==
  /\ prWorker[w].at = "pay" /\ prWorker[w].payout > 0
  /\ prPaid' = Moved(w)
  /\ PrGo(w, "mark")
  /\ UNCHANGED <<prRow, prTrouble>>

\* 4xx, 5xx and transport errors become WalletErrors, and the settlement is parked; the money
\* may have moved.
HttpFails(w) ==
  /\ prWorker[w].at = "pay" /\ prWorker[w].payout > 0 /\ Trouble
  /\ prPaid' \in {prPaid, Moved(w)}
  /\ PrGo(w, "parked")
  /\ UNCHANGED prRow

\* An answer that is not JSON raises ValueError, which nothing parks for.
HttpGarbles(w) ==
  /\ prWorker[w].at = "pay" /\ prWorker[w].payout > 0 /\ Trouble
  /\ prPaid' \in {prPaid, Moved(w)}
  /\ PrGo(w, "raised")
  /\ UNCHANGED prRow

MarkCredited(w) ==
  /\ prWorker[w].at = "mark"
  /\ prRow' = [prRow EXCEPT ![BetOf(w)].state = "credited"]
  /\ Onward(w)
  /\ UNCHANGED <<prPaid, prTrouble>>

MarkFails(w) ==
  /\ prWorker[w].at = "mark" /\ Trouble
  /\ PrGo(w, "raised")
  /\ UNCHANGED <<prRow, prPaid>>

\* The sweep's retry goes through all the rows again.
RetryParked(w) ==
  /\ prWorker[w].at = "parked"
  /\ prWorker' = [prWorker EXCEPT ![w] = Ready]
  /\ UNCHANGED <<prRow, prPaid, prTrouble>>

\* A process that ends drops its open transaction and its rounds.
WorkerEnds(w) ==
  /\ prWorker[w].at \notin {"settled", "ended", "raised"} /\ Trouble
  /\ prRow' = [b \in PrBets |-> IF prRow[b].state = "open" /\ prRow[b].by = w THEN NoRow ELSE prRow[b]]
  /\ PrGo(w, "ended")
  /\ UNCHANGED prPaid

PrNext ==
  \E w \in PayWorkers :
    \/ Insert(w) \/ CommitRow(w) \/ CommitFails(w) \/ ReadBack(w)
    \/ NothingToPay(w) \/ HttpCredits(w) \/ HttpFails(w) \/ HttpGarbles(w)
    \/ MarkCredited(w) \/ MarkFails(w) \/ RetryParked(w) \/ WorkerEnds(w)

(***************************************************************************)
(* Properties.                                                              *)
(***************************************************************************)
PrTypeOK ==
  /\ \A b \in PrBets : prRow[b].state \in {"none", "open", "unpaid", "credited"}
  /\ \A w \in PayWorkers : prWorker[w].place \in DOMAIN RoundBets

\* What the wallet moved for a bet is what the one row of the bet says, though two workers
\* computed different payouts and paid each other's rows, and answers were lost.
PaidAsRecorded ==
  \A b \in PrBets : prPaid[b] # <<>> =>
    prRow[b].state \in {"unpaid", "credited"} /\ prPaid[b] = <<prRow[b].payout>>

\* No payout is marked paid before it was, and a worker that came to the end of the loop, even
\* one that skipped rows of the other's, leaves nothing owed.
NothingOwedAtEnd ==
  /\ \A b \in PrBets : prRow[b].state = "credited" /\ prRow[b].payout > 0 => prPaid[b] # <<>>
  /\ (\E w \in PayWorkers : prWorker[w].at = "settled") => \A b \in PrBets : prRow[b].state = "credited"

\* An unpaid row has a worker that will pay it, which the code does not ensure: nothing reads
\* unpaid() to pay, and ValueError and database errors park nothing.
UnpaidIsPursued ==
  \A b \in PrBets : prRow[b].state = "unpaid" => \E w \in PayWorkers : prWorker[w].at \notin {"raised", "ended"}

\* What the settlement rows promise.
PayoutRowsSafe == PaidAsRecorded /\ NothingOwedAtEnd
==============================================================================
