-------------------------- MODULE SettlementProofs --------------------------
(***************************************************************************)
(* What settlement guarantees for every number of rounds, bets and HTTP    *)
(* threads, any retry budget and any faults: money moves only for recorded *)
(* winning rows; and, as long as nobody cancels, retries resume at the     *)
(* step that is missing and no winnings are forgotten.                     *)
(***************************************************************************)
EXTENDS Settlement, TLAPS

-----------------------------------------------------------------------------
(* Types.                                                                  *)

\* The type invariant, with what makes it inductive.
TypeInv == TypeOK /\ CurKnown

\* Wherever an error or the end of settle takes a driver is a step of the model.
LEMMA AfterSteps ==
  ASSUME NEW d \in Drivers
  PROVE  /\ AfterError(d) \in Steps /\ AfterError(d) \notin InLoop \cup {"void"}
         /\ AfterLeak(d) \in Steps /\ AfterLeak(d) \notin InLoop \cup {"void"}
         /\ AfterSettle(d) \in Steps /\ AfterSettle(d) \notin InLoop \cup {"void"}
  BY DEF AfterError, AfterLeak, AfterSettle, Steps, InLoop

\* A driver that does anything but wait or deal works on a round that was dealt.
LEMMA CurDealt ==
  ASSUME TypeInv, NEW d \in Drivers, pc[d] \notin {"idle", "start"}
  PROVE  cur \in Rounds
  BY BoundAssumption DEF TypeInv, TypeOK, CurKnown, Rounds

\* A credit, keyed or not, leaves a count.
LEMMA CreditCounts ==
  ASSUME credits \in [Rows -> Nat], NEW b, Credit(b)
  PROVE  credits' \in [Rows -> Nat]
<1>1. CASE b \in Rows
  <2>1. credits[b] + 1 \in Nat
    BY <1>1
  <2> QED
    BY <1>1, <2>1 DEF Credit
<1>2. CASE b \notin Rows
  <2>1. [credits EXCEPT ![b] = @ + 1] = credits
    BY <1>2
  <2> QED
    BY <2>1 DEF Credit
<1> QED
  BY <1>1, <1>2

\* Parking, done or refused, leaves the round's records typed.
LEMMA ParkTypes ==
  ASSUME TypeOK, cur \in Rounds, MarkSettlePending
  PROVE  /\ status' \in [Rounds -> RoundStatus] /\ resume' \in [Rounds -> RoundStatus]
         /\ attempts' \in [Rounds -> Nat] /\ backoff' \in BOOLEAN
<1>1. SETTLED_PENDING \in RoundStatus
  BY DEF RoundStatus
<1>2. resume' \in [Rounds -> RoundStatus]
  BY DEF MarkSettlePending, TypeOK
<1>3. status' \in [Rounds -> RoundStatus]
  BY <1>1 DEF MarkSettlePending, TypeOK
<1>4. attempts' \in [Rounds -> Nat] /\ backoff' \in BOOLEAN
  <2>1. attempts[cur] + 1 \in Nat
    BY DEF TypeOK
  <2> QED
    BY <2>1 DEF MarkSettlePending, TypeOK
<1> QED
  BY <1>2, <1>3, <1>4

\* The type invariant is inductive once it knows that a driver only acts on a round
\* that was dealt.
THEOREM TypesHold == Spec => []TypeInv
<1>1. Init => TypeInv
  <2> SUFFICES ASSUME Init PROVE TypeInv
    OBVIOUS
  <2>1. CurKnown /\ cur \in 0..MaxRounds
    BY BoundAssumption DEF Init, CurKnown
  <2>2. /\ status \in [Rounds -> RoundStatus] /\ resume \in [Rounds -> RoundStatus]
        /\ attempts \in [Rounds -> Nat] /\ settled \in [Rounds -> BOOLEAN]
    BY DEF Init, RoundStatus
  <2>3. /\ bets \in [Rounds -> SUBSET BetIds] /\ voided \in [Rounds -> SUBSET BetIds]
        /\ winners \in [Rounds -> SUBSET BetIds]
        /\ expired \in BOOLEAN /\ dwelling \in BOOLEAN /\ backoff \in BOOLEAN
    BY DEF Init
  <2>4. /\ store \in [Rows -> {"none", "recorded", "credited"}]
        /\ credits \in [Rows -> Nat] /\ refunds \subseteq Rows
        /\ history \in [Rounds -> {"none", "blank", "final"}] /\ alerts \subseteq Rounds
    BY DEF Init
  <2>5. /\ settleLock \in Drivers \cup {NoDriver}
        /\ pc \in [Drivers -> Steps] /\ retrying \in BOOLEAN
        /\ todo \in [Drivers -> SUBSET Rows] /\ row \in [Drivers -> Rows \cup {NoRow}]
    BY DEF Init, Steps
  <2> QED
    BY <2>1, <2>2, <2>3, <2>4, <2>5 DEF TypeInv, TypeOK
<1>2. TypeInv /\ [Next]_vars => TypeInv'
  <2> SUFFICES ASSUME TypeInv, [Next]_vars PROVE TypeInv'
    OBVIOUS
  <2> USE BoundAssumption, DriverAssumption DEF TypeInv, TypeOK, CurKnown
  <2> USE DEF roomVars, timers, ledgers, records, loop, Goto, RoundStatus,
              UPCOMING, ABOUT_TO_START, BETTING_OPEN, BETTING_CLOSED, RESULT_PROCESSING,
              RESULT, RESULT_DECLARED, SETTLED, CLOSED, SETTLED_PENDING, SETTLE_FAILED
  <2>1. CASE AcceptBet
    <3>1. PICK i \in BetIds : bets' = [bets EXCEPT ![cur] = @ \cup {i}]
      BY <2>1 DEF AcceptBet
    <3>2. cur \in Rounds
      BY <2>1 DEF AcceptBet, Rounds
    <3>3. bets' \in [Rounds -> SUBSET BetIds]
      BY <3>1, <3>2
    <3> QED
      BY <2>1, <3>3 DEF AcceptBet
  <2>2. CASE Timer
    BY ZenonT(60), <2>2 DEF Timer, DeadlinePasses, DwellEnds, BackoffEnds
  <2>3. CASE SweepTick
    <3>0. Sweeper \in Drivers
      BY DEF Drivers
    <3>1. CASE SweepExpired
      BY <3>0, <3>1 DEF SweepExpired, Steps
    <3>2. CASE SweepPending
      BY <3>0, <3>2 DEF SweepPending, Steps
    <3>3. CASE GiveUp
      BY <3>0, <3>3, CurDealt DEF GiveUp, Steps
    <3>4. CASE Restore
      BY <3>0, <3>4 DEF Restore, Steps
    <3> QED
      BY <2>3, <3>1, <3>2, <3>3, <3>4 DEF SweepTick
  <2>4. CASE PumpStep
    <3>0. Pump \in Drivers
      BY DEF Drivers
    <3>1. CASE PumpTick
      BY <3>0, <3>1 DEF PumpTick, Steps
    <3>2. CASE PumpLook
      BY <3>0, <3>2 DEF PumpLook, Steps
    <3>3. CASE PumpDecide
      BY <3>0, <3>3 DEF PumpDecide, Steps
    <3>4. CASE PumpDeal
      BY <3>0, <3>4 DEF PumpDeal, Steps
    <3> QED
      BY <2>4, <3>1, <3>2, <3>3, <3>4 DEF PumpStep
  <2>5. ASSUME NEW d \in Operators, OperatorCalls(d) PROVE TypeInv'
    BY SMTT(60), <2>5, RouteAssumption DEF OperatorCalls, Steps, Drivers
  <2>6. ASSUME NEW d \in Drivers, Driver(d) PROVE TypeInv'
    <3> USE AfterSteps
    <3>1. CASE CloseBetting(d)
      BY <3>1 DEF CloseBetting, Steps
    <3>2. CASE PublishResult(d)
      <4>1. cur \in Rounds
        BY <3>2, CurDealt DEF PublishResult
      <4>2. PICK won \in SUBSET bets[cur] : winners' = [winners EXCEPT ![cur] = won]
        BY <3>2 DEF PublishResult
      <4>3. winners' \in [Rounds -> SUBSET BetIds]
        BY <4>1, <4>2
      <4> QED
        BY <3>2, <4>3 DEF PublishResult, Steps
    <3>3. CASE PublishRefused(d)
      BY <3>3 DEF PublishRefused, Steps
    <3>4. CASE SettleRoom(d)
      <4>1. cur \in Rounds
        BY <3>4, CurDealt DEF SettleRoom
      <4>2. RoundRows(cur) \subseteq Rows
        BY <4>1 DEF RoundRows, Rows
      <4> QED
        BY <3>4, <4>1, <4>2 DEF SettleRoom, Steps
    <3>5. CASE SettleRefused(d)
      BY <3>5 DEF SettleRefused
    <3>6. CASE StartRound(d)
      <4>1. cur' \in 0..MaxRounds /\ cur' # 0
        BY <3>6 DEF StartRound
      <4> QED
        BY <3>6, <4>1 DEF StartRound, Steps
    <3>7. CASE StartRefused(d)
      BY <3>7 DEF StartRefused, Steps
    <3>8. CASE TakeLock(d)
      BY <3>8 DEF TakeLock, Steps
    <3>9. CASE RecordRow(d)
      BY SMTT(60), <3>9 DEF RecordRow, Steps
    <3>10. CASE CreditRow(d)
      BY <3>10, CreditCounts DEF CreditRow, Steps
    <3>11. CASE MarkRow(d)
      BY <3>11 DEF MarkRow, Steps
    <3>12. CASE LoopDone(d)
      BY <3>12 DEF LoopDone, LeaveLoop, Steps
    <3>13. CASE CreditRaises(d)
      BY <3>13, CreditCounts DEF CreditRaises, LeaveLoop, Steps
    <3>14. CASE StoreFails(d)
      BY <3>14 DEF StoreFails, LeaveLoop, Steps
    <3>15. CASE Park(d)
      BY <3>15, CurDealt, ParkTypes DEF Park, Steps
    <3>16. CASE RecordHistory(d)
      BY <3>16 DEF RecordHistory, Steps
    <3>17. CASE CancelRoom(d)
      <4>1. cur \in Rounds
        BY <3>17, CurDealt DEF CancelRoom
      <4>2. {cur} \X bets[cur] \subseteq Rows /\ {cur} \X {} \subseteq Rows
        BY <4>1 DEF Rows
      <4> QED
        BY <3>17, <4>1, <4>2 DEF CancelRoom, Steps
    <3>18. CASE CancelRefused(d)
      BY <3>18 DEF CancelRefused, Steps
    <3>19. CASE VoidRow(d)
      BY <3>19 DEF VoidRow, Steps
    <3>20. CASE VoidRaises(d)
      BY <3>20 DEF VoidRaises, Steps
    <3>21. CASE VoidDone(d)
      BY <3>21 DEF VoidDone, Steps
    <3> QED
      BY <2>6, <3>1, <3>2, <3>3, <3>4, <3>5, <3>6, <3>7, <3>8, <3>9, <3>10, <3>11,
         <3>12, <3>13, <3>14, <3>15, <3>16, <3>17, <3>18, <3>19, <3>20, <3>21 DEF Driver
  <2>7. CASE UNCHANGED vars
    BY <2>7 DEF vars
  <2> QED
    BY <2>1, <2>2, <2>3, <2>4, <2>5, <2>6, <2>7 DEF Next
<1> QED
  BY <1>1, <1>2, PTL DEF Spec

\* Every variable keeps its type, whatever fails.
THEOREM TypeCorrect == Spec => []TypeOK
<1>1. TypeInv => TypeOK
  BY DEF TypeInv
<1> QED
  BY <1>1, TypesHold, PTL

-----------------------------------------------------------------------------
(* Rounds.                                                                 *)

\* The steps that write a round: every other leaves room.round as it is.
LEMMA RoomSteps ==
  ASSUME Next
  PROVE  \/ UNCHANGED roomVars
         \/ AcceptBet \/ GiveUp \/ Restore
         \/ \E d \in Drivers : \/ CloseBetting(d) \/ PublishResult(d) \/ SettleRoom(d)
                               \/ StartRound(d) \/ Park(d) \/ CancelRoom(d)
<1>1. CASE AcceptBet
  BY <1>1
<1>2. CASE Timer
  BY <1>2 DEF Timer, DeadlinePasses, DwellEnds, BackoffEnds
<1>3. CASE SweepTick
  BY <1>3 DEF SweepTick, SweepExpired, SweepPending
<1>4. CASE PumpStep
  BY <1>4 DEF PumpStep, PumpTick, PumpLook, PumpDecide, PumpDeal
<1>5. CASE \E d \in Operators : OperatorCalls(d)
  BY <1>5 DEF OperatorCalls
<1>6. ASSUME NEW d \in Drivers, Driver(d)
      PROVE  \/ UNCHANGED roomVars
             \/ CloseBetting(d) \/ PublishResult(d) \/ SettleRoom(d)
             \/ StartRound(d) \/ Park(d) \/ CancelRoom(d)
  BY <1>6 DEF Driver, PublishRefused, SettleRefused, StartRefused, TakeLock, RecordRow,
     CreditRow, MarkRow, LoopDone, CreditRaises, StoreFails, RecordHistory, CancelRefused,
     VoidRow, VoidRaises, VoidDone
<1> QED
  BY <1>1, <1>2, <1>3, <1>4, <1>5, <1>6 DEF Next

\* A settled round stays over and a voided bet stays out of its round: closing,
\* publishing, parking, restoring and cancelling included.
LEMMA RoundsStep ==
  ASSUME TypeInv, SettledIsOver, VoidedIsOut, Next
  PROVE  SettledIsOver' /\ VoidedIsOut'
<1> USE DEF roomVars
<1> USE DEF UPCOMING, BETTING_OPEN, BETTING_CLOSED, RESULT, RESULT_DECLARED, CLOSED,
            SETTLED_PENDING, SETTLE_FAILED
<1>0. cur \in 0..MaxRounds /\ \A d \in Drivers : pc[d] \notin {"idle", "start"} => cur \in Rounds
  BY CurDealt DEF TypeInv, TypeOK
<1>1. CASE UNCHANGED roomVars
  BY <1>1 DEF SettledIsOver, VoidedIsOut
<1>2. CASE AcceptBet
  <2>1. cur \in Rounds
    BY <1>0, <1>2 DEF AcceptBet, Rounds
  <2>2. SettledIsOver'
    BY <1>2, <2>1 DEF AcceptBet, SettledIsOver
  <2>3. VoidedIsOut'
    BY <1>2, <2>1 DEF AcceptBet, VoidedIsOut, TypeInv, TypeOK
  <2> QED
    BY <2>2, <2>3
<1>3. CASE GiveUp
  <2>1. SettledIsOver'
    BY <1>3 DEF GiveUp, SettledIsOver, TypeInv, TypeOK
  <2>2. VoidedIsOut'
    BY <1>3 DEF GiveUp, VoidedIsOut, TypeInv, TypeOK
  <2> QED
    BY <2>1, <2>2
<1>4. CASE Restore
  <2>1. SettledIsOver'
    BY <1>4 DEF Restore, SettledIsOver, TypeInv, TypeOK
  <2>2. VoidedIsOut'
    BY <1>4 DEF Restore, VoidedIsOut, TypeInv, TypeOK
  <2> QED
    BY <2>1, <2>2
<1>5. ASSUME NEW d \in Drivers, CloseBetting(d) PROVE SettledIsOver' /\ VoidedIsOut'
  <2>1. SettledIsOver'
    BY <1>5 DEF CloseBetting, SettledIsOver, TypeInv, TypeOK
  <2>2. VoidedIsOut'
    BY <1>5 DEF CloseBetting, VoidedIsOut, TypeInv, TypeOK
  <2> QED
    BY <2>1, <2>2
<1>6. ASSUME NEW d \in Drivers, PublishResult(d) PROVE SettledIsOver' /\ VoidedIsOut'
  <2>1. SettledIsOver'
    BY <1>6 DEF PublishResult, SettledIsOver, TypeInv, TypeOK
  <2>2. VoidedIsOut'
    BY <1>6 DEF PublishResult, VoidedIsOut, TypeInv, TypeOK
  <2> QED
    BY <2>1, <2>2
<1>7. ASSUME NEW d \in Drivers, SettleRoom(d) PROVE SettledIsOver' /\ VoidedIsOut'
  <2>1. SettledIsOver'
    BY <1>7 DEF SettleRoom, CanSettle, SettledIsOver, TypeInv, TypeOK
  <2>2. VoidedIsOut'
    BY <1>7 DEF SettleRoom, CanSettle, VoidedIsOut, TypeInv, TypeOK
  <2> QED
    BY <2>1, <2>2
<1>8. ASSUME NEW d \in Drivers, StartRound(d) PROVE SettledIsOver' /\ VoidedIsOut'
  <2>1. \A r \in Rounds : (settled[r] \/ voided[r] # {}) => r # cur + 1
    BY <1>0 DEF SettledIsOver, VoidedIsOut, Rounds
  <2>2. SettledIsOver'
    BY <1>0, <1>8, <2>1 DEF StartRound, SettledIsOver, TypeInv, TypeOK, Rounds
  <2>3. VoidedIsOut'
    BY <1>0, <1>8, <2>1 DEF StartRound, VoidedIsOut, TypeInv, TypeOK, Rounds
  <2> QED
    BY <2>2, <2>3
<1>9. ASSUME NEW d \in Drivers, Park(d) PROVE SettledIsOver' /\ VoidedIsOut'
  <2>1. UNCHANGED <<cur, bets, voided, settled>> /\ MarkSettlePending /\ cur \in Rounds
    BY <1>0, <1>9 DEF Park
  <2>2. CanTransition(status[cur], SETTLED_PENDING) => status[cur] # BETTING_OPEN
    BY DEF CanTransition, Allowed, UPCOMING, ABOUT_TO_START, RESULT_PROCESSING, SETTLED
  <2>3. SettledIsOver'
    BY <2>1 DEF MarkSettlePending, SettledIsOver, TypeInv, TypeOK
  <2>4. VoidedIsOut'
    BY <2>1, <2>2 DEF MarkSettlePending, VoidedIsOut, TypeInv, TypeOK
  <2> QED
    BY <2>3, <2>4
<1>10. ASSUME NEW d \in Drivers, CancelRoom(d) PROVE SettledIsOver' /\ VoidedIsOut'
  <2>1. cur \in Rounds
    BY <1>0, <1>10 DEF CancelRoom
  <2>2. SettledIsOver'
    BY <1>10, <2>1 DEF CancelRoom, SettledIsOver, TypeInv, TypeOK
  <2>3. VoidedIsOut'
    BY <1>0, <1>10, <2>1 DEF CancelRoom, VoidedIsOut, TypeInv, TypeOK
  <2> QED
    BY <2>2, <2>3
<1> QED
  BY <1>1, <1>2, <1>3, <1>4, <1>5, <1>6, <1>7, <1>8, <1>9, <1>10, RoomSteps

-----------------------------------------------------------------------------
(* Rows.                                                                   *)

\* A row is its round and its bet.
LEMMA RowParts ==
  ASSUME TypeInv, TypeInv', NEW b \in Rows
  PROVE  /\ b[1] \in Rounds /\ b[2] \in BetIds
         /\ b \in RoundRows(b[1]) <=> b[2] \in bets[b[1]]
         /\ (b \in RoundRows(b[1]))' <=> b[2] \in bets'[b[1]]
         /\ b \in Settleable <=> settled[b[1]] /\ b[2] \in bets[b[1]]
         /\ b \in Settleable' <=> settled'[b[1]] /\ b[2] \in bets'[b[1]]
<1>1. PICK r \in Rounds, i \in BetIds : b = <<r, i>>
  BY DEF Rows
<1> QED
  BY <1>1 DEF RoundRows, Settleable

\* What no step does to a round that is settled: unsettle it, change its bets or its
\* winners; and no step takes a voided bet back.
LEMMA OutcomeKept ==
  ASSUME TypeInv, SettledIsOver, Next
  PROVE  /\ \A r \in Rounds : settled[r] => /\ settled'[r]
                                         /\ bets'[r] = bets[r]
                                         /\ winners'[r] = winners[r]
         /\ \A r \in Rounds : voided[r] \subseteq voided'[r]
<1>0. \A d \in Drivers : pc[d] \notin {"idle", "start"} => cur \in Rounds
  BY CurDealt
<1> USE DEF TypeInv, TypeOK, BETTING_OPEN, BETTING_CLOSED, CLOSED, SETTLED_PENDING,
            SETTLE_FAILED
<1>1. CASE UNCHANGED roomVars
  BY <1>1 DEF roomVars
<1>2. CASE AcceptBet
  BY <1>2 DEF AcceptBet, SettledIsOver
<1>3. CASE GiveUp
  BY <1>3 DEF GiveUp
<1>4. CASE Restore
  BY <1>4 DEF Restore
<1>5. ASSUME NEW d \in Drivers,
             CloseBetting(d) \/ SettleRoom(d) \/ StartRound(d) \/ Park(d)
      PROVE  /\ UNCHANGED <<bets, voided, winners>>
             /\ settled' = settled \/ settled' = [settled EXCEPT ![cur] = TRUE]
  BY <1>5 DEF CloseBetting, SettleRoom, StartRound, Park
<1>6. ASSUME NEW d \in Drivers, PublishResult(d)
      PROVE  /\ UNCHANGED <<bets, voided, settled>>
             /\ \A r \in Rounds : settled[r] => winners'[r] = winners[r]
  BY <1>6 DEF PublishResult, SettledIsOver
<1>7. ASSUME NEW d \in Drivers, CancelRoom(d)
      PROVE  /\ UNCHANGED <<winners, settled>>
             /\ \A r \in Rounds : /\ settled[r] => bets'[r] = bets[r]
                                  /\ voided[r] \subseteq voided'[r]
  BY <1>7 DEF CancelRoom
<1> QED
  BY <1>1, <1>2, <1>3, <1>4, <1>5, <1>6, <1>7, RoomSteps

\* What that leaves of a row: rows once made stay, and win or lose as they did; voided
\* bets stay voided.
RowsKept ==
  /\ \A b \in Rows : b \in Settleable => b \in Settleable' /\ (Won(b)' <=> Won(b))
  /\ \A b \in Rows : b[2] \in voided[b[1]] => b[2] \in voided'[b[1]]

\* Every step keeps the rows.
LEMMA RowsStep ==
  ASSUME TypeInv, TypeInv', SettledIsOver, Next
  PROVE  RowsKept
  BY OutcomeKept, RowParts DEF RowsKept, Won

-----------------------------------------------------------------------------
(* Drivers.                                                                *)

\* The steps at which a driver holds no rows.
Outside == Steps \ (InLoop \cup {"void"})

\* A step that moves no money, touches no store and takes no lock keeps every driver's
\* rows sound, if whoever moves is not in the credit loop and does not enter a loop.
LEMMA LoopQuiet ==
  ASSUME TypeInv, TypeInv', LoopSound, RowsKept, UNCHANGED <<store, credits, loop>>,
         \A d \in Drivers : \/ pc'[d] = pc[d]
                            \/ pc[d] \notin Crediting /\ pc'[d] \in Outside
  PROVE  LoopSound'
<1> SUFFICES ASSUME NEW d \in Drivers
             PROVE  /\ pc'[d] \in Crediting <=> settleLock' = d
                    /\ pc'[d] \in InLoop => todo'[d] \subseteq Settleable'
                    /\ pc'[d] \in {"credit", "mark"} => /\ row'[d] \in todo'[d]
                                                        /\ store'[row'[d]] # "none"
                    /\ pc'[d] = "credit" => Won(row[d])'
                    /\ pc'[d] = "mark" /\ Won(row[d])' => credits'[row'[d]] > 0
                    /\ pc'[d] = "void" => \A b \in todo'[d] : b[2] \in voided'[b[1]]
  BY DEF LoopSound
<1> USE DEF loop, InLoop, Crediting, Outside
<1>0. todo[d] \subseteq Rows
  BY DEF TypeInv, TypeOK
<1>1. CASE pc'[d] = pc[d]
  <2>1. pc[d] \in InLoop => todo[d] \subseteq Settleable'
    BY <1>0 DEF LoopSound, RowsKept
  <2>2. pc[d] \in {"credit", "mark"} => row[d] \in Rows /\ (Won(row[d])' <=> Won(row[d]))
    BY <1>0 DEF LoopSound, RowsKept
  <2> QED
    BY <1>0, <1>1, <2>1, <2>2 DEF LoopSound, RowsKept
<1>2. CASE pc[d] \notin Crediting /\ pc'[d] \in Outside
  BY <1>2 DEF LoopSound
<1> QED
  BY <1>1, <1>2

\* What LoopSound says of one driver, after a step.
LoopSoundNext(d) ==
  /\ pc'[d] \in Crediting <=> settleLock' = d
  /\ pc'[d] \in InLoop => todo'[d] \subseteq Settleable'
  /\ pc'[d] \in {"credit", "mark"} => row'[d] \in todo'[d] /\ store'[row'[d]] # "none"
  /\ pc'[d] = "credit" => Won(row[d])'
  /\ pc'[d] = "mark" /\ Won(row[d])' => credits'[row'[d]] > 0
  /\ pc'[d] = "void" => \A b \in todo'[d] : b[2] \in voided'[b[1]]

\* A step of driver d inside a loop leaves every other driver's rows sound: it writes
\* no row's store but from "none" or to "credited", takes no credit back, and only
\* changes hands of the lock with d.
LEMMA LoopOthers ==
  ASSUME TypeInv, TypeInv', LoopSound, RowsKept,
         NEW d \in Drivers, NEW e \in Drivers, e # d,
         pc'[e] = pc[e], todo'[e] = todo[e], row'[e] = row[e],
         \A b \in Rows : store[b] # "none" => store'[b] # "none",
         \A b \in Rows : credits'[b] >= credits[b],
         settleLock' = settleLock \/ (settleLock \in {d, NoDriver} /\ settleLock' \in {d, NoDriver})
  PROVE  LoopSoundNext(e)
<1> USE DEF InLoop, Crediting
<1>0. todo[e] \subseteq Rows /\ e # NoDriver
  BY DriverAssumption DEF TypeInv, TypeOK
<1>1. pc[e] \in InLoop => todo[e] \subseteq Settleable'
  BY <1>0 DEF LoopSound, RowsKept
<1>2. pc[e] \in {"credit", "mark"} =>
        row[e] \in Rows /\ (Won(row[e])' <=> Won(row[e])) /\ credits[row[e]] \in Nat
        /\ credits'[row[e]] \in Nat
  BY <1>0 DEF LoopSound, RowsKept, TypeInv, TypeOK
<1>3. settleLock' = e <=> settleLock = e
  BY <1>0
<1>4. /\ pc'[e] \in Crediting <=> settleLock' = e
      /\ pc'[e] \in InLoop => todo'[e] \subseteq Settleable'
      /\ pc'[e] \in {"credit", "mark"} => row'[e] \in todo'[e] /\ store'[row'[e]] # "none"
  BY <1>0, <1>1, <1>2, <1>3 DEF LoopSound
<1>5. /\ pc'[e] = "credit" => Won(row[e])'
      /\ pc'[e] = "mark" /\ Won(row[e])' => credits'[row'[e]] > 0
  BY <1>0, <1>2 DEF LoopSound
<1>6. pc'[e] = "void" => \A b \in todo'[e] : b[2] \in voided'[b[1]]
  BY <1>0 DEF LoopSound, RowsKept
<1> QED
  BY <1>4, <1>5, <1>6 DEF LoopSoundNext

\* room.settle gives its caller rows of a settled round.
LEMMA LoopSettleRoom ==
  ASSUME TypeInv, TypeInv', LoopSound, RowsKept, NEW d \in Drivers, SettleRoom(d)
  PROVE  LoopSoundNext(d)
<1>1. cur \in Rounds /\ settled'[cur] /\ bets' = bets
  BY CurDealt DEF SettleRoom, TypeInv, TypeOK
<1>2. RoundRows(cur) \subseteq Rows
  BY <1>1 DEF RoundRows, Rows, TypeInv, TypeOK
<1>3. RoundRows(cur) \subseteq Settleable'
  <2> SUFFICES ASSUME NEW b \in RoundRows(cur) PROVE b \in Settleable'
    OBVIOUS
  <2>1. b[1] = cur /\ b[2] \in bets[cur] /\ b \in Rows
    BY <1>2 DEF RoundRows
  <2> QED
    BY <1>1, <2>1, RowParts
<1>4. pc'[d] = "lock" /\ todo'[d] = RoundRows(cur) /\ settleLock' = settleLock
  BY DEF SettleRoom, Goto, TypeInv, TypeOK
<1>5. settleLock # d
  BY DEF SettleRoom, LoopSound, Crediting
<1> QED
  BY <1>3, <1>4, <1>5 DEF LoopSoundNext, Crediting

\* settlements.record: the row is one room.settle made, and goes to the wallet only
\* if it pays.
LEMMA LoopRecordRow ==
  ASSUME TypeInv, TypeInv', LoopSound, RowsKept, NEW d \in Drivers, RecordRow(d)
  PROVE  LoopSoundNext(d)
<1>1. settleLock' = settleLock /\ settleLock = d /\ todo[d] \subseteq Settleable'
  BY DEF RecordRow, LoopSound, RowsKept, Crediting, InLoop, TypeInv, TypeOK
<1>2. PICK b \in todo[d] :
        IF store[b] = "credited"
        THEN /\ todo' = [todo EXCEPT ![d] = @ \ {b}]
             /\ UNCHANGED <<store, row, pc>>
        ELSE /\ store' = [store EXCEPT ![b] = "recorded"]
             /\ row' = [row EXCEPT ![d] = b]
             /\ Goto(d, IF Won(b) THEN "credit" ELSE "mark")
             /\ UNCHANGED todo
  BY DEF RecordRow
<1>3. b \in Rows /\ (Won(b)' <=> Won(b))
  BY DEF RecordRow, LoopSound, RowsKept, InLoop, TypeInv, TypeOK
<1>4. CASE store[b] = "credited"
  <2>1. pc'[d] = "record" /\ todo'[d] \subseteq todo[d]
    BY <1>2, <1>4 DEF RecordRow, TypeInv, TypeOK
  <2> QED
    BY <1>1, <2>1 DEF LoopSoundNext, Crediting
<1>5. CASE store[b] # "credited"
  <2>1. /\ row'[d] = b /\ todo'[d] = todo[d] /\ store'[b] = "recorded"
        /\ pc'[d] = IF Won(b) THEN "credit" ELSE "mark"
    BY <1>2, <1>3, <1>5 DEF Goto, TypeInv, TypeOK
  <2>2. Won(row[d])' <=> Won(b)
    BY <1>3, <2>1 DEF Won
  <2> QED
    BY <1>1, <2>1, <2>2 DEF LoopSoundNext, Crediting
<1> QED
  BY <1>4, <1>5

\* wallet.credit: the row is paid when the driver goes on to mark it.
LEMMA LoopCreditRow ==
  ASSUME TypeInv, TypeInv', LoopSound, RowsKept, NEW d \in Drivers, CreditRow(d)
  PROVE  LoopSoundNext(d)
<1>1. /\ settleLock = d /\ settleLock' = d /\ todo[d] \subseteq Settleable'
      /\ row[d] \in todo[d] /\ store[row[d]] # "none" /\ row[d] \in Rows
  BY DEF CreditRow, LoopSound, RowsKept, Crediting, InLoop, TypeInv, TypeOK, loop
<1>2. todo' = todo /\ row' = row /\ store' = store /\ pc'[d] = "mark"
  BY DEF CreditRow, loop, Goto, TypeInv, TypeOK
<1>3. credits'[row[d]] > 0
  BY <1>1 DEF CreditRow, Credit, TypeInv, TypeOK
<1> QED
  BY <1>1, <1>2, <1>3 DEF LoopSoundNext, Crediting

\* Leaving the credit loop gives up its lock and its rows.
LEMMA LoopLeave ==
  ASSUME TypeInv, NEW d \in Drivers, NEW s \in Outside, LeaveLoop(d, s)
  PROVE  LoopSoundNext(d)
<1>1. d # NoDriver
  BY DriverAssumption
<1>2. pc'[d] = s /\ settleLock' = NoDriver
  BY DEF LeaveLoop, Goto, TypeInv, TypeOK
<1> QED
  BY <1>1, <1>2 DEF LoopSoundNext, Crediting, InLoop, Outside

\* Every step keeps every driver's rows sound.
LEMMA LoopStep ==
  ASSUME TypeInv, TypeInv', LoopSound, RowsKept, Next
  PROVE  LoopSound'
<1>0. Sweeper \in Drivers /\ Pump \in Drivers /\ Operators \subseteq Drivers
  BY DEF Drivers
<1>1. ASSUME NEW d \in Drivers, NEW s \in Outside, pc' = [pc EXCEPT ![d] = s],
             pc[d] \notin Crediting, UNCHANGED <<store, credits, loop>>
      PROVE  LoopSound'
  BY <1>1, LoopQuiet DEF TypeInv, TypeOK
<1>2. ASSUME pc' = pc, UNCHANGED <<store, credits, loop>>
      PROVE  LoopSound'
  BY <1>2, LoopQuiet
<1>3. ASSUME NEW d \in Drivers, LoopSoundNext(d),
             \A e \in Drivers : e # d => LoopSoundNext(e)
      PROVE  LoopSound'
  BY <1>3 DEF LoopSound, LoopSoundNext
<1>4. CASE AcceptBet \/ Timer
  BY <1>2, <1>4 DEF AcceptBet, Timer, DeadlinePasses, DwellEnds, BackoffEnds, ledgers
<1>5. CASE SweepTick
  <2>1. PICK s \in {"close", "giveup", "restore", "idle", "publish", "settle"} :
          pc' = [pc EXCEPT ![Sweeper] = s]
    BY <1>5 DEF SweepTick, SweepExpired, SweepPending, GiveUp, Restore, Goto
  <2>2. pc[Sweeper] \notin Crediting /\ UNCHANGED <<store, credits, loop>>
    BY <1>5 DEF SweepTick, SweepExpired, SweepPending, GiveUp, Restore, ledgers, Crediting
  <2> QED
    BY <1>0, <1>1, <2>1, <2>2 DEF Outside, Steps, InLoop
<1>6. CASE PumpStep
  <2>1. PICK s \in {"close", "look", "publish", "decide", "settle", "deal", "start", "idle"} :
          pc' = [pc EXCEPT ![Pump] = s]
    BY <1>6 DEF PumpStep, PumpTick, PumpLook, PumpDecide, PumpDeal, Goto
  <2>2. pc[Pump] \notin Crediting /\ UNCHANGED <<store, credits, loop>>
    BY <1>6 DEF PumpStep, PumpTick, PumpLook, PumpDecide, PumpDeal, ledgers, Crediting
  <2> QED
    BY <1>0, <1>1, <2>1, <2>2 DEF Outside, Steps, InLoop
<1>7. ASSUME NEW d \in Operators, OperatorCalls(d) PROVE LoopSound'
  <2>1. PICK s \in Routes : pc' = [pc EXCEPT ![d] = s]
    BY <1>7 DEF OperatorCalls, Goto
  <2>2. pc[d] \notin Crediting /\ UNCHANGED <<store, credits, loop>>
    BY <1>7 DEF OperatorCalls, ledgers, Crediting
  <2> QED
    BY <1>0, <1>1, <2>1, <2>2, RouteAssumption DEF Outside, Steps, InLoop
<1>8. ASSUME NEW d \in Drivers, Driver(d) PROVE LoopSound'
  <2> DEFINE Quiet == /\ UNCHANGED <<store, credits, loop>> /\ pc[d] \notin Crediting
                      /\ \E s \in Outside : pc' = [pc EXCEPT ![d] = s]
             Apart == /\ \A e \in Drivers \ {d} : /\ pc'[e] = pc[e] /\ todo'[e] = todo[e]
                                                  /\ row'[e] = row[e]
                      /\ \A b \in Rows : store[b] # "none" => store'[b] # "none"
                      /\ \A b \in Rows : credits'[b] >= credits[b]
                      /\ \/ settleLock' = settleLock
                         \/ /\ settleLock \in {d, NoDriver}
                            /\ settleLock' \in {d, NoDriver}
  <2> USE DEF Goto
  <2>0. Quiet => LoopSound'
    BY <1>1
  <2>1. LoopSoundNext(d) /\ Apart => LoopSound'
    BY <1>3, LoopOthers
  <2>2. AfterError(d) \in Outside /\ AfterLeak(d) \in Outside /\ AfterSettle(d) \in Outside
    BY AfterSteps DEF Outside
  <2>3. CASE CloseBetting(d) \/ PublishResult(d) \/ PublishRefused(d) \/ SettleRefused(d)
    <3>1. \E s \in Outside : pc' = [pc EXCEPT ![d] = s]
      BY <2>2, <2>3 DEF CloseBetting, PublishResult, PublishRefused, SettleRefused, Outside,
         Steps, InLoop
    <3> QED
      BY <2>0, <2>3, <3>1 DEF CloseBetting, PublishResult, PublishRefused, SettleRefused,
         ledgers, Crediting
  <2>4. CASE StartRound(d) \/ StartRefused(d) \/ CancelRefused(d) \/ VoidDone(d)
    <3>1. \E s \in Outside : pc' = [pc EXCEPT ![d] = s]
      BY <2>2, <2>4 DEF StartRound, StartRefused, CancelRefused, VoidDone, Outside, Steps,
         InLoop
    <3> QED
      BY <2>0, <2>4, <3>1 DEF StartRound, StartRefused, CancelRefused, VoidDone, ledgers,
         Crediting
  <2>5. CASE Park(d) \/ RecordHistory(d)
    <3>1. \E s \in Outside : pc' = [pc EXCEPT ![d] = s]
      BY <2>2, <2>5 DEF Park, RecordHistory, Outside, Steps, InLoop
    <3> QED
      BY <2>0, <2>5, <3>1 DEF Park, RecordHistory, ledgers, Crediting
  <2>6. CASE SettleRoom(d)
    <3>1. Apart
      BY <2>6 DEF SettleRoom, ledgers, TypeInv, TypeOK
    <3> QED
      BY <2>1, <2>6, <3>1, LoopSettleRoom
  <2>7. CASE TakeLock(d)
    <3>1. Apart
      BY <2>7 DEF TakeLock, ledgers, TypeInv, TypeOK
    <3>2. LoopSoundNext(d)
      BY <2>7 DEF TakeLock, ledgers, TypeInv, TypeOK, LoopSound, LoopSoundNext, RowsKept,
         Crediting, InLoop
    <3> QED
      BY <2>1, <3>1, <3>2
  <2>8. CASE RecordRow(d)
    <3>1. Apart
      BY <2>8 DEF RecordRow, TypeInv, TypeOK
    <3> QED
      BY <2>1, <2>8, <3>1, LoopRecordRow
  <2>9. CASE CreditRow(d)
    <3>1. Apart
      <4>1. \A b \in Rows : credits'[b] >= credits[b]
        BY <2>9 DEF CreditRow, Credit, TypeInv, TypeOK
      <4> QED
        BY <2>9, <4>1 DEF CreditRow, loop, TypeInv, TypeOK
    <3> QED
      BY <2>1, <2>9, <3>1, LoopCreditRow
  <2>10. CASE MarkRow(d)
    <3>1. Apart
      BY <2>10 DEF MarkRow, TypeInv, TypeOK
    <3>2. LoopSoundNext(d)
      BY <2>10 DEF MarkRow, TypeInv, TypeOK, LoopSound, LoopSoundNext, RowsKept, Crediting,
         InLoop
    <3> QED
      BY <2>1, <3>1, <3>2
  <2>11. CASE LoopDone(d) \/ CreditRaises(d) \/ StoreFails(d)
    <3>1. PICK s \in Outside : LeaveLoop(d, s)
      BY <2>2, <2>11 DEF LoopDone, CreditRaises, StoreFails, Outside, Steps, InLoop
    <3>2. settleLock = d
      BY <2>11 DEF LoopDone, CreditRaises, StoreFails, LoopSound, Crediting
    <3>3. \A b \in Rows : credits'[b] >= credits[b]
      BY SMTT(60), <2>11 DEF LoopDone, CreditRaises, StoreFails, ledgers, Credit, TypeInv, TypeOK
    <3>4. store' = store
      BY <2>11 DEF LoopDone, CreditRaises, StoreFails, ledgers
    <3>5. Apart
      BY <3>1, <3>2, <3>3, <3>4 DEF LeaveLoop, TypeInv, TypeOK
    <3> QED
      BY <2>1, <3>1, <3>5, LoopLeave
  <2>12. CASE CancelRoom(d)
    <3>1. Apart
      BY <2>12 DEF CancelRoom, ledgers, TypeInv, TypeOK
    <3>2. cur \in Rounds
      BY <2>12, CurDealt DEF CancelRoom
    <3>3. pc'[d] = "void" /\ settleLock' = settleLock /\ settleLock # d
      BY <2>12 DEF CancelRoom, LoopSound, Crediting, TypeInv, TypeOK
    <3>4. \A b \in todo'[d] : b[2] \in voided'[b[1]]
      BY <2>12, <3>2 DEF CancelRoom, TypeInv, TypeOK
    <3>5. LoopSoundNext(d)
      BY <3>3, <3>4 DEF LoopSoundNext, Crediting, InLoop
    <3> QED
      BY <2>1, <3>1, <3>5
  <2>13. CASE VoidRow(d) \/ VoidRaises(d)
    <3>1. Apart
      BY <2>13 DEF VoidRow, VoidRaises, TypeInv, TypeOK
    <3>2. /\ pc'[d] \in {"void", "idle"} /\ todo'[d] \subseteq todo[d]
          /\ settleLock' = settleLock /\ settleLock # d
      BY <2>13 DEF VoidRow, VoidRaises, LoopSound, Crediting, TypeInv, TypeOK
    <3>3. \A b \in todo[d] : b[2] \in voided'[b[1]]
      BY <2>13 DEF VoidRow, VoidRaises, LoopSound, RowsKept, TypeInv, TypeOK
    <3>4. LoopSoundNext(d)
      BY <3>2, <3>3 DEF LoopSoundNext, Crediting, InLoop
    <3> QED
      BY <2>1, <3>1, <3>4
  <2> QED
    BY <1>8, <2>3, <2>4, <2>5, <2>6, <2>7, <2>8, <2>9, <2>10, <2>11, <2>12, <2>13 DEF Driver
<1> QED
  BY <1>4, <1>5, <1>6, <1>7, <1>8 DEF Next

-----------------------------------------------------------------------------
(* Store, wallet and refunds.                                              *)

\* The part of LedgerInv that the credit loop and the refunds could break.
LedgerSound ==
  RecordedIsSettled /\ CreditedMeansPaid /\ PaidOnlyIfRecorded /\ NeverRefundedAndPaid

\* The steps that write the store or move money: the credit loop and the refunds.
LEMMA LedgerSteps ==
  ASSUME Next
  PROVE  \/ UNCHANGED ledgers
         \/ /\ UNCHANGED roomVars
            /\ \E d \in Drivers : \/ RecordRow(d) \/ CreditRow(d) \/ CreditRaises(d)
                                  \/ MarkRow(d) \/ VoidRow(d) \/ VoidRaises(d)
<1>1. CASE AcceptBet \/ Timer
  BY <1>1 DEF AcceptBet, Timer, DeadlinePasses, DwellEnds, BackoffEnds
<1>2. CASE SweepTick
  BY <1>2 DEF SweepTick, SweepExpired, SweepPending, GiveUp, Restore
<1>3. CASE PumpStep
  BY <1>3 DEF PumpStep, PumpTick, PumpLook, PumpDecide, PumpDeal
<1>4. CASE \E d \in Operators : OperatorCalls(d)
  BY <1>4 DEF OperatorCalls
<1>5. ASSUME NEW d \in Drivers, Driver(d)
      PROVE  \/ UNCHANGED ledgers
             \/ /\ UNCHANGED roomVars
                /\ \/ RecordRow(d) \/ CreditRow(d) \/ CreditRaises(d)
                   \/ MarkRow(d) \/ VoidRow(d) \/ VoidRaises(d)
  BY <1>5 DEF Driver, CloseBetting, PublishResult, PublishRefused, SettleRoom, SettleRefused,
     StartRound, StartRefused, TakeLock, LoopDone, StoreFails, Park, RecordHistory,
     CancelRoom, CancelRefused, VoidDone, RecordRow, CreditRow, CreditRaises, MarkRow,
     VoidRow, VoidRaises
<1> QED
  BY <1>1, <1>2, <1>3, <1>4, <1>5 DEF Next

\* The row a driver holds is a row of a settled round, recorded and never voided.
LEMMA HeldRow ==
  ASSUME TypeInv, TypeInv', LoopSound, VoidedIsOut, NeverRefundedAndPaid,
         NEW d \in Drivers, pc[d] \in {"credit", "mark"}
  PROVE  /\ row[d] \in Rows /\ row[d] \in Settleable /\ store[row[d]] # "none"
         /\ row[d] \notin refunds
         /\ pc[d] = "credit" => Won(row[d])
         /\ pc[d] = "mark" /\ Won(row[d]) => credits[row[d]] > 0
<1>1. row[d] \in todo[d] /\ todo[d] \subseteq Settleable /\ store[row[d]] # "none"
  BY DEF LoopSound, InLoop
<1>2. row[d] \in Rows /\ row[d] \in Settleable
  BY <1>1 DEF TypeInv, TypeOK
<1>3. row[d][1] \in Rounds /\ row[d][2] \in bets[row[d][1]]
  BY <1>2, RowParts
<1>4. row[d] \notin refunds
  BY <1>2, <1>3 DEF VoidedIsOut, NeverRefundedAndPaid
<1> QED
  BY <1>1, <1>2, <1>4 DEF LoopSound

\* A voided row was never paid.
LEMMA VoidedIsUnpaid ==
  ASSUME TypeInv, TypeInv', VoidedIsOut, PaidOnlyIfRecorded,
         NEW b \in Rows, b[2] \in voided[b[1]]
  PROVE  credits[b] = 0
<1>1. b[1] \in Rounds /\ (b \in RoundRows(b[1]) <=> b[2] \in bets[b[1]])
  BY RowParts
<1>2. b \notin RoundRows(b[1])
  BY <1>1 DEF VoidedIsOut
<1>3. credits[b] \in Nat /\ ~(credits[b] > 0)
  BY <1>2 DEF PaidOnlyIfRecorded, TypeInv, TypeOK
<1> QED
  BY <1>3

\* Store, wallet and refunds keep agreeing, whichever call fails or loses its answer.
LEMMA LedgerStep ==
  ASSUME TypeInv, TypeInv', VoidedIsOut, LoopSound, LedgerSound, RowsKept, Next
  PROVE  LedgerSound'
<1> USE DEF LedgerSound
<1>0. \A b \in Rows : /\ b[1] \in Rounds
                      /\ b \in Settleable <=> settled[b[1]] /\ b \in RoundRows(b[1])
                      /\ b \in Settleable' <=> settled'[b[1]] /\ (b \in RoundRows(b[1]))'
  BY RowParts DEF Settleable
<1>1. CASE UNCHANGED ledgers
  <2>1. RecordedIsSettled'
    BY <1>1 DEF ledgers, RecordedIsSettled, RowsKept
  <2>2. CreditedMeansPaid'
    BY <1>1 DEF ledgers, RecordedIsSettled, CreditedMeansPaid, RowsKept
  <2>3. PaidOnlyIfRecorded'
    BY <1>0, <1>1 DEF ledgers, PaidOnlyIfRecorded, RowsKept
  <2>4. NeverRefundedAndPaid'
    BY <1>1 DEF ledgers, NeverRefundedAndPaid, RowsKept
  <2> QED
    BY <2>1, <2>2, <2>3, <2>4
<1>2. ASSUME UNCHANGED roomVars
      PROVE  \A b \in Rows : /\ (Won(b)' <=> Won(b)) /\ voided' = voided
                             /\ settled' = settled
                             /\ b \in Settleable' <=> b \in Settleable
                             /\ (b \in RoundRows(b[1]))' <=> b \in RoundRows(b[1])
  BY <1>2, RowParts DEF roomVars, Won
<1>3. ASSUME UNCHANGED roomVars, NEW d \in Drivers, RecordRow(d) PROVE LedgerSound'
  <2>1. credits' = credits /\ refunds' = refunds /\ todo[d] \subseteq Settleable
    BY <1>3 DEF RecordRow, LoopSound, InLoop
  <2>2. \A b \in Rows : \/ store'[b] = store[b]
                        \/ store'[b] = "recorded" /\ b \in Settleable
    BY <1>3, <2>1 DEF RecordRow, TypeInv, TypeOK
  <2>3. \A b \in Rows : store[b] # "none" => store'[b] # "none"
    BY <2>2
  <2> QED
    BY <1>2, <1>3, <2>1, <2>2, <2>3
    DEF RecordedIsSettled, CreditedMeansPaid, PaidOnlyIfRecorded, NeverRefundedAndPaid
<1>4. ASSUME UNCHANGED roomVars, NEW d \in Drivers, CreditRow(d) \/ CreditRaises(d)
      PROVE  LedgerSound'
  <2>1. /\ row[d] \in Rows /\ row[d] \in Settleable /\ store[row[d]] # "none"
        /\ row[d] \notin refunds /\ Won(row[d])
    BY <1>4, HeldRow DEF CreditRow, CreditRaises
  <2>2. store' = store /\ refunds' = refunds
    BY <1>4 DEF CreditRow, CreditRaises
  <2>3. \A b \in Rows : \/ credits'[b] = credits[b]
                        \/ b = row[d] /\ credits'[b] = credits[b] + 1
    BY <1>4 DEF CreditRow, CreditRaises, Credit, TypeInv, TypeOK
  <2>4. \A b \in Rows : credits[b] \in Nat
    BY DEF TypeInv, TypeOK
  <2>5. RecordedIsSettled' /\ CreditedMeansPaid'
    BY <1>2, <1>4, <2>2, <2>3, <2>4 DEF RecordedIsSettled, CreditedMeansPaid
  <2>6. PaidOnlyIfRecorded'
    BY <1>0, <1>2, <1>4, <2>1, <2>2, <2>3 DEF PaidOnlyIfRecorded
  <2>7. NeverRefundedAndPaid'
    BY <1>2, <1>4, <2>1, <2>2, <2>3 DEF NeverRefundedAndPaid
  <2> QED
    BY <2>5, <2>6, <2>7
<1>5. ASSUME UNCHANGED roomVars, NEW d \in Drivers, MarkRow(d) PROVE LedgerSound'
  <2>1. /\ row[d] \in Rows /\ row[d] \in Settleable
        /\ Won(row[d]) => credits[row[d]] > 0
    BY <1>5, HeldRow DEF MarkRow
  <2>2. credits' = credits /\ refunds' = refunds /\ store' = [store EXCEPT ![row[d]] = "credited"]
    BY <1>5 DEF MarkRow
  <2>3. \A b \in Rows : store'[b] = IF b = row[d] THEN "credited" ELSE store[b]
    BY <2>2 DEF TypeInv, TypeOK
  <2> QED
    BY <1>2, <1>5, <2>1, <2>2, <2>3
    DEF RecordedIsSettled, CreditedMeansPaid, PaidOnlyIfRecorded, NeverRefundedAndPaid
<1>6. ASSUME UNCHANGED roomVars, NEW d \in Drivers, VoidRow(d) \/ VoidRaises(d)
      PROVE  LedgerSound'
  <2>1. store' = store /\ credits' = credits
    BY <1>6 DEF VoidRow, VoidRaises
  <2>2. refunds' = refunds \/ \E b \in todo[d] : refunds' = refunds \cup {b}
    BY <1>6 DEF VoidRow, VoidRaises
  <2>3. \A b \in todo[d] : b \in Rows /\ b[2] \in voided[b[1]] /\ credits[b] = 0
    BY <1>6, VoidedIsUnpaid DEF VoidRow, VoidRaises, LoopSound, TypeInv, TypeOK
  <2>4. NeverRefundedAndPaid'
    BY <1>2, <1>6, <2>1, <2>2, <2>3 DEF NeverRefundedAndPaid
  <2> QED
    BY <1>2, <1>6, <2>1, <2>4 DEF RecordedIsSettled, CreditedMeansPaid, PaidOnlyIfRecorded
<1> QED
  BY <1>1, <1>3, <1>4, <1>5, <1>6, LedgerSteps

\* No round, no row, no money: the ledger invariant holds at the start.
LEMMA LedgerInit == Init => LedgerInv
  BY DriverAssumption DEF Init, LedgerInv, SettledIsOver, VoidedIsOut, LoopSound,
     RecordedIsSettled, CreditedMeansPaid, PaidOnlyIfRecorded, NeverRefundedAndPaid,
     Crediting, InLoop, UPCOMING, SETTLED_PENDING, BETTING_OPEN

\* Stuttering keeps the ledger invariant.
LEMMA LedgerStutter == LedgerInv /\ UNCHANGED vars => LedgerInv'
  BY DEF LedgerInv, vars, roomVars, timers, ledgers, records, loop, SettledIsOver,
     VoidedIsOut, LoopSound, RecordedIsSettled, CreditedMeansPaid, PaidOnlyIfRecorded,
     NeverRefundedAndPaid, Won, RoundRows, Settleable

\* Whatever raises, loses its answer, cancels or races: a row called credited was paid,
\* money moves only for recorded winning rows of settled rounds, and no bet is both
\* refunded and paid.
THEOREM LedgerSafety ==
  Spec => [](LedgerInv /\ CreditedMeansPaid /\ PaidOnlyIfRecorded /\ NeverRefundedAndPaid)
<1>1. TypeInv /\ TypeInv' /\ LedgerInv /\ [Next]_vars => LedgerInv'
  <2> SUFFICES ASSUME TypeInv, TypeInv', LedgerInv, Next PROVE LedgerInv'
    BY LedgerStutter
  <2>1. SettledIsOver' /\ VoidedIsOut'
    BY RoundsStep DEF LedgerInv
  <2>2. RowsKept
    BY RowsStep DEF LedgerInv
  <2>3. LoopSound'
    BY <2>2, LoopStep DEF LedgerInv
  <2>4. LedgerSound'
    BY <2>2, LedgerStep DEF LedgerInv, LedgerSound
  <2> QED
    BY <2>1, <2>3, <2>4 DEF LedgerInv, LedgerSound
<1>2. LedgerInv => CreditedMeansPaid /\ PaidOnlyIfRecorded /\ NeverRefundedAndPaid
  BY DEF LedgerInv
<1> QED
  BY <1>1, <1>2, LedgerInit, TypesHold, PTL DEF Spec

-----------------------------------------------------------------------------
(* Retries.                                                                *)

\* No route cancels a round (a cancelled round may be parked again, without rows).
NoCancel == "cancel" \notin Routes

\* A closed round has its rows, a parked one resumes at what it misses, and attempts
\* are used up only by a round that is parked or given up.
BudgetInv ==
  \A r \in Rounds :
    /\ status[r] \in {UPCOMING, BETTING_OPEN, BETTING_CLOSED, RESULT, CLOSED,
                      SETTLED_PENDING, SETTLE_FAILED}
    /\ status[r] = CLOSED => settled[r]
    /\ status[r] = SETTLED_PENDING => /\ resume[r] \in {BETTING_CLOSED, RESULT, CLOSED}
                                      /\ resume[r] = CLOSED => settled[r]
    /\ attempts[r] <= MaxAttempts
    /\ attempts[r] = MaxAttempts => status[r] \in {SETTLED_PENDING, SETTLE_FAILED}
    /\ status[r] = SETTLE_FAILED => attempts[r] = MaxAttempts /\ r \in alerts
    /\ r > cur => status[r] = UPCOMING

\* What the sweeper read of the parked round before it took the lock still holds.
SweepInv ==
  /\ pc[Sweeper] \in {"restore", "giveup"} => cur \in Rounds /\ status[cur] = SETTLED_PENDING
  /\ pc[Sweeper] = "restore" => attempts[cur] < MaxAttempts
  /\ pc[Sweeper] = "giveup" => attempts[cur] = MaxAttempts

RetryInv == BudgetInv /\ SweepInv /\ \A d \in Drivers : pc[d] # "cancel"

\* Where a step may leave a driver that is not for the sweeper to decide.
Plain == Steps \ {"restore", "giveup", "cancel"}

\* Only the sweeper's look at a parked round takes it to a restore or a giving up.
LEMMA PlainSteps ==
  ASSUME NoCancel, TypeInv, Next
  PROVE  \/ SweepPending \/ GiveUp \/ Restore
         \/ /\ alerts' = alerts
            /\ \A d \in Drivers : pc'[d] = pc[d] \/ pc'[d] \in Plain
<1>0. Sweeper \in Drivers /\ Pump \in Drivers /\ Operators \subseteq Drivers
  BY DEF Drivers
<1> DEFINE Calm == /\ alerts' = alerts
                   /\ \A d \in Drivers : pc'[d] = pc[d] \/ pc'[d] \in Plain
<1>1. ASSUME NEW d, NEW s \in Plain, pc' = [pc EXCEPT ![d] = s], alerts' = alerts
      PROVE  Calm
  BY <1>1 DEF TypeInv, TypeOK
<1>2. CASE AcceptBet \/ Timer
  BY <1>2 DEF AcceptBet, Timer, DeadlinePasses, DwellEnds, BackoffEnds, records
<1>3. CASE SweepExpired
  <2>1. pc' = [pc EXCEPT ![Sweeper] = "close"] /\ alerts' = alerts
    BY <1>3 DEF SweepExpired, Goto, records
  <2> QED
    BY <1>1, <2>1 DEF Plain, Steps
<1>4. CASE PumpStep
  <2>1. PICK s \in {"close", "look", "publish", "decide", "settle", "deal", "start", "idle"} :
          pc' = [pc EXCEPT ![Pump] = s]
    BY <1>4 DEF PumpStep, PumpTick, PumpLook, PumpDecide, PumpDeal, Goto
  <2>2. alerts' = alerts
    BY <1>4 DEF PumpStep, PumpTick, PumpLook, PumpDecide, PumpDeal, records
  <2> QED
    BY <1>1, <2>1, <2>2 DEF Plain, Steps
<1>5. ASSUME NEW d \in Operators, OperatorCalls(d) PROVE Calm
  <2>1. PICK s \in Routes : pc' = [pc EXCEPT ![d] = s]
    BY <1>5 DEF OperatorCalls, Goto
  <2>2. alerts' = alerts
    BY <1>5 DEF OperatorCalls, records
  <2>3. s \in Plain
    BY <2>1, RouteAssumption DEF NoCancel, Plain, Steps
  <2> QED
    BY <1>1, <2>1, <2>2, <2>3
<1>6. ASSUME NEW d \in Drivers, Driver(d) PROVE Calm
  <2>1. alerts' = alerts
    BY <1>6 DEF Driver, CloseBetting, PublishResult, PublishRefused, SettleRoom,
       SettleRefused, StartRound, StartRefused, TakeLock, RecordRow, CreditRow, MarkRow,
       LoopDone, CreditRaises, StoreFails, Park, RecordHistory, CancelRoom,
       CancelRefused, VoidRow, VoidRaises, VoidDone, records
  <2>2. pc' = pc \/ \E s \in Plain : pc' = [pc EXCEPT ![d] = s]
    <3>0. /\ AfterError(d) \in Plain /\ AfterLeak(d) \in Plain /\ AfterSettle(d) \in Plain
      BY DEF AfterError, AfterLeak, AfterSettle, Plain, Steps
    <3> USE DEF Goto, Plain, Steps
    <3>1. CASE PublishRefused(d) \/ SettleRefused(d)
      BY <3>0, <3>1 DEF PublishRefused, SettleRefused
    <3>2. CASE Park(d) \/ RecordHistory(d)
      BY <3>0, <3>2 DEF Park, RecordHistory
    <3>3. CASE CloseBetting(d) \/ PublishResult(d)
      BY <3>3 DEF CloseBetting, PublishResult
    <3>4. CASE SettleRoom(d) \/ StartRound(d) \/ StartRefused(d) \/ TakeLock(d)
      BY <3>4 DEF SettleRoom, StartRound, StartRefused, TakeLock
    <3>5. CASE RecordRow(d) \/ CreditRow(d) \/ MarkRow(d)
      BY <3>5 DEF RecordRow, CreditRow, MarkRow
    <3>6. CASE LoopDone(d) \/ CreditRaises(d) \/ StoreFails(d)
      BY <3>0, <3>6 DEF LoopDone, CreditRaises, StoreFails, LeaveLoop
    <3>7. CASE CancelRoom(d) \/ CancelRefused(d) \/ VoidRow(d) \/ VoidRaises(d) \/ VoidDone(d)
      BY <3>7 DEF CancelRoom, CancelRefused, VoidRow, VoidRaises, VoidDone
    <3> QED
      BY <1>6, <3>1, <3>2, <3>3, <3>4, <3>5, <3>6, <3>7 DEF Driver
  <2>3. CASE pc' = pc
    BY <2>1, <2>3
  <2>4. CASE \E s \in Plain : pc' = [pc EXCEPT ![d] = s]
    BY <1>1, <2>1, <2>4
  <2> QED
    BY <2>2, <2>3, <2>4
<1> QED
  BY <1>2, <1>3, <1>4, <1>5, <1>6 DEF Next, SweepTick

\* Every step keeps the budget and what the sweeper knows.
LEMMA RetryStep ==
  ASSUME NoCancel, TypeInv, TypeInv', SettledIsOver, SettledIsOver', RetryInv, Next
  PROVE  RetryInv'
<1> USE DEF UPCOMING, BETTING_OPEN, BETTING_CLOSED, RESULT, RESULT_DECLARED, CLOSED,
            SETTLED_PENDING, SETTLE_FAILED
<1>0. /\ cur \in 0..MaxRounds
      /\ \A d \in Drivers : pc[d] \notin {"idle", "start"} => cur \in Rounds
      /\ Sweeper \in Drivers /\ Operators \subseteq Drivers
      /\ MaxAttempts \in Nat \ {0} /\ MaxRounds \in Nat /\ Rounds \subseteq Nat
  BY SMTT(60), CurDealt, BoundAssumption DEF TypeInv, TypeOK, Drivers, Rounds
<1>t. /\ status \in [Rounds -> RoundStatus] /\ resume \in [Rounds -> RoundStatus]
      /\ attempts \in [Rounds -> Nat] /\ settled \in [Rounds -> BOOLEAN]
      /\ pc \in [Drivers -> Steps] /\ status' \in [Rounds -> RoundStatus]
  BY DEF TypeInv, TypeOK
<1>r. BudgetInv /\ SweepInv /\ \A d \in Drivers : pc[d] # "cancel"
  BY DEF RetryInv
<1>b. \A r \in Rounds :
        /\ status[r] \in {UPCOMING, BETTING_OPEN, BETTING_CLOSED, RESULT, CLOSED,
                          SETTLED_PENDING, SETTLE_FAILED}
        /\ status[r] = CLOSED => settled[r]
        /\ status[r] = SETTLED_PENDING => /\ resume[r] \in {BETTING_CLOSED, RESULT, CLOSED}
                                          /\ resume[r] = CLOSED => settled[r]
        /\ attempts[r] <= MaxAttempts
        /\ attempts[r] = MaxAttempts => status[r] \in {SETTLED_PENDING, SETTLE_FAILED}
        /\ status[r] = SETTLE_FAILED => attempts[r] = MaxAttempts /\ r \in alerts
        /\ r > cur => status[r] = UPCOMING
  BY <1>r DEF BudgetInv
<1>a. ASSUME alerts' = alerts, \A d \in Drivers : pc'[d] = pc[d] \/ pc'[d] \in Plain,
             cur' = cur, attempts' = attempts, resume' = resume, settled' = settled,
             pc[Sweeper] \in {"restore", "giveup"} => status' = status, BudgetInv'
      PROVE  RetryInv'
  BY <1>0, <1>a, <1>r DEF RetryInv, SweepInv, Plain
<1>1. CASE SweepPending
  <2>1. UNCHANGED <<roomVars, alerts>> /\ cur \in Rounds /\ status[cur] = SETTLED_PENDING
    BY <1>0, <1>1 DEF SweepPending, records, Rounds
  <2>2. \/ attempts[cur] >= MaxAttempts /\ pc' = [pc EXCEPT ![Sweeper] = "giveup"]
        \/ attempts[cur] < MaxAttempts /\ pc' = [pc EXCEPT ![Sweeper] = "restore"]
    BY <1>1 DEF SweepPending, Goto
  <2>3. attempts[cur] \in Nat /\ attempts[cur] <= MaxAttempts
    BY <1>b, <1>t, <2>1
  <2>4. BudgetInv'
    BY <1>b, <2>1 DEF BudgetInv, roomVars
  <2>5. SweepInv'
    BY <1>0, <1>t, <2>1, <2>2, <2>3 DEF SweepInv, roomVars
  <2>6. \A d \in Drivers : pc'[d] # "cancel"
    BY <1>r, <1>t, <2>2
  <2> QED
    BY <2>4, <2>5, <2>6 DEF RetryInv
<1>2. CASE GiveUp
  <2>1. cur \in Rounds /\ status[cur] = SETTLED_PENDING /\ attempts[cur] = MaxAttempts
    BY <1>2, <1>r DEF GiveUp, SweepInv
  <2>2. /\ status' = [status EXCEPT ![cur] = SETTLE_FAILED] /\ alerts' = alerts \cup {cur}
        /\ UNCHANGED <<cur, settled, resume, attempts>> /\ pc' = [pc EXCEPT ![Sweeper] = "idle"]
    BY <1>2, <2>1 DEF GiveUp, Goto
  <2>3. BudgetInv'
    BY <1>b, <1>t, <2>1, <2>2 DEF BudgetInv
  <2>4. SweepInv' /\ \A d \in Drivers : pc'[d] # "cancel"
    BY <1>0, <1>r, <1>t, <2>2 DEF SweepInv
  <2> QED
    BY <2>3, <2>4 DEF RetryInv
<1>3. CASE Restore
  <2>1. cur \in Rounds /\ status[cur] = SETTLED_PENDING /\ attempts[cur] < MaxAttempts
    BY <1>3, <1>r DEF Restore, SweepInv
  <2>2. /\ status' = [status EXCEPT ![cur] = resume[cur]] /\ alerts' = alerts
        /\ UNCHANGED <<cur, settled, resume, attempts>>
        /\ \E s \in {"publish", "settle"} : pc' = [pc EXCEPT ![Sweeper] = s]
    BY <1>3, <2>1 DEF Restore, Goto, records
  <2>3. BudgetInv'
    BY <1>0, <1>b, <1>t, <2>1, <2>2 DEF BudgetInv
  <2>4. SweepInv' /\ \A d \in Drivers : pc'[d] # "cancel"
    BY <1>0, <1>r, <1>t, <2>2 DEF SweepInv
  <2> QED
    BY <2>3, <2>4 DEF RetryInv
<1>4. ASSUME ~SweepPending, ~GiveUp, ~Restore PROVE RetryInv'
  <2>1. alerts' = alerts /\ \A d \in Drivers : pc'[d] = pc[d] \/ pc'[d] \in Plain
    BY <1>4, PlainSteps
  <2>2. CASE UNCHANGED roomVars
    <3>1. BudgetInv'
      BY <1>b, <2>1, <2>2 DEF BudgetInv, roomVars
    <3> QED
      BY <1>a, <2>1, <2>2, <3>1 DEF roomVars
  <2>3. CASE AcceptBet
    <3>1. UNCHANGED <<cur, status, settled, resume, attempts>>
      BY <2>3 DEF AcceptBet
    <3>2. BudgetInv'
      BY <1>b, <2>1, <3>1 DEF BudgetInv
    <3> QED
      BY <1>a, <2>1, <3>1, <3>2
  <2>4. ASSUME NEW d \in Drivers, CloseBetting(d) PROVE RetryInv'
    <3>1. /\ UNCHANGED <<cur, settled, resume, attempts>>
          /\ status' = IF status[cur] = BETTING_OPEN
                       THEN [status EXCEPT ![cur] = BETTING_CLOSED] ELSE status
      BY <2>4 DEF CloseBetting
    <3>2. BudgetInv'
      BY <1>b, <1>t, <2>1, <3>1 DEF BudgetInv
    <3>3. pc[Sweeper] \in {"restore", "giveup"} => status' = status
      BY <1>r, <3>1 DEF SweepInv
    <3> QED
      BY <1>a, <2>1, <3>1, <3>2, <3>3
  <2>5. ASSUME NEW d \in Drivers, PublishResult(d) PROVE RetryInv'
    <3>1. /\ UNCHANGED <<cur, settled, resume, attempts>> /\ status[cur] = BETTING_CLOSED
          /\ status' = [status EXCEPT ![cur] = RESULT]
      BY <2>5 DEF PublishResult
    <3>2. BudgetInv'
      BY <1>b, <1>t, <2>1, <3>1 DEF BudgetInv
    <3>3. pc[Sweeper] \in {"restore", "giveup"} => status' = status
      BY <1>r, <3>1 DEF SweepInv
    <3> QED
      BY <1>a, <2>1, <3>1, <3>2, <3>3
  <2>6. ASSUME NEW d \in Drivers, SettleRoom(d) PROVE RetryInv'
    <3>1. /\ UNCHANGED <<cur, resume, attempts>> /\ settled' = [settled EXCEPT ![cur] = TRUE]
          /\ status' = IF settled[cur] THEN status ELSE [status EXCEPT ![cur] = CLOSED]
          /\ settled[cur] \/ status[cur] \in {RESULT, RESULT_DECLARED}
          /\ cur \in Rounds
      BY <1>0, <2>6 DEF SettleRoom, CanSettle
    <3>2. BudgetInv'
      <4>1. CASE settled[cur]
        <5>1. settled' = settled /\ status' = status
          BY <1>t, <3>1, <4>1
        <5> QED
          BY <1>b, <2>1, <3>1, <5>1 DEF BudgetInv
      <4>2. CASE ~settled[cur]
        BY <1>b, <1>t, <2>1, <3>1, <4>2 DEF BudgetInv
      <4> QED
        BY <4>1, <4>2
    <3>3. pc[Sweeper] \in {"restore", "giveup"} => status' = status
      BY <1>r, <3>1 DEF SweepInv
    <3> QED
      BY <1>0, <1>r, <2>1, <3>1, <3>2, <3>3 DEF RetryInv, SweepInv, Plain
  <2>7. ASSUME NEW d \in Drivers, StartRound(d) PROVE RetryInv'
    <3>1. /\ cur < MaxRounds /\ cur' = cur + 1 /\ status' = [status EXCEPT ![cur + 1] = BETTING_OPEN]
          /\ UNCHANGED <<settled, resume, attempts>> /\ (cur # 0 => Replaceable(status[cur]))
          /\ pc[d] = "start" /\ pc' = [pc EXCEPT ![d] = "idle"]
      BY <2>7 DEF StartRound, Goto
    <3>2. pc[Sweeper] \notin {"restore", "giveup"}
      BY <1>0, <1>r, <3>1 DEF SweepInv, Replaceable, SETTLED, Rounds
    <3>3. cur + 1 \in Rounds
      BY <1>0, <3>1 DEF Rounds
    <3>4. status[cur + 1] = UPCOMING
      BY <1>0, <1>b, <3>3
    <3>5. BudgetInv'
      <4>1. \A r \in Rounds : r > cur + 1 => r > cur /\ r # cur + 1
        BY <1>0
      <4> QED
        BY <1>b, <1>t, <2>1, <3>1, <3>3, <3>4, <4>1 DEF BudgetInv
    <3> QED
      BY <1>0, <1>r, <2>1, <3>2, <3>5 DEF RetryInv, SweepInv, Plain
  <2>8. ASSUME NEW d \in Drivers, Park(d) PROVE RetryInv'
    <3>1. UNCHANGED <<cur, settled>> /\ MarkSettlePending /\ cur \in Rounds
      BY <1>0, <2>8 DEF Park
    <3>2. CanTransition(status[cur], SETTLED_PENDING) =>
            status[cur] \in {BETTING_CLOSED, RESULT, CLOSED, RESULT_DECLARED, "RESULT_PROCESSING", SETTLED_PENDING, SETTLE_FAILED}
      BY DEF CanTransition, Allowed, UPCOMING, ABOUT_TO_START, RESULT_PROCESSING, SETTLED
    <3>3. CASE status[cur] \in {SETTLED_PENDING, SETTLE_FAILED}
      <4>1. UNCHANGED <<resume, status, attempts>>
        BY <3>1, <3>3 DEF MarkSettlePending
      <4>2. BudgetInv'
        BY <1>b, <2>1, <3>1, <4>1 DEF BudgetInv
      <4> QED
        BY <1>a, <2>1, <3>1, <4>1, <4>2
    <3>4. CASE status[cur] \notin {SETTLED_PENDING, SETTLE_FAILED}
      <4>1. /\ resume' = [resume EXCEPT ![cur] = status[cur]]
            /\ \/ UNCHANGED <<status, attempts>>
               \/ /\ status[cur] \in {BETTING_CLOSED, RESULT, CLOSED}
                  /\ status' = [status EXCEPT ![cur] = SETTLED_PENDING]
                  /\ attempts' = [attempts EXCEPT ![cur] = @ + 1]
        BY <1>b, <3>1, <3>2, <3>4 DEF MarkSettlePending, RESULT_PROCESSING
      <4>2. pc[Sweeper] \notin {"restore", "giveup"}
        BY <1>r, <3>4 DEF SweepInv
      <4>3. attempts[cur] \in Nat /\ attempts[cur] + 1 <= MaxAttempts
        BY <1>0, <1>b, <1>t, <3>1, <3>4
      <4>4. BudgetInv'
        BY <1>b, <1>t, <2>1, <3>1, <3>4, <4>1, <4>3 DEF BudgetInv
      <4> QED
        BY <1>0, <1>r, <2>1, <4>2, <4>4 DEF RetryInv, SweepInv, Plain
    <3> QED
      BY <3>3, <3>4
  <2>9. ASSUME NEW d \in Drivers, CancelRoom(d) PROVE RetryInv'
    BY <1>r, <2>9 DEF CancelRoom
  <2> QED
    BY <1>4, <2>2, <2>3, <2>4, <2>5, <2>6, <2>7, <2>8, <2>9, RoomSteps
<1> QED
  BY <1>1, <1>2, <1>3, <1>4

LEMMA RetryAlways == NoCancel => (Spec => []RetryInv)
<1> SUFFICES ASSUME NoCancel PROVE Spec => []RetryInv
  OBVIOUS
<1> USE DEF UPCOMING, BETTING_OPEN, BETTING_CLOSED, RESULT, CLOSED, SETTLED_PENDING, SETTLE_FAILED
<1>1. Init => RetryInv
  <2>1. 0 < MaxAttempts /\ MaxAttempts \in Nat /\ Sweeper \in Drivers
    BY BoundAssumption DEF Drivers
  <2> QED
    BY <2>1 DEF Init, RetryInv, BudgetInv, SweepInv
<1>2. TypeInv /\ TypeInv' /\ LedgerInv /\ LedgerInv' /\ RetryInv /\ [Next]_vars => RetryInv'
  <2>1. RetryInv /\ UNCHANGED vars => RetryInv'
    BY DEF RetryInv, BudgetInv, SweepInv, vars, roomVars, records
  <2> QED
    BY <2>1, RetryStep DEF LedgerInv
<1> QED
  BY <1>1, <1>2, TypesHold, LedgerSafety, PTL DEF Spec

\* Without cancel_round, whatever else the routes, the wallet and the store do: a parked
\* round resumes at the step that is missing, within SETTLE_MAX_ATTEMPTS, and is given
\* up, with an alert, only when they are used up.
THEOREM RetriesSound == NoCancel => (Spec => []RetrySound)
<1> SUFFICES ASSUME NoCancel PROVE Spec => []RetrySound
  OBVIOUS
<1> USE DEF UPCOMING, BETTING_OPEN, BETTING_CLOSED, RESULT, CLOSED, SETTLED_PENDING, SETTLE_FAILED
<1>1. TypeInv /\ LedgerInv /\ RetryInv => RetrySound
  <2>1. SUFFICES ASSUME TypeInv, LedgerInv, RetryInv PROVE ResumePointRight /\ BudgetHolds
    BY DEF RetrySound
  <2>2. cur # 0 => cur \in Rounds
    BY <2>1, BoundAssumption DEF TypeInv, TypeOK, Rounds
  <2>3. ResumePointRight
    BY <2>1, <2>2 DEF ResumePointRight, RetryInv, BudgetInv, LedgerInv, SettledIsOver
  <2>4. BudgetHolds
    BY <2>1 DEF BudgetHolds, RetryInv, BudgetInv
  <2> QED
    BY <2>3, <2>4
<1> QED
  BY <1>1, TypesHold, LedgerSafety, RetryAlways, PTL

-----------------------------------------------------------------------------
(* Unpaid winnings.                                                        *)

\* A driver that is about to settle, pay or park is moved by its own steps only.
LEMMA OthersStay ==
  ASSUME TypeInv, Next, NEW d \in Drivers, pc[d] \in InLoop \cup {"park", "settle"}, ~Driver(d)
  PROVE  pc'[d] = pc[d] /\ todo'[d] = todo[d]
<1> DEFINE Moves(e) == /\ pc' = pc \/ \E s : pc' = [pc EXCEPT ![e] = s]
                       /\ todo' = todo \/ \E t : todo' = [todo EXCEPT ![e] = t]
<1>1. ASSUME NEW e, e # d, Moves(e) PROVE pc'[d] = pc[d] /\ todo'[d] = todo[d]
  BY <1>1 DEF TypeInv, TypeOK
<1>2. CASE AcceptBet \/ Timer
  BY <1>2 DEF AcceptBet, Timer, DeadlinePasses, DwellEnds, BackoffEnds, loop
<1>3. CASE SweepTick
  <2>1. d # Sweeper
    BY <1>3 DEF SweepTick, SweepExpired, SweepPending, GiveUp, Restore, InLoop
  <2>2. Moves(Sweeper)
    BY <1>3 DEF SweepTick, SweepExpired, SweepPending, GiveUp, Restore, Goto, loop
  <2> QED
    BY <1>1, <2>1, <2>2
<1>4. CASE PumpStep
  <2>1. d # Pump
    BY <1>4 DEF PumpStep, PumpTick, PumpLook, PumpDecide, PumpDeal, InLoop
  <2>2. Moves(Pump)
    BY <1>4 DEF PumpStep, PumpTick, PumpLook, PumpDecide, PumpDeal, Goto, loop
  <2> QED
    BY <1>1, <2>1, <2>2
<1>5. ASSUME NEW e \in Operators, OperatorCalls(e) PROVE pc'[d] = pc[d] /\ todo'[d] = todo[d]
  <2>1. d # e /\ Moves(e)
    BY <1>5 DEF OperatorCalls, Goto, loop, InLoop
  <2> QED
    BY <1>1, <2>1
<1>6. ASSUME NEW e \in Drivers, Driver(e) PROVE pc'[d] = pc[d] /\ todo'[d] = todo[d]
  <2>1. d # e
    BY <1>6
  <2>2. Moves(e)
    <3> USE DEF Goto, loop
    <3>1. CASE CloseBetting(e) \/ PublishResult(e) \/ PublishRefused(e) \/ SettleRefused(e)
      BY <3>1 DEF CloseBetting, PublishResult, PublishRefused, SettleRefused
    <3>2. CASE SettleRoom(e) \/ StartRound(e) \/ StartRefused(e) \/ TakeLock(e)
      BY <3>2 DEF SettleRoom, StartRound, StartRefused, TakeLock
    <3>3. CASE Park(e) \/ RecordHistory(e) \/ CancelRefused(e) \/ VoidDone(e)
      BY <3>3 DEF Park, RecordHistory, CancelRefused, VoidDone
    <3>4. CASE RecordRow(e) \/ CreditRow(e) \/ MarkRow(e)
      BY <3>4 DEF RecordRow, CreditRow, MarkRow
    <3>5. CASE LoopDone(e) \/ CreditRaises(e) \/ StoreFails(e)
      BY <3>5 DEF LoopDone, CreditRaises, StoreFails, LeaveLoop
    <3>6. CASE CancelRoom(e) \/ VoidRow(e) \/ VoidRaises(e)
      BY <3>6 DEF CancelRoom, VoidRow, VoidRaises
    <3> QED
      BY <1>6, <3>1, <3>2, <3>3, <3>4, <3>5, <3>6 DEF Driver
  <2> QED
    BY <1>1, <2>1, <2>2
<1> QED
  BY <1>2, <1>3, <1>4, <1>5, <1>6 DEF Next

\* Nothing that was credited is taken back.
LEMMA CreditsGrow ==
  ASSUME TypeInv, TypeInv', LedgerInv, Next
  PROVE  \A b \in Rows : credits[b] > 0 => credits'[b] > 0
<1>1. credits \in [Rows -> Nat] /\ credits' \in [Rows -> Nat]
  BY DEF TypeInv, TypeOK
<1>2. UNCHANGED credits \/ \E d \in Drivers : CreditRow(d) \/ CreditRaises(d)
  <2>1. ASSUME NEW d \in Drivers, RecordRow(d) \/ MarkRow(d) \/ VoidRow(d) \/ VoidRaises(d)
        PROVE  UNCHANGED credits
    BY <2>1 DEF RecordRow, MarkRow, VoidRow, VoidRaises
  <2> QED
    BY <2>1, LedgerSteps DEF ledgers
<1>3. ASSUME NEW d \in Drivers, CreditRow(d) \/ CreditRaises(d)
      PROVE  UNCHANGED credits \/ credits' = [credits EXCEPT ![row[d]] = @ + 1]
  BY <1>3 DEF CreditRow, CreditRaises, Credit
<1> QED
  BY <1>1, <1>2, <1>3

\* Every way out of the credit loop but a failed record or mark parks the round, or has
\* paid what there was to pay.
LEMMA TrackedStep ==
  ASSUME NoCancel, ~StoreRaises, TypeInv, TypeInv', LedgerInv, LedgerInv', RetryInv,
         UnpaidStaysTracked, Next
  PROVE  UnpaidStaysTracked'
<1> USE DEF UPCOMING, BETTING_OPEN, BETTING_CLOSED, RESULT, RESULT_DECLARED, CLOSED,
            SETTLED_PENDING, SETTLE_FAILED
<1>0. /\ cur \in 0..MaxRounds /\ MaxRounds \in Nat
      /\ \A d \in Drivers : pc[d] \notin {"idle", "start"} => cur \in Rounds
      /\ Sweeper \in Drivers /\ Operators \subseteq Drivers
      /\ cur # 0 => cur \in Rounds
  BY SMTT(60), CurDealt, BoundAssumption DEF TypeInv, TypeOK, Drivers, Rounds
<1>t. /\ status \in [Rounds -> RoundStatus] /\ settled \in [Rounds -> BOOLEAN]
      /\ pc \in [Drivers -> Steps] /\ todo \in [Drivers -> SUBSET Rows]
      /\ credits \in [Rows -> Nat] /\ credits' \in [Rows -> Nat]
      /\ row \in [Drivers -> Rows \cup {NoRow}]
  BY DEF TypeInv, TypeOK
<1>l. /\ SettledIsOver /\ SettledIsOver' /\ LoopSound /\ CreditedMeansPaid /\ CreditedMeansPaid'
      /\ BudgetInv /\ SweepInv
  BY DEF LedgerInv, RetryInv
<1>s. \A r \in Rounds :
        settled[r] => /\ r <= cur /\ status[r] \in {CLOSED, SETTLED_PENDING, SETTLE_FAILED}
                      /\ status[r] = SETTLED_PENDING => resume[r] = CLOSED
  BY <1>l DEF SettledIsOver
<1>1. SUFFICES ASSUME cur' # 0, settled'[cur'], Unpaid(cur)' # {} PROVE Tracked(cur)'
  BY DEF UnpaidStaysTracked
<1>2. CASE \E d \in Drivers : StartRound(d)
  <2>1. cur' = cur + 1 /\ settled' = settled /\ cur < MaxRounds
    BY <1>2 DEF StartRound
  <2>2. cur + 1 \in Rounds
    BY <1>0, <2>1 DEF Rounds
  <2> QED
    BY <1>0, <1>1, <1>s, <2>1, <2>2
<1>3. CASE \A d \in Drivers : ~StartRound(d)
  <2> SUFFICES Tracked(cur)'
    OBVIOUS
  \* The same round stays on the table.
  <2>1. cur' = cur /\ cur \in Rounds
    <3>1. cur' = cur
      BY <1>3, RoomSteps DEF roomVars, AcceptBet, GiveUp, Restore, CloseBetting, PublishResult,
         SettleRoom, Park, CancelRoom
    <3> QED
      BY <1>0, <1>1, <3>1
  <2>2. CASE \E d \in Drivers : SettleRoom(d)
    <3>1. PICK d \in Drivers : SettleRoom(d)
      BY <2>2
    <3>2. pc' = [pc EXCEPT ![d] = "lock"] /\ todo' = [todo EXCEPT ![d] = RoundRows(cur)] /\ bets' = bets
      BY <3>1 DEF SettleRoom, Goto
    <3>3. pc'[d] \in InLoop /\ todo'[d] = RoundRows(cur)
      BY <1>t, <3>2 DEF InLoop
    <3>4. Unpaid(cur)' \subseteq todo'[d]
      BY <2>1, <3>2, <3>3 DEF Unpaid, RoundRows
    <3> QED
      BY <3>3, <3>4 DEF Tracked
  <2>3. ASSUME \A d \in Drivers : ~SettleRoom(d) PROVE Tracked(cur)'
    \* Its rows and its winners stay, and nothing becomes unpaid.
    <3>1. settled' = settled /\ settled[cur]
      <4>1. settled' = settled
        BY <1>3, <2>3, RoomSteps DEF roomVars, AcceptBet, GiveUp, Restore, CloseBetting,
           PublishResult, Park, CancelRoom
      <4> QED
        BY <1>1, <2>1, <4>1
    <3>2. status[cur] \in {CLOSED, SETTLED_PENDING, SETTLE_FAILED}
      BY <1>s, <2>1, <3>1
    <3>3. bets'[cur] = bets[cur] /\ winners'[cur] = winners[cur]
      BY <2>1, <3>1, OutcomeKept, <1>l
    <3>4. Unpaid(cur)' \subseteq Unpaid(cur)
      <4>1. SUFFICES ASSUME NEW b \in RoundRows(cur)', Won(b)', credits'[b] = 0
            PROVE  b \in RoundRows(cur) /\ Won(b) /\ credits[b] = 0
        BY DEF Unpaid
      <4>2. PICK i \in bets[cur] : b = <<cur, i>>
        BY <2>1, <3>3, <4>1 DEF RoundRows
      <4>3. b \in Rows /\ credits[b] \in Nat
        BY <1>t, <2>1, <4>2 DEF Rows, TypeInv, TypeOK
      <4>4. credits[b] = 0
        BY <4>1, <4>3, CreditsGrow
      <4> QED
        BY <2>1, <3>3, <4>1, <4>2, <4>4 DEF RoundRows, Won
    <3>5. Tracked(cur) /\ Unpaid(cur) # {}
      BY <1>0, <1>1, <2>1, <3>1, <3>4 DEF UnpaidStaysTracked
    <3>6. CASE status[cur] \in {SETTLED_PENDING, SETTLE_FAILED}
      <4>1. CASE Restore
        <5>1. status[cur] = SETTLED_PENDING
          BY <1>l, <4>1 DEF Restore, SweepInv
        <5>2. status' = [status EXCEPT ![cur] = CLOSED]
          BY <1>s, <2>1, <3>1, <4>1, <5>1 DEF Restore
        <5>3. pc' = [pc EXCEPT ![Sweeper] = "settle"]
          BY <1>t, <2>1, <4>1, <5>2 DEF Restore, Goto
        <5> QED
          BY <1>0, <1>t, <2>1, <5>3 DEF Tracked
      <4>2. CASE ~Restore
        <5>1. status'[cur] \in {SETTLED_PENDING, SETTLE_FAILED}
          BY <1>0, <1>3, <1>t, <2>1, <2>3, <3>6, <4>2, RoomSteps DEF roomVars, AcceptBet, GiveUp,
             CloseBetting, PublishResult, Park, MarkSettlePending, CancelRoom, RetryInv
        <5> QED
          BY <2>1, <5>1 DEF Tracked
      <4> QED
        BY <4>1, <4>2
    <3>7. ASSUME NEW d \in Drivers, pc[d] \in InLoop, Unpaid(cur) \subseteq todo[d]
          PROVE  Tracked(cur)'
      <4>1. CASE ~Driver(d)
        <5>1. pc'[d] = pc[d] /\ todo'[d] = todo[d]
          BY <3>7, <4>1, OthersStay
        <5> QED
          BY <3>4, <3>7, <5>1 DEF Tracked
      <4>2. CASE Driver(d)
        <5>1. \/ TakeLock(d) \/ RecordRow(d) \/ CreditRow(d) \/ MarkRow(d)
              \/ LoopDone(d) \/ CreditRaises(d)
          BY <3>7, <4>2 DEF Driver, InLoop, CloseBetting, PublishResult, PublishRefused, SettleRoom,
             SettleRefused, StartRound, StartRefused, StoreFails, Park, RecordHistory, CancelRoom,
             CancelRefused, VoidRow, VoidRaises, VoidDone
        <5>2. CASE TakeLock(d) \/ CreditRow(d)
          <6>1. pc'[d] \in InLoop /\ todo' = todo
            BY <1>t, <5>2 DEF TakeLock, CreditRow, Goto, InLoop, loop
          <6> QED
            BY <3>4, <3>7, <6>1 DEF Tracked
        <5>3. CASE RecordRow(d)
          <6>1. PICK b \in todo[d] :
                  IF store[b] = "credited"
                  THEN todo' = [todo EXCEPT ![d] = @ \ {b}] /\ pc' = pc
                  ELSE todo' = todo /\ \E s \in InLoop : pc' = [pc EXCEPT ![d] = s]
            BY <5>3 DEF RecordRow, Goto, InLoop
          <6>2. pc'[d] \in InLoop
            BY <1>t, <3>7, <6>1
          <6>3. CASE store[b] = "credited"
            <7>1. b \in Rows /\ todo'[d] = todo[d] \ {b}
              BY <1>t, <6>1, <6>3
            <7>2. b \notin Unpaid(cur)
              BY <1>l, <1>t, <6>3, <7>1 DEF CreditedMeansPaid, Unpaid
            <7> QED
              BY <3>4, <3>7, <6>2, <7>1, <7>2 DEF Tracked
          <6>4. CASE store[b] # "credited"
            BY <3>4, <3>7, <6>1, <6>2, <6>4 DEF Tracked
          <6> QED
            BY <6>3, <6>4
        <5>4. CASE MarkRow(d)
          <6>1. /\ pc[d] = "mark" /\ todo' = [todo EXCEPT ![d] = @ \ {row[d]}]
                /\ pc' = [pc EXCEPT ![d] = "record"]
            BY <5>4 DEF MarkRow, Goto
          <6>2. row[d] \notin Unpaid(cur)
            BY <1>l, <6>1 DEF LoopSound, Unpaid
          <6> QED
            BY <1>t, <3>4, <3>7, <6>1, <6>2 DEF Tracked, InLoop
        <5>5. CASE LoopDone(d)
          BY <3>5, <3>7, <5>5 DEF LoopDone
        <5>6. CASE CreditRaises(d)
          <6>1. pc' = [pc EXCEPT ![d] = "park"]
            BY <5>6 DEF CreditRaises, LeaveLoop, Goto
          <6> QED
            BY <1>t, <2>1, <6>1 DEF Tracked
        <5> QED
          BY <5>1, <5>2, <5>3, <5>4, <5>5, <5>6
      <4> QED
        BY <4>1, <4>2
    <3>8. ASSUME NEW d \in Drivers, pc[d] = "park" PROVE Tracked(cur)'
      <4>1. CASE ~Driver(d)
        <5>1. pc'[d] = pc[d]
          BY <3>8, <4>1, OthersStay
        <5> QED
          BY <2>1, <3>8, <5>1 DEF Tracked
      <4>2. CASE Driver(d)
        <5>1. Park(d)
          BY <3>8, <4>2 DEF Driver, CloseBetting, PublishResult, PublishRefused, SettleRoom,
             SettleRefused, StartRound, StartRefused, TakeLock, RecordRow, CreditRow, MarkRow,
             LoopDone, CreditRaises, StoreFails, RecordHistory, CancelRoom,
             CancelRefused, VoidRow, VoidRaises, VoidDone
        <5>2. CanTransition(CLOSED, SETTLED_PENDING)
          BY DEF CanTransition, Allowed
        <5>3. status'[cur] \in {SETTLED_PENDING, SETTLE_FAILED}
          BY <1>t, <2>1, <3>2, <5>1, <5>2 DEF Park, MarkSettlePending
        <5> QED
          BY <2>1, <5>3 DEF Tracked
      <4> QED
        BY <4>1, <4>2
    <3>9. CASE pc[Sweeper] = "settle"
      <4>1. ~Driver(Sweeper)
        BY <1>0, <2>3, <3>1, <3>9 DEF Driver, CloseBetting, PublishResult, PublishRefused,
           SettleRefused, CanSettle, StartRound, StartRefused, TakeLock, RecordRow, CreditRow, MarkRow,
           LoopDone, CreditRaises, StoreFails, Park, RecordHistory, CancelRoom,
           CancelRefused, VoidRow, VoidRaises, VoidDone
      <4>2. pc'[Sweeper] = "settle"
        BY <1>0, <3>9, <4>1, OthersStay
      <4> QED
        BY <2>1, <4>2 DEF Tracked
    <3> QED
      BY <3>5, <3>6, <3>7, <3>8, <3>9 DEF Tracked
  <2> QED
    BY <2>2, <2>3
<1> QED
  BY <1>2, <1>3

\* As long as the store does not fail and nobody cancels, the unpaid winnings of the
\* round on the table are never forgotten: parked, given up with an alert, in a credit
\* loop, or in a driver about to park or settle them.
THEOREM UnpaidTracked ==
  NoCancel /\ ~StoreRaises => (Spec => []UnpaidStaysTracked)
<1> SUFFICES ASSUME NoCancel, ~StoreRaises PROVE Spec => []UnpaidStaysTracked
  OBVIOUS
<1>1. Init => UnpaidStaysTracked
  BY DEF Init, UnpaidStaysTracked
<1>2. /\ TypeInv /\ TypeInv' /\ LedgerInv /\ LedgerInv' /\ RetryInv
      /\ UnpaidStaysTracked /\ [Next]_vars
      => UnpaidStaysTracked'
  <2>1. UnpaidStaysTracked /\ UNCHANGED vars => UnpaidStaysTracked'
    BY DEF UnpaidStaysTracked, Tracked, Unpaid, RoundRows, Won, vars, roomVars, ledgers, loop
  <2> QED
    BY <2>1, TrackedStep
<1> QED
  BY <1>1, <1>2, TypesHold, LedgerSafety, RetryAlways, PTL DEF Spec

-----------------------------------------------------------------------------
(* Outcomes.                                                               *)

\* A round with winners has its result behind it, parked or not.
DrawnOnce ==
  \A r \in Rounds :
    winners[r] # {} => /\ status[r] \in {RESULT, CLOSED, SETTLED_PENDING, SETTLE_FAILED}
                       /\ status[r] = SETTLED_PENDING => resume[r] # BETTING_CLOSED

\* Every step keeps it, and leaves such a round its bets and winners.
LEMMA DrawnStep ==
  ASSUME NoCancel, TypeInv, TypeInv', RetryInv, DrawnOnce, Next
  PROVE  /\ DrawnOnce'
         /\ \A r \in Rounds : winners[r] # {} => bets'[r] = bets[r] /\ winners'[r] = winners[r]
<1> USE DEF UPCOMING, BETTING_OPEN, BETTING_CLOSED, RESULT, RESULT_DECLARED, CLOSED,
            SETTLED_PENDING, SETTLE_FAILED
<1> DEFINE Goal == /\ DrawnOnce'
                   /\ \A r \in Rounds : winners[r] # {} => bets'[r] = bets[r] /\ winners'[r] = winners[r]
<1>0. /\ cur \in 0..MaxRounds /\ Rounds \subseteq Nat /\ MaxRounds \in Nat
      /\ \A d \in Drivers : pc[d] \notin {"idle", "start"} => cur \in Rounds
  BY CurDealt, BoundAssumption DEF TypeInv, TypeOK, Rounds
<1>t. /\ status \in [Rounds -> RoundStatus] /\ resume \in [Rounds -> RoundStatus]
      /\ winners \in [Rounds -> SUBSET BetIds] /\ bets \in [Rounds -> SUBSET BetIds]
  BY DEF TypeInv, TypeOK
<1>r. BudgetInv /\ SweepInv /\ \A d \in Drivers : pc[d] # "cancel"
  BY DEF RetryInv
<1>d. \A r \in Rounds :
        winners[r] # {} => /\ status[r] \in {RESULT, CLOSED, SETTLED_PENDING, SETTLE_FAILED}
                           /\ status[r] = SETTLED_PENDING => resume[r] # BETTING_CLOSED
  BY DEF DrawnOnce
<1>1. CASE UNCHANGED roomVars
  BY <1>1, <1>d DEF DrawnOnce, roomVars
<1>2. CASE AcceptBet
  BY <1>2, <1>d, <1>t DEF AcceptBet, DrawnOnce
<1>3. CASE GiveUp
  BY <1>3, <1>d, <1>t DEF GiveUp, DrawnOnce
<1>4. CASE Restore
  BY <1>4, <1>d, <1>t, <1>r DEF Restore, DrawnOnce, SweepInv, BudgetInv
<1>5. ASSUME NEW d \in Drivers, CloseBetting(d) PROVE Goal
  BY <1>5, <1>d, <1>t DEF CloseBetting, DrawnOnce
<1>6. ASSUME NEW d \in Drivers, PublishResult(d) PROVE Goal
  BY <1>6, <1>d, <1>t DEF PublishResult, DrawnOnce
<1>7. ASSUME NEW d \in Drivers, SettleRoom(d) PROVE Goal
  BY <1>7, <1>d, <1>t DEF SettleRoom, DrawnOnce
<1>8. ASSUME NEW d \in Drivers, StartRound(d) PROVE Goal
  <2>1. cur + 1 \in Rounds /\ status[cur + 1] = UPCOMING
    <3>1. cur + 1 \in Rounds /\ cur + 1 > cur
      BY <1>0, <1>8 DEF StartRound, Rounds
    <3> QED
      BY <1>r, <3>1 DEF BudgetInv
  <2> QED
    BY <1>8, <1>d, <1>t, <2>1 DEF StartRound, DrawnOnce
<1>9. ASSUME NEW d \in Drivers, Park(d) PROVE Goal
  <2>1. UNCHANGED <<winners, bets>> /\ MarkSettlePending
    BY <1>9 DEF Park
  <2> QED
    BY <1>d, <1>t, <2>1 DEF MarkSettlePending, DrawnOnce
<1>10. ASSUME NEW d \in Drivers, CancelRoom(d) PROVE Goal
  BY <1>10, <1>r DEF CancelRoom
<1> QED
  BY <1>1, <1>2, <1>3, <1>4, <1>5, <1>6, <1>7, <1>8, <1>9, <1>10, RoomSteps

\* As long as nobody cancels: once a result is published no step adds a bet to its
\* round or redraws a winner, so that a retry pays what the first settlement owed.
THEOREM OutcomeStays == NoCancel => (Spec => OutcomeFrozen)
<1> SUFFICES ASSUME NoCancel PROVE Spec => OutcomeFrozen
  OBVIOUS
<1>1. Init => DrawnOnce
  BY DEF Init, DrawnOnce
<1>2. TypeInv /\ TypeInv' /\ RetryInv /\ DrawnOnce /\ [Next]_vars => DrawnOnce'
  <2>1. DrawnOnce /\ UNCHANGED vars => DrawnOnce'
    BY DEF DrawnOnce, vars, roomVars
  <2> QED
    BY <2>1, DrawnStep
<1>3. TypeInv /\ TypeInv' /\ LedgerInv /\ RetryInv /\ DrawnOnce /\ [Next]_vars
      => [\A r \in Rounds : settled[r] \/ winners[r] # {} =>
            bets'[r] = bets[r] /\ winners'[r] = winners[r]]_vars
  BY DrawnStep, OutcomeKept DEF LedgerInv
<1> QED
  BY <1>1, <1>2, <1>3, TypesHold, LedgerSafety, RetryAlways, PTL DEF Spec, OutcomeFrozen

-----------------------------------------------------------------------------
(* Settlement implements PayoutContract: every payout of a decided round   *)
(* is credited at most once and never taken back, for every number of      *)
(* rounds, bets and HTTP threads, any routes and any retry budget.         *)


\* What exactly-once needs of the outside: a wallet that honours the idempotency key,
\* or one whose errors mean that nothing moved, with a store that does not fail.
Reliable == WalletKeyed \/ ("lost" \notin WalletFaults /\ ~StoreRaises)

\* What was paid is stored as credited, or the holder of the lock is about to store it,
\* and a row about to be paid is stored as not yet credited.
PaidIsStored ==
  /\ \A b \in Rows : credits[b] > 0 => \/ store[b] = "credited"
                                       \/ \E d \in Drivers : pc[d] = "mark" /\ row[d] = b
  /\ \A d \in Drivers : pc[d] = "credit" => store[row[d]] = "recorded"

\* Without keys it is the store, under the lock, that remembers what was paid.
OnceInv == PaidAtMostOnce /\ (WalletKeyed \/ PaidIsStored)

-----------------------------------------------------------------------------
(* Payments.                                                               *)

\* A payment is the first of its row, and of a winning row of a settled round.
LEMMA FirstPayment ==
  ASSUME TypeInv, TypeInv', LedgerInv, OnceInv, Reliable,
         NEW d \in Drivers, CreditRow(d) \/ CreditRaises(d)
  PROVE  /\ row[d] \in Rows /\ row[d] \in Settleable /\ Won(row[d])
         /\ \/ UNCHANGED credits
            \/ credits[row[d]] = 0 /\ credits' = [credits EXCEPT ![row[d]] = 1]
<1>1. pc[d] = "credit"
  BY DEF CreditRow, CreditRaises
<1>2. row[d] \in Rows /\ row[d] \in Settleable /\ Won(row[d])
  BY <1>1, HeldRow DEF LedgerInv
<1>3. credits[row[d]] \in Nat /\ credits[row[d]] <= 1
  BY <1>2 DEF TypeInv, TypeOK, OnceInv, PaidAtMostOnce
<1>4. CASE WalletKeyed
  <2>1. UNCHANGED credits \/ Credit(row[d])
    BY DEF CreditRow, CreditRaises
  <2>2. credits[row[d]] > 0 \/ credits[row[d]] = 0
    BY <1>3
  <2>3. CASE credits[row[d]] = 0
    <3>1. UNCHANGED credits \/ credits' = [credits EXCEPT ![row[d]] = @ + 1]
      BY <2>1 DEF Credit
    <3> QED
      BY <1>2, <2>3, <3>1
  <2>4. CASE credits[row[d]] > 0
    BY <1>2, <1>4, <2>1, <2>4 DEF Credit
  <2> QED
    BY <2>2, <2>3, <2>4
<1>5. CASE ~WalletKeyed
  <2>1. UNCHANGED credits \/ credits' = [credits EXCEPT ![row[d]] = @ + 1]
    BY <1>5 DEF Reliable, CreditRow, CreditRaises, Credit
  <2>2. \A e \in Drivers : pc[e] # "mark"
    BY <1>1 DEF LedgerInv, LoopSound, Crediting
  <2>3. store[row[d]] = "recorded"
    BY <1>1, <1>5 DEF OnceInv, PaidIsStored
  <2>4. credits[row[d]] = 0
    BY <1>2, <1>3, <1>5, <2>2, <2>3 DEF OnceInv, PaidIsStored
  <2> QED
    BY <1>2, <2>1, <2>4
<1> QED
  BY <1>4, <1>5

\* Only the credit loop pays.
LEMMA OnlyLoopPays ==
  ASSUME Next
  PROVE  \/ UNCHANGED credits
         \/ /\ UNCHANGED roomVars
            /\ \E d \in Drivers : CreditRow(d) \/ CreditRaises(d)
<1>1. ASSUME NEW d \in Drivers, RecordRow(d) \/ MarkRow(d) \/ VoidRow(d) \/ VoidRaises(d)
      PROVE  UNCHANGED credits
  BY <1>1 DEF RecordRow, MarkRow, VoidRow, VoidRaises
<1> QED
  BY <1>1, LedgerSteps DEF ledgers

-----------------------------------------------------------------------------
(* What the store remembers.                                               *)

\* A step outside the credit loop neither pays, stores, nor changes who is at a mark.
LEMMA OutsideKeepsStored ==
  ASSUME PaidIsStored, UNCHANGED <<store, credits, row>>,
         \A d \in Drivers : \/ pc'[d] = pc[d]
                            \/ pc[d] # "mark" /\ pc'[d] # "credit"
  PROVE  PaidIsStored'
  BY DEF PaidIsStored

\* The steps that can change what the store remembers.
LEMMA StoredSteps ==
  ASSUME TypeInv, Next
  PROVE  \/ /\ UNCHANGED <<store, credits, row>>
            /\ \A d \in Drivers : pc'[d] = pc[d] \/ (pc[d] # "mark" /\ pc'[d] # "credit")
         \/ \E d \in Drivers : \/ RecordRow(d) \/ CreditRow(d) \/ MarkRow(d)
                               \/ LoopDone(d) \/ CreditRaises(d) \/ StoreFails(d)
<1> DEFINE Still == /\ UNCHANGED <<store, credits, row>>
                    /\ \A d \in Drivers : \/ pc'[d] = pc[d]
                                          \/ pc[d] # "mark" /\ pc'[d] # "credit"
<1>0. Sweeper \in Drivers /\ Pump \in Drivers /\ Operators \subseteq Drivers
  BY DEF Drivers
<1>1. ASSUME NEW d \in Drivers, NEW s, s # "credit", pc' = [pc EXCEPT ![d] = s],
             pc[d] # "mark", UNCHANGED <<store, credits, row>>
      PROVE  Still
  BY <1>1 DEF TypeInv, TypeOK
<1>2. CASE AcceptBet \/ Timer
  BY <1>2 DEF AcceptBet, Timer, DeadlinePasses, DwellEnds, BackoffEnds, ledgers, loop
<1>3. CASE SweepTick
  <2>1. PICK s \in {"close", "giveup", "restore", "idle", "publish", "settle"} :
          pc' = [pc EXCEPT ![Sweeper] = s]
    BY <1>3 DEF SweepTick, SweepExpired, SweepPending, GiveUp, Restore, Goto
  <2>2. pc[Sweeper] # "mark" /\ UNCHANGED <<store, credits, row>>
    BY <1>3 DEF SweepTick, SweepExpired, SweepPending, GiveUp, Restore, ledgers, loop
  <2> QED
    BY <1>0, <1>1, <2>1, <2>2
<1>4. CASE PumpStep
  <2>1. PICK s \in {"close", "look", "publish", "decide", "settle", "deal", "start", "idle"} :
          pc' = [pc EXCEPT ![Pump] = s]
    BY <1>4 DEF PumpStep, PumpTick, PumpLook, PumpDecide, PumpDeal, Goto
  <2>2. pc[Pump] # "mark" /\ UNCHANGED <<store, credits, row>>
    BY <1>4 DEF PumpStep, PumpTick, PumpLook, PumpDecide, PumpDeal, ledgers, loop
  <2> QED
    BY <1>0, <1>1, <2>1, <2>2
<1>5. ASSUME NEW d \in Operators, OperatorCalls(d) PROVE Still
  <2>1. PICK s \in Routes : pc' = [pc EXCEPT ![d] = s]
    BY <1>5 DEF OperatorCalls, Goto
  <2>2. pc[d] # "mark" /\ UNCHANGED <<store, credits, row>>
    BY <1>5 DEF OperatorCalls, ledgers, loop
  <2> QED
    BY <1>0, <1>1, <2>1, <2>2, RouteAssumption
<1>6. ASSUME NEW d \in Drivers, Driver(d)
      PROVE  \/ Still
             \/ RecordRow(d) \/ CreditRow(d) \/ MarkRow(d)
             \/ LoopDone(d) \/ CreditRaises(d) \/ StoreFails(d)
  <2> SUFFICES ASSUME ~(\/ RecordRow(d) \/ CreditRow(d) \/ MarkRow(d)
                        \/ LoopDone(d) \/ CreditRaises(d) \/ StoreFails(d))
               PROVE  Still
    OBVIOUS
  <2>1. UNCHANGED <<store, credits, row>> /\ pc[d] # "mark"
    BY <1>6 DEF Driver, CloseBetting, PublishResult, PublishRefused, SettleRoom,
       SettleRefused, StartRound, StartRefused, TakeLock, Park, RecordHistory, CancelRoom,
       CancelRefused, VoidRow, VoidRaises, VoidDone, ledgers, loop
  <2>2. pc' = pc \/ \E s \in Steps \ {"credit"} : pc' = [pc EXCEPT ![d] = s]
    <3> USE AfterSteps DEF Goto, Steps, InLoop
    <3>1. CASE PublishRefused(d) \/ SettleRefused(d)
      BY <3>1 DEF PublishRefused, SettleRefused
    <3>2. CASE Park(d) \/ RecordHistory(d)
      BY <3>2 DEF Park, RecordHistory
    <3>3. CASE CloseBetting(d) \/ PublishResult(d)
      BY <3>3 DEF CloseBetting, PublishResult
    <3>4. CASE SettleRoom(d) \/ StartRound(d) \/ StartRefused(d) \/ TakeLock(d)
      BY <3>4 DEF SettleRoom, StartRound, StartRefused, TakeLock
    <3>5. CASE CancelRoom(d) \/ CancelRefused(d)
      BY <3>5 DEF CancelRoom, CancelRefused
    <3>6. CASE VoidRow(d) \/ VoidRaises(d) \/ VoidDone(d)
      BY <3>6 DEF VoidRow, VoidRaises, VoidDone
    <3> QED
      BY <1>6, <3>1, <3>2, <3>3, <3>4, <3>5, <3>6 DEF Driver
  <2> QED
    BY <1>1, <2>1, <2>2
<1> QED
  BY <1>2, <1>3, <1>4, <1>5, <1>6 DEF Next

\* With the lock, a wallet that only fails before it pays and a store that works, what
\* was paid is stored before anybody else looks.
LEMMA StoredStep ==
  ASSUME TypeInv, TypeInv', LoopSound, PaidIsStored, Next, ~WalletKeyed, Reliable
  PROVE  PaidIsStored'
<1>0. "lost" \notin WalletFaults /\ ~StoreRaises
  BY DEF Reliable
<1>1. ASSUME NEW d \in Drivers, pc[d] \in Crediting
      PROVE  /\ \A e \in Drivers : e # d => pc[e] \notin Crediting
             /\ pc[d] # "mark" => \A b \in Rows : credits[b] > 0 => store[b] = "credited"
  <2>1. \A e \in Drivers : e # d => pc[e] \notin Crediting
    BY <1>1 DEF LoopSound
  <2> QED
    BY <2>1 DEF PaidIsStored, Crediting
<1>2. ASSUME NEW d \in Drivers, RecordRow(d) PROVE PaidIsStored'
  <2>1. PICK b \in todo[d] :
          IF store[b] = "credited"
          THEN /\ todo' = [todo EXCEPT ![d] = @ \ {b}]
               /\ UNCHANGED <<store, row, pc>>
          ELSE /\ store' = [store EXCEPT ![b] = "recorded"]
               /\ row' = [row EXCEPT ![d] = b]
               /\ Goto(d, IF Won(b) THEN "credit" ELSE "mark")
               /\ UNCHANGED todo
    BY <1>2 DEF RecordRow
  <2>2. credits' = credits /\ pc[d] = "record" /\ b \in Rows
    BY <1>2 DEF RecordRow, TypeInv, TypeOK
  <2>3. CASE store[b] = "credited"
    BY <2>1, <2>2, <2>3 DEF PaidIsStored
  <2>4. CASE store[b] # "credited"
    <3>1. \A c \in Rows : credits[c] > 0 => store[c] = "credited" /\ c # b
      BY <1>1, <2>2, <2>4 DEF Crediting
    <3>2. \A c \in Rows : credits'[c] > 0 => store'[c] = "credited"
      BY <2>1, <2>2, <2>4, <3>1 DEF TypeInv, TypeOK
    <3>3. \A e \in Drivers : pc'[e] = "credit" => e = d
      BY <1>1, <2>1, <2>2, <2>4 DEF Goto, Crediting, TypeInv, TypeOK
    <3>4. store'[row'[d]] = "recorded"
      BY <2>1, <2>2, <2>4 DEF TypeInv, TypeOK
    <3> QED
      BY <3>2, <3>3, <3>4 DEF PaidIsStored
  <2> QED
    BY <2>3, <2>4
<1>3. ASSUME NEW d \in Drivers, CreditRow(d) PROVE PaidIsStored'
  <2>1. /\ pc[d] = "credit" /\ store' = store /\ row' = row
        /\ pc' = [pc EXCEPT ![d] = "mark"]
    BY <1>3 DEF CreditRow, Goto, loop
  <2>2. \A c \in Rows : credits'[c] = credits[c] \/ c = row[d]
    BY <1>3 DEF CreditRow, Credit, TypeInv, TypeOK
  <2>3. \A c \in Rows : credits[c] > 0 => store[c] = "credited"
    BY <1>1, <2>1 DEF Crediting
  <2>4. pc'[d] = "mark" /\ \A e \in Drivers : pc'[e] # "credit"
    BY <1>1, <2>1 DEF Crediting, TypeInv, TypeOK
  <2> QED
    BY <2>1, <2>2, <2>3, <2>4 DEF PaidIsStored
<1>4. ASSUME NEW d \in Drivers, MarkRow(d) PROVE PaidIsStored'
  <2>1. /\ pc[d] = "mark" /\ credits' = credits /\ row[d] \in Rows
        /\ store' = [store EXCEPT ![row[d]] = "credited"]
        /\ pc' = [pc EXCEPT ![d] = "record"]
    BY <1>4 DEF MarkRow, Goto, LoopSound, TypeInv, TypeOK
  <2>2. \A e \in Drivers : pc[e] = "mark" => e = d
    BY <1>1, <2>1 DEF Crediting
  <2>3. \A c \in Rows : credits[c] > 0 => store[c] = "credited" \/ c = row[d]
    BY <2>2 DEF PaidIsStored
  <2>4. \A c \in Rows : credits'[c] > 0 => store'[c] = "credited"
    BY <2>1, <2>3 DEF TypeInv, TypeOK
  <2>5. \A e \in Drivers : pc'[e] # "credit"
    BY <1>1, <2>1 DEF Crediting, TypeInv, TypeOK
  <2> QED
    BY <2>4, <2>5 DEF PaidIsStored
<1>5. ASSUME NEW d \in Drivers, LoopDone(d) \/ CreditRaises(d) PROVE PaidIsStored'
  <2>1. /\ pc[d] \in {"record", "credit"} /\ UNCHANGED <<store, credits>>
        /\ pc' = [pc EXCEPT ![d] = "history"] \/ pc' = [pc EXCEPT ![d] = "park"]
    BY <1>0, <1>5 DEF LoopDone, CreditRaises, LeaveLoop, Goto, ledgers
  <2>2. \A c \in Rows : credits[c] > 0 => store[c] = "credited"
    BY <1>1, <2>1 DEF Crediting
  <2>3. \A e \in Drivers : pc'[e] # "credit"
    BY <1>1, <2>1 DEF Crediting, TypeInv, TypeOK
  <2> QED
    BY <2>1, <2>2, <2>3 DEF PaidIsStored
<1>6. \A d \in Drivers : ~StoreFails(d)
  BY <1>0 DEF StoreFails
<1> QED
  BY <1>2, <1>3, <1>4, <1>5, <1>6, StoredSteps, OutsideKeepsStored

-----------------------------------------------------------------------------
(* Exactly once.                                                           *)

\* OnceInv holds while nothing is paid.
LEMMA OnceInit == Init => OnceInv
  BY DEF Init, OnceInv, PaidAtMostOnce, PaidIsStored

\* Every step keeps it: payments are first payments, and are stored.
LEMMA OnceStep ==
  ASSUME Reliable, TypeInv, TypeInv', LedgerInv, OnceInv, [Next]_vars
  PROVE  OnceInv'
<1>1. CASE UNCHANGED vars
  BY <1>1 DEF vars, ledgers, loop, OnceInv, PaidAtMostOnce, PaidIsStored
<1>2. CASE Next
  <2>1. PaidAtMostOnce'
    <3>1. CASE UNCHANGED credits
      BY <3>1 DEF OnceInv, PaidAtMostOnce
    <3>2. ASSUME NEW d \in Drivers, CreditRow(d) \/ CreditRaises(d)
          PROVE  PaidAtMostOnce'
      <4>1. \A b \in Rows : credits[b] <= 1
        BY DEF OnceInv, PaidAtMostOnce
      <4>2. \A b \in Rows : credits'[b] = credits[b] \/ credits'[b] = 1
        BY <3>2, FirstPayment DEF TypeInv, TypeOK
      <4> QED
        BY <4>1, <4>2 DEF PaidAtMostOnce
    <3> QED
      BY <1>2, <3>1, <3>2, OnlyLoopPays
  <2>2. WalletKeyed \/ PaidIsStored'
    BY <1>2, StoredStep DEF OnceInv, LedgerInv
  <2> QED
    BY <2>1, <2>2 DEF OnceInv
<1> QED
  BY <1>1, <1>2

\* No payout is moved twice, however many threads settle, replay and retry: with a
\* keyed wallet whatever fails, without keys if the wallet's errors are honest.
THEOREM ExactlyOnce == Reliable => (Spec => []PaidAtMostOnce)
<1> SUFFICES ASSUME Reliable PROVE Spec => []PaidAtMostOnce
  OBVIOUS
<1>1. TypeInv /\ TypeInv' /\ LedgerInv /\ OnceInv /\ [Next]_vars => OnceInv'
  BY OnceStep
<1>2. OnceInv => PaidAtMostOnce
  BY DEF OnceInv
<1>3. Spec => []LedgerInv
  BY LedgerSafety, PTL
<1> QED
  BY <1>1, <1>2, <1>3, OnceInit, TypesHold, PTL DEF Spec

-----------------------------------------------------------------------------
(* Refinement.                                                             *)

\* What falls due when the current round is settled.
Winnings == {b \in RoundRows(cur) : Won(b)}

\* A step that settles no round makes nothing due and forgets nothing.
LEMMA DueKept ==
  ASSUME TypeInv, TypeInv', LedgerInv, Next, settled' = settled
  PROVE  Due' = Due
<1>1. ASSUME NEW b \in Rows PROVE b \in Due' <=> b \in Due
  <2>1. b[1] \in Rounds /\ (b \in Settleable' <=> settled[b[1]] /\ b[2] \in bets'[b[1]])
                       /\ (b \in Settleable <=> settled[b[1]] /\ b[2] \in bets[b[1]])
    BY RowParts
  <2>2. settled[b[1]] => bets'[b[1]] = bets[b[1]] /\ winners'[b[1]] = winners[b[1]]
    BY <2>1, OutcomeKept DEF LedgerInv
  <2> QED
    BY <2>1, <2>2 DEF Due, Won
<1>2. Due \subseteq Rows /\ Due' \subseteq Rows
  BY DEF Due, Settleable
<1> QED
  BY <1>1, <1>2

\* room.settle decides a round's winning rows together, or replays them.
LEMMA SettleDecides ==
  ASSUME TypeInv, TypeInv', LedgerInv, NEW d \in Drivers, SettleRoom(d)
  PROVE  UNCHANGED credits /\ (Due' = Due \/ \E won \in SUBSET Rows : Contract!Decide(won))
<1>1. /\ cur \in Rounds /\ settled' = [settled EXCEPT ![cur] = TRUE]
      /\ UNCHANGED <<bets, winners, credits>>
  BY CurDealt DEF SettleRoom, ledgers
<1>2. Winnings \subseteq Rows
  BY <1>1 DEF Winnings, RoundRows, Rows, TypeInv, TypeOK
<1>3. ASSUME NEW b \in Rows
      PROVE  /\ b \in Winnings <=> b[1] = cur /\ b[2] \in bets[b[1]] /\ Won(b)
             /\ b \in Due <=> settled[b[1]] /\ b[2] \in bets[b[1]] /\ Won(b)
             /\ b \in Due' <=> settled'[b[1]] /\ b[2] \in bets[b[1]] /\ Won(b)
  <2>1. PICK r \in Rounds, i \in BetIds : b = <<r, i>>
    BY DEF Rows
  <2> QED
    BY <1>1, <2>1, RowParts DEF Winnings, RoundRows, Due, Won
<1>4. Due' = Due \cup Winnings
  <2>1. \A b \in Rows : settled'[b[1]] <=> settled[b[1]] \/ b[1] = cur
    BY <1>1, RowParts DEF TypeInv, TypeOK
  <2>2. \A b \in Rows : b \in Due' <=> b \in Due \/ b \in Winnings
    BY <1>3, <2>1
  <2>3. Due \subseteq Rows /\ Due' \subseteq Rows
    BY DEF Due, Settleable
  <2> QED
    BY <1>2, <2>2, <2>3
<1>5. CASE settled[cur] \/ Winnings = {}
  <2>1. Winnings \subseteq Due
    BY <1>2, <1>3, <1>5
  <2> QED
    BY <1>1, <1>4, <2>1
<1>6. CASE ~settled[cur] /\ Winnings # {}
  <2>1. Winnings \cap Due = {}
    BY <1>2, <1>3, <1>6
  <2>2. Contract!Decide(Winnings)
    BY <1>1, <1>4, <1>6, <2>1 DEF Contract!Decide
  <2> QED
    BY <1>1, <1>2, <2>2
<1> QED
  BY <1>5, <1>6

\* A payment pays what is due and was not paid.
LEMMA LoopPays ==
  ASSUME TypeInv, TypeInv', LedgerInv, OnceInv, Reliable, Next, UNCHANGED roomVars,
         NEW d \in Drivers, CreditRow(d) \/ CreditRaises(d)
  PROVE  Due' = Due /\ (UNCHANGED credits \/ \E b \in Rows : Contract!Pay(b))
<1>1. Due' = Due
  BY DueKept DEF roomVars
<1>2. row[d] \in Rows /\ row[d] \in Due
  BY FirstPayment DEF Due
<1>3. UNCHANGED credits \/ Contract!Pay(row[d])
  BY <1>1, <1>2, FirstPayment DEF Contract!Pay
<1> QED
  BY <1>1, <1>2, <1>3

\* Every step of the implementation is a step of the contract, or none.
LEMMA StepImplements ==
  ASSUME TypeInv, TypeInv', LedgerInv, OnceInv, Reliable, [Next]_vars
  PROVE  [Contract!Next]_<<Due, credits>>
<1>1. CASE UNCHANGED vars
  BY <1>1 DEF vars, roomVars, ledgers, Due, Settleable, Won, RoundRows
<1>2. ASSUME NEW d \in Drivers, SettleRoom(d) PROVE [Contract!Next]_<<Due, credits>>
  BY <1>2, SettleDecides DEF Contract!Next
<1>3. ASSUME Next, UNCHANGED roomVars, NEW d \in Drivers, CreditRow(d) \/ CreditRaises(d)
      PROVE  [Contract!Next]_<<Due, credits>>
  BY <1>3, LoopPays DEF Contract!Next
<1>4. CASE Next /\ settled' = settled /\ UNCHANGED credits
  BY <1>4, DueKept
<1>5. Next => settled' = settled \/ \E d \in Drivers : SettleRoom(d)
  BY RoomSteps DEF roomVars, AcceptBet, GiveUp, Restore, CloseBetting, PublishResult,
     StartRound, Park, CancelRoom
<1> QED
  BY <1>1, <1>2, <1>3, <1>4, <1>5, OnlyLoopPays

\* At the start nothing is due and nothing is paid.
LEMMA InitImplements == Init => Contract!Init
<1> SUFFICES ASSUME Init PROVE Contract!Init
  OBVIOUS
<1>1. ASSUME NEW b \in Due PROVE FALSE
  <2>1. b \in Rows /\ settled[b[1]]
    BY DEF Due, Settleable
  <2>2. b[1] \in Rounds
    BY <2>1 DEF Rows
  <2> QED
    BY <2>1, <2>2 DEF Init
<1> QED
  BY <1>1 DEF Init, Contract!Init

\* Settlement implements the payout contract: with a reliable outside, what a player
\* sees of it is winnings falling due and each credited once.
THEOREM Implements == Reliable => (Spec => ImplementsContract)
<1> SUFFICES ASSUME Reliable PROVE Spec => ImplementsContract
  OBVIOUS
<1>1. TypeInv /\ TypeInv' /\ LedgerInv /\ OnceInv /\ [Next]_vars => OnceInv'
  BY OnceStep
<1>2. TypeInv /\ TypeInv' /\ LedgerInv /\ OnceInv /\ [Next]_vars
        => [Contract!Next]_<<Due, credits>>
  BY StepImplements
<1>3. Spec => []LedgerInv
  BY LedgerSafety, PTL
<1> QED
  BY <1>1, <1>2, <1>3, OnceInit, InitImplements, TypesHold, PTL
  DEF Spec, ImplementsContract, Contract!Spec
=============================================================================
