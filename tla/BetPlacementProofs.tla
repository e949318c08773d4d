------------------------- MODULE BetPlacementProofs -------------------------
(***************************************************************************)
(* What place_bet guarantees for every number of requests, keys, players,  *)
(* bodies and rounds, and every fault set.                                 *)
(***************************************************************************)
EXTENDS BetPlacement, FiniteSetTheorems, TLAPS

-----------------------------------------------------------------------------
(* Types.                                                                  *)

\* Every value the code stores under a key has the type of an entry.
LEMMA EntryTypes ==
  ASSUME NEW p \in Payloads, NEW b \in Bets
  PROVE  /\ Absent \in Entries /\ Held(p) \in Entries
         /\ Done(p, b) \in Entries
  BY DEF Absent, Held, Done, Entries

\* The type invariant is inductive: no call of place_bet stores anything but what
\* its table, wallet or reply is made for.
THEOREM TypeCorrect == Spec => []TypeOK
<1>1. Init => TypeOK
  <2> SUFFICES ASSUME Init PROVE TypeOK
    OBVIOUS
  <2>1. round \in 0..MaxRounds /\ balance \in [Players -> Int]
    BY BoundAssumption DEF Init
  <2>2. idem \in [Keys -> Entries]
    BY DEF Init, Entries, Absent
  <2>3. /\ debits \in [Keys -> Payloads \cup {NoPayload}]
        /\ voids \in [Keys -> Payloads \cup {NoPayload}]
        /\ replyBet \in [Requests -> Bets \cup {NoBet}]
    BY DEF Init
  <2>4. pc \in [Requests -> Steps] /\ reply \in [Requests -> Replies]
    BY DEF Init, Steps, Replies
  <2> QED
    BY <2>1, <2>2, <2>3, <2>4 DEF Init, TypeOK
<1>2. TypeOK /\ [Next]_vars => TypeOK'
  <2> SUFFICES ASSUME TypeOK, [Next]_vars PROVE TypeOK'
    OBVIOUS
  <2> USE PayloadAssumption, BoundAssumption DEF TypeOK
  <2>1. CASE StartRound
    BY <2>1 DEF StartRound, money, answers
  <2>2. CASE CloseBetting
    BY <2>2 DEF CloseBetting, money, answers
  <2>3. ASSUME NEW r \in Requests, Request(r) PROVE TypeOK'
    <3>0. KeyOf(r) \in Keys /\ PayloadOf(r) \in Payloads
      BY DEF KeyOf, PayloadOf
    <3>1. CASE Validate(r)
      BY ZenonT(60), <3>1 DEF Validate, Goto, Answer, window, money, answers, Steps, Replies
    <3>2. CASE ReadBalance(r)
      BY ZenonT(60), <3>2 DEF ReadBalance, Goto, Answer, window, money, answers, Steps, Replies
    <3>3. CASE ClaimFresh(r)
      BY <3>0, <3>3 DEF ClaimFresh, Goto, window, money, answers, Steps, Held, Entries
    <3>4. CASE ClaimConflict(r)
      BY <3>4 DEF ClaimConflict, Answer, window, money, Steps, Replies
    <3>5. CASE ClaimInFlight(r)
      BY <3>5 DEF ClaimInFlight, Answer, window, money, Steps, Replies
    <3>6. CASE ClaimReplay(r)
      BY <3>0, <3>6 DEF ClaimReplay, Answer, window, money, Steps, Replies, Entries
    <3>7. CASE DebitTaken(r)
      BY <3>0, <3>7 DEF DebitTaken, ChargeOnce, Goto, window, money, answers, Steps
    <3>8. CASE DebitInsufficient(r)
      BY <3>8 DEF DebitInsufficient, Failing, window, money, Steps, Replies
    <3>9. CASE DebitRaises(r)
      BY <3>0, <3>9 DEF DebitRaises, ChargeOnce, Failing, window, money, Steps, Replies
    <3>10. CASE CreateBet(r)
      BY <3>0, <3>10 DEF CreateBet, NewBet, Bets, window, money, Steps
    <3>11. CASE RefuseBet(r)
      BY <3>11 DEF RefuseBet, Goto, window, money, answers, Steps
    <3>12. CASE Refund(r)
      BY <3>0, <3>12 DEF Refund, RefundOnce, Failing, window, money, Steps, Replies
    <3>13. CASE RefundRaises(r)
      BY <3>0, <3>13 DEF RefundRaises, RefundOnce, Answer, window, money, Steps, Replies
    <3>14. CASE Release(r)
      BY <3>0, <3>14 DEF Release, Goto, window, money, answers, Steps, Absent, Entries
    <3>15. CASE Complete(r)
      BY <3>0, <3>15 DEF Complete, Answer, window, money, Steps, Replies, Done, Entries
    <3> QED
      BY <2>3, <3>1, <3>2, <3>3, <3>4, <3>5, <3>6, <3>7, <3>8, <3>9, <3>10, <3>11,
         <3>12, <3>13, <3>14, <3>15 DEF Request
  <2>4. CASE UNCHANGED vars
    BY <2>4 DEF vars, money, answers, window
  <2> QED
    BY <2>1, <2>2, <2>3, <2>4 DEF Next
<1> QED
  BY <1>1, <1>2, PTL DEF Spec

-----------------------------------------------------------------------------
(* The key invariant.                                                      *)

\* Whatever a request does that neither begins nor ends its ownership, creates no
\* bet and touches no entry keeps KeyInv, if the bet it may answer with is its own.
LEMMA KeyQuiet ==
  ASSUME TypeOK, KeyInv, NEW r \in Requests,
         UNCHANGED <<bets, idem, ask>>,
         \A q \in Requests \ {r} :
           pc'[q] = pc[q] /\ reply'[q] = reply[q] /\ replyBet'[q] = replyBet[q],
         pc[r] \notin {"complete", "done"}, pc'[r] # "complete",
         pc[r] \in Owning <=> pc'[r] \in Owning,
         reply'[r] \in Replies \ {"refund_failed"} \/ reply'[r] = reply[r],
         \/ replyBet'[r] \in {NoBet, replyBet[r]}
         \/ /\ idem[KeyOf(r)].state = "done" /\ idem[KeyOf(r)].payload = PayloadOf(r)
            /\ replyBet'[r] = idem[KeyOf(r)].bet
  PROVE  KeyInv'
<1> USE DEF TypeOK, KeyInv
<1>1. \A q \in Requests : /\ KeyOf(q)' = KeyOf(q) /\ PayloadOf(q)' = PayloadOf(q)
                          /\ pc'[q] \in Owning <=> pc[q] \in Owning
  BY DEF KeyOf, PayloadOf
<1>2. HeldByOwner' /\ OneOwnerPerKey'
  BY <1>1 DEF HeldByOwner, OneOwnerPerKey, Owner
<1>3. BetRemembered'
  BY DEF BetRemembered
<1>4. EntriesSound' /\ OneBetPerKey'
  BY DEF EntriesSound, OneBetPerKey
<1>5. RepliesSound'
  BY DEF RepliesSound
<1>6. AnswerIsOwnBet'
  BY <1>1 DEF AnswerIsOwnBet, EntriesSound, KeyOf
<1>7. \A k \in Keys : RefundFailed(k) => RefundFailed(k)'
  BY <1>1 DEF RefundFailed, RepliesSound
<1>8. NoOrphanClaim'
  BY <1>1, <1>7 DEF NoOrphanClaim, Owner
<1> QED
  BY <1>2, <1>3, <1>4, <1>5, <1>6, <1>8

\* A key somebody owns is held: the only requests that find it otherwise are past
\* their claim or have not made it.
LEMMA OwnedIsHeld ==
  ASSUME HeldByOwner, NEW r \in Requests, pc[r] \in Owning
  PROVE  idem[KeyOf(r)].state = "held"
<1>1. idem[KeyOf(r)] = Held(PayloadOf(r))
  BY DEF HeldByOwner
<1> QED
  BY <1>1 DEF Held

\* claim() on an absent key gives it its one owner.
LEMMA KeyClaim ==
  ASSUME TypeOK, KeyInv, NEW r \in Requests, ClaimFresh(r)
  PROVE  KeyInv'
<1> USE DEF TypeOK, KeyInv, ClaimFresh, Goto, answers, KeyOf, PayloadOf
<1>1. \A q \in Requests : pc[q] \in Owning => KeyOf(q) # KeyOf(r)
  BY OwnedIsHeld
<1>2. HeldByOwner'
  BY <1>1 DEF HeldByOwner, Owning
<1>3. OneOwnerPerKey'
  BY <1>1 DEF OneOwnerPerKey, Owner, Owning
<1>4. BetRemembered'
  BY DEF BetRemembered, Bets
<1>5. EntriesSound' /\ RepliesSound' /\ OneBetPerKey' /\ AnswerIsOwnBet'
  BY DEF EntriesSound, RepliesSound, OneBetPerKey, AnswerIsOwnBet, Held
<1>6. NoOrphanClaim'
  BY DEF NoOrphanClaim, RefundFailed, Owner, Owning
<1> QED
  BY <1>2, <1>3, <1>4, <1>5, <1>6

\* Room.place_bet adds the only bet of a key: its owner still has to complete it.
LEMMA KeyCreate ==
  ASSUME TypeOK, KeyInv, NEW r \in Requests, CreateBet(r)
  PROVE  KeyInv'
<1> USE DEF TypeOK, KeyInv, CreateBet, NewBet, KeyOf, PayloadOf
<1>1. \A b \in bets : b.key # KeyOf(r)
  <2> SUFFICES ASSUME NEW b \in bets, b.key = KeyOf(r) PROVE FALSE
    OBVIOUS
  <2>1. idem[KeyOf(r)].state = "held"
    BY OwnedIsHeld DEF Owning
  <2>2. PICK q \in Requests : pc[q] = "complete" /\ replyBet[q] = b
    BY <2>1 DEF BetRemembered
  <2>3. KeyOf(q) = KeyOf(r)
    BY <2>2 DEF AnswerIsOwnBet, RepliesSound
  <2> QED
    BY <2>2, <2>3 DEF OneOwnerPerKey, Owner, Owning
<1>2. NewBet(r) \in Bets /\ NewBet(r) # NoBet
  BY PayloadAssumption DEF Bets
<1>3. HeldByOwner' /\ OneOwnerPerKey'
  BY DEF HeldByOwner, OneOwnerPerKey, Owner, Owning
<1>4. BetRemembered'
  BY <1>1 DEF BetRemembered
<1>5. EntriesSound' /\ RepliesSound' /\ AnswerIsOwnBet'
  BY <1>2 DEF EntriesSound, RepliesSound, AnswerIsOwnBet
<1>6. OneBetPerKey'
  BY <1>1 DEF OneBetPerKey
<1>7. NoOrphanClaim'
  BY DEF NoOrphanClaim, RefundFailed, Owner, Owning
<1> QED
  BY <1>3, <1>4, <1>5, <1>6, <1>7

\* A compensating credit that raises leaves the key held, and explained as failed.
LEMMA KeyRefundRaises ==
  ASSUME TypeOK, KeyInv, NEW r \in Requests, RefundRaises(r)
  PROVE  KeyInv'
<1> USE DEF TypeOK, KeyInv, RefundRaises, Answer, KeyOf, PayloadOf
<1>1. HeldByOwner' /\ OneOwnerPerKey'
  BY DEF HeldByOwner, OneOwnerPerKey, Owner, Owning
<1>2. BetRemembered' /\ EntriesSound' /\ RepliesSound' /\ OneBetPerKey' /\ AnswerIsOwnBet'
  BY DEF BetRemembered, EntriesSound, RepliesSound, OneBetPerKey, AnswerIsOwnBet
<1>3. NoOrphanClaim'
  BY DEF NoOrphanClaim, RefundFailed, Owner, Owning
<1> QED
  BY <1>1, <1>2, <1>3

\* release() by the owner frees the key, whose bet does not exist.
LEMMA KeyRelease ==
  ASSUME TypeOK, KeyInv, NEW r \in Requests, Release(r)
  PROVE  KeyInv'
<1> USE DEF TypeOK, KeyInv, Release, Goto, answers, KeyOf, PayloadOf
<1>1. idem[KeyOf(r)] = Held(PayloadOf(r)) /\ idem' = [idem EXCEPT ![KeyOf(r)] = Absent]
  BY DEF HeldByOwner, Owning
<1>2. \A q \in Requests : pc'[q] \in Owning => pc[q] \in Owning /\ KeyOf(q) # KeyOf(r)
  BY DEF OneOwnerPerKey, Owner, Owning
<1>3. HeldByOwner' /\ OneOwnerPerKey'
  BY <1>1, <1>2 DEF HeldByOwner, OneOwnerPerKey, Owner, Owning
<1>4. BetRemembered'
  BY <1>1 DEF BetRemembered, Held, Bets
<1>5. EntriesSound' /\ RepliesSound' /\ OneBetPerKey' /\ AnswerIsOwnBet'
  BY <1>1 DEF EntriesSound, RepliesSound, OneBetPerKey, AnswerIsOwnBet, Absent, Held
<1>6. NoOrphanClaim'
  BY <1>1 DEF NoOrphanClaim, RefundFailed, Owner, Owning, Absent
<1> QED
  BY <1>3, <1>4, <1>5, <1>6

\* complete() by the owner hands the bet over from the request to the entry.
LEMMA KeyComplete ==
  ASSUME TypeOK, KeyInv, NEW r \in Requests, Complete(r)
  PROVE  KeyInv'
<1> USE DEF TypeOK, KeyInv, Complete, Answer, KeyOf, PayloadOf
<1>1. idem[KeyOf(r)] = Held(PayloadOf(r))
  BY DEF HeldByOwner, Owning
<1>2. idem' = [idem EXCEPT ![KeyOf(r)] = Done(PayloadOf(r), replyBet[r])]
  BY <1>1 DEF Held
<1>3. replyBet[r] \in bets /\ replyBet[r].key = KeyOf(r) /\ replyBet[r].payload = PayloadOf(r)
  BY DEF RepliesSound, AnswerIsOwnBet
<1>4. \A q \in Requests : pc'[q] \in Owning => pc[q] \in Owning /\ KeyOf(q) # KeyOf(r)
  BY DEF OneOwnerPerKey, Owner, Owning
<1>5. HeldByOwner' /\ OneOwnerPerKey'
  BY <1>2, <1>4 DEF HeldByOwner, OneOwnerPerKey, Owner, Owning
<1>6. BetRemembered'
  BY <1>1, <1>2, <1>3 DEF BetRemembered, OneBetPerKey, Done, Held, Bets
<1>7. EntriesSound'
  BY <1>2, <1>3 DEF EntriesSound, Done, Held
<1>8. RepliesSound' /\ OneBetPerKey' /\ AnswerIsOwnBet'
  BY <1>3 DEF RepliesSound, OneBetPerKey, AnswerIsOwnBet
<1>9. NoOrphanClaim'
  <2> SUFFICES ASSUME NEW k \in Keys, idem'[k].state = "held"
               PROVE  RefundFailed(k)' \/ \E q \in Requests : Owner(q, k)'
    BY DEF NoOrphanClaim
  <2>1. k # KeyOf(r) /\ idem[k].state = "held"
    BY <1>2 DEF Done
  <2>2. CASE RefundFailed(k)
    BY <2>1, <2>2 DEF RefundFailed
  <2>3. CASE \E q \in Requests : Owner(q, k)
    BY <2>1, <2>3 DEF Owner, Owning
  <2> QED
    BY <2>1, <2>2, <2>3 DEF NoOrphanClaim
<1> QED
  BY <1>5, <1>6, <1>7, <1>8, <1>9

\* Before the first request the key invariant holds.
LEMMA KeyInvInit == Init => KeyInv
  BY DEF Init, KeyInv, HeldByOwner, OneOwnerPerKey, BetRemembered, EntriesSound,
     RepliesSound, OneBetPerKey, AnswerIsOwnBet, NoOrphanClaim, Owner, Owning, Absent

\* Every step of a request, and of the round under it, keeps the key invariant.
LEMMA KeyInvStep ==
  ASSUME TypeOK, KeyInv, [Next]_vars
  PROVE  KeyInv'
<1>1. ASSUME UNCHANGED <<bets, idem, ask, pc, reply, replyBet>> PROVE KeyInv'
  BY <1>1 DEF KeyInv, HeldByOwner, OneOwnerPerKey, BetRemembered, EntriesSound, RepliesSound,
     OneBetPerKey, AnswerIsOwnBet, NoOrphanClaim, Owner, RefundFailed, KeyOf, PayloadOf
<1>2. CASE StartRound \/ CloseBetting \/ UNCHANGED vars
  BY <1>1, <1>2 DEF StartRound, CloseBetting, vars, answers
<1>3. ASSUME NEW r \in Requests, Request(r) PROVE KeyInv'
  <2> USE DEF TypeOK, Owning, Replies, Goto, Answer, Failing, answers
  <2>1. CASE Validate(r)
    BY SMTT(60), <2>1, KeyQuiet DEF Validate
  <2>2. CASE ReadBalance(r)
    BY SMTT(60), <2>2, KeyQuiet DEF ReadBalance
  <2>3. CASE ClaimConflict(r)
    BY <2>3, KeyQuiet DEF ClaimConflict
  <2>4. CASE ClaimInFlight(r)
    BY <2>4, KeyQuiet DEF ClaimInFlight
  <2>5. CASE ClaimReplay(r)
    BY <2>5, KeyQuiet DEF ClaimReplay
  <2>6. CASE DebitTaken(r)
    BY <2>6, KeyQuiet DEF DebitTaken
  <2>7. CASE DebitInsufficient(r)
    BY <2>7, KeyQuiet DEF DebitInsufficient
  <2>8. CASE DebitRaises(r)
    BY <2>8, KeyQuiet DEF DebitRaises
  <2>9. CASE RefuseBet(r)
    BY <2>9, KeyQuiet DEF RefuseBet
  <2>10. CASE Refund(r)
    BY <2>10, KeyQuiet DEF Refund
  <2> QED
    BY <1>3, <2>1, <2>2, <2>3, <2>4, <2>5, <2>6, <2>7, <2>8, <2>9, <2>10, KeyClaim,
       KeyCreate, KeyRefundRaises, KeyRelease, KeyComplete DEF Request
<1> QED
  BY <1>2, <1>3 DEF Next

\* For any faults of the adapter, lost answers included, a key has one owner and
\* buys one bet, every answer carries the bet of its own request, and no key stays
\* claimed with nobody working on it but the one whose refund failed.
THEOREM KeySafety ==
  Spec => [](OneOwnerPerKey /\ OneBetPerKey /\ AnswerIsOwnBet /\ NoOrphanClaim)
<1>1. TypeOK /\ KeyInv /\ [Next]_vars => KeyInv'
  BY KeyInvStep
<1>2. KeyInv => OneOwnerPerKey /\ OneBetPerKey /\ AnswerIsOwnBet /\ NoOrphanClaim
  BY DEF KeyInv
<1> QED
  BY KeyInvInit, TypeCorrect, <1>1, <1>2, PTL DEF Spec

\* The key invariant the run with every fault checks holds for any requests, keys,
\* payloads and faults of the adapter.
THEOREM KeyInvHolds == Spec => []KeyInv
<1>1. TypeOK /\ KeyInv /\ [Next]_vars => KeyInv'
  BY KeyInvStep
<1> QED
  BY KeyInvInit, TypeCorrect, <1>1, PTL DEF Spec

\* A completed entry is final: no step of any request drops or changes it, a late
\* release and a claim of the same key included.
THEOREM CompletedFinal == Spec => CompletedNeverDropped
<1>1. TypeOK /\ KeyInv /\ [Next]_vars
        => [\A k \in Keys : idem[k].state = "done" => idem'[k] = idem[k]]_vars
  <2> SUFFICES ASSUME TypeOK, KeyInv, Next, NEW k \in Keys, idem[k].state = "done"
               PROVE  idem'[k] = idem[k]
    OBVIOUS
  <2>1. CASE UNCHANGED idem
    BY <2>1
  <2>2. CASE StartRound \/ CloseBetting
    BY <2>2 DEF StartRound, CloseBetting
  <2>3. ASSUME NEW r \in Requests, Request(r), idem' # idem PROVE idem'[k] = idem[k]
    <3>1. KeyOf(r) # k
      <4>1. CASE ClaimFresh(r)
        BY <4>1 DEF ClaimFresh
      <4>2. CASE Release(r) \/ Complete(r)
        BY <4>2, OwnedIsHeld DEF Release, Complete, KeyInv, Owning
      <4> QED
        BY <2>3, <4>1, <4>2 DEF Request, Validate, ReadBalance, ClaimConflict,
           ClaimInFlight, ClaimReplay, DebitTaken, DebitInsufficient, DebitRaises,
           CreateBet, RefuseBet, Refund, RefundRaises
    <3>2. \E e : idem' = [idem EXCEPT ![KeyOf(r)] = e]
      BY <2>3 DEF Request, Validate, ReadBalance, ClaimFresh, ClaimConflict,
         ClaimInFlight, ClaimReplay, DebitTaken, DebitInsufficient, DebitRaises,
         CreateBet, RefuseBet, Refund, RefundRaises, Release, Complete
    <3> QED
      BY <3>1, <3>2 DEF TypeOK
  <2> QED
    BY <2>1, <2>2, <2>3 DEF Next
<1> QED
  BY KeyInvHolds, TypeCorrect, <1>1, PTL DEF Spec, CompletedNeverDropped

-----------------------------------------------------------------------------
(* The stake invariant: it needs a debit that never loses its answer.      *)

\* What the code takes for granted of the adapter: a debit that raises moved nothing.
NoLostDebit == "lost" \notin DebitFaults

\* A step that moves no money, creates no bet and neither begins nor ends an ownership
\* keeps the stake invariant.
LEMMA StakeQuiet ==
  ASSUME TypeOK, KeyInv, StakeInv, NEW r \in Requests,
         UNCHANGED <<bets, idem, ask, debits, voids>>,
         \A q \in Requests \ {r} : pc'[q] = pc[q] /\ reply'[q] = reply[q],
         pc[r] # "done", pc[r] \in Owning <=> pc'[r] \in Owning,
         reply'[r] # "refund_failed",
         pc'[r] \in {"debit", "release"} =>
           debits[KeyOf(r)] = NoPayload \/ voids[KeyOf(r)] # NoPayload,
         pc'[r] # "create"
  PROVE  StakeInv'
<1> USE DEF TypeOK, StakeInv
<1>1. \A q \in Requests : KeyOf(q)' = KeyOf(q) /\ PayloadOf(q)' = PayloadOf(q)
  BY DEF KeyOf, PayloadOf
<1>2. \A k \in Keys : /\ RefundFailed(k)' <=> RefundFailed(k)
                      /\ \A q \in Requests : Owner(q, k)' <=> Owner(q, k)
  BY <1>1 DEF RefundFailed, Owner, KeyInv, RepliesSound
<1>3. FailedKeepsKey' /\ NoStrandedStake'
  BY <1>2 DEF FailedKeepsKey, NoStrandedStake
<1>4. OwnerKnowsWallet'
  BY <1>1 DEF OwnerKnowsWallet
<1>5. UnbackedOnlyAfterRefund'
  BY DEF UnbackedOnlyAfterRefund
<1> QED
  BY <1>3, <1>4, <1>5

\* claim() finds a key whose stake is accounted for.
LEMMA StakeClaim ==
  ASSUME TypeOK, KeyInv, StakeInv, NEW r \in Requests, ClaimFresh(r)
  PROVE  StakeInv'
<1> USE DEF TypeOK, StakeInv, ClaimFresh, Goto, answers, money
<1>1. \A q \in Requests : KeyOf(q)' = KeyOf(q) /\ PayloadOf(q)' = PayloadOf(q)
  BY DEF KeyOf, PayloadOf
<1>2. /\ ~RefundFailed(KeyOf(r)) /\ KeyOf(r) \in Keys
      /\ \A q \in Requests : ~Owner(q, KeyOf(r))
  BY OwnedIsHeld DEF FailedKeepsKey, KeyInv, Owner, KeyOf
<1>3. \A b \in bets : b.key # KeyOf(r)
  BY <1>2 DEF KeyInv, BetRemembered, AnswerIsOwnBet, RepliesSound, Owner, Owning
<1>4. debits[KeyOf(r)] = NoPayload \/ voids[KeyOf(r)] # NoPayload
  BY <1>2, <1>3 DEF NoStrandedStake
<1>5. FailedKeepsKey'
  BY <1>1, <1>2 DEF FailedKeepsKey, RefundFailed, Owner, Held
<1>6. OwnerKnowsWallet'
  BY <1>1, <1>4 DEF OwnerKnowsWallet
<1>7. NoStrandedStake'
  BY <1>1, <1>2, <1>4 DEF NoStrandedStake, RefundFailed, Owner, Owning
<1>8. UnbackedOnlyAfterRefund'
  BY DEF UnbackedOnlyAfterRefund
<1> QED
  BY <1>5, <1>6, <1>7, <1>8

\* A debit, first or replayed, puts the stake in the care of the key's owner.
LEMMA StakeDebit ==
  ASSUME TypeOK, KeyInv, StakeInv, NEW r \in Requests, DebitTaken(r)
  PROVE  StakeInv'
<1> USE DEF TypeOK, StakeInv, DebitTaken, Goto, answers
<1>1. \A q \in Requests : KeyOf(q)' = KeyOf(q) /\ PayloadOf(q)' = PayloadOf(q)
  BY DEF KeyOf, PayloadOf
<1>2. /\ Owner(r, KeyOf(r)) /\ KeyOf(r) \in Keys /\ PayloadOf(r) \in Payloads
      /\ \A q \in Requests \ {r} : pc[q] \in Owning => KeyOf(q) # KeyOf(r)
  BY DEF Owner, Owning, KeyInv, OneOwnerPerKey, KeyOf, PayloadOf
<1>3. /\ voids' = voids
      /\ debits' = IF debits[KeyOf(r)] # NoPayload THEN debits
                   ELSE [debits EXCEPT ![KeyOf(r)] = PayloadOf(r)]
  BY DEF ChargeOnce, money
<1>4. \A k \in Keys : /\ RefundFailed(k)' <=> RefundFailed(k)
                      /\ \A q \in Requests : Owner(q, k)' <=> Owner(q, k)
  BY <1>1 DEF RefundFailed, Owner, Owning
<1>5. FailedKeepsKey'
  BY <1>4 DEF FailedKeepsKey
<1>6. OwnerKnowsWallet'
  BY <1>1, <1>2, <1>3, PayloadAssumption DEF OwnerKnowsWallet, Owning
<1>7. NoStrandedStake'
  BY <1>2, <1>3, <1>4 DEF NoStrandedStake
<1>8. UnbackedOnlyAfterRefund'
  BY <1>3, PayloadAssumption DEF UnbackedOnlyAfterRefund, Bets
<1> QED
  BY <1>5, <1>6, <1>7, <1>8

\* The bet the owner creates is backed by its debit, or its key was refunded before.
LEMMA StakeCreate ==
  ASSUME TypeOK, KeyInv, StakeInv, NEW r \in Requests, CreateBet(r)
  PROVE  StakeInv'
<1> USE DEF TypeOK, StakeInv, CreateBet, NewBet, money
<1>1. \A q \in Requests : KeyOf(q)' = KeyOf(q) /\ PayloadOf(q)' = PayloadOf(q)
  BY DEF KeyOf, PayloadOf
<1>2. \A k \in Keys : /\ RefundFailed(k)' <=> RefundFailed(k)
                      /\ \A q \in Requests : Owner(q, k)' <=> Owner(q, k)
  BY <1>1 DEF RefundFailed, Owner, Owning
<1>3. FailedKeepsKey' /\ NoStrandedStake'
  BY <1>2 DEF FailedKeepsKey, NoStrandedStake
<1>4. OwnerKnowsWallet'
  BY <1>1 DEF OwnerKnowsWallet
<1>5. UnbackedOnlyAfterRefund'
  BY DEF UnbackedOnlyAfterRefund, OwnerKnowsWallet
<1> QED
  BY <1>3, <1>4, <1>5

\* The compensating credit gives the stake back before the key is released.
LEMMA StakeRefund ==
  ASSUME TypeOK, KeyInv, StakeInv, NEW r \in Requests, Refund(r)
  PROVE  StakeInv'
<1> USE DEF TypeOK, StakeInv, Refund, Failing
<1>1. \A q \in Requests : KeyOf(q)' = KeyOf(q) /\ PayloadOf(q)' = PayloadOf(q)
  BY DEF KeyOf, PayloadOf
<1>2. /\ KeyOf(r) \in Keys /\ debits' = debits
      /\ voids'[KeyOf(r)] # NoPayload
      /\ \A k \in Keys : voids[k] # NoPayload => voids'[k] # NoPayload
  BY PayloadAssumption DEF RefundOnce, KeyOf, PayloadOf, money
<1>3. \A k \in Keys : /\ RefundFailed(k)' <=> RefundFailed(k)
                      /\ \A q \in Requests : Owner(q, k)' <=> Owner(q, k)
  BY <1>1 DEF RefundFailed, Owner, Owning, KeyInv, RepliesSound
<1>4. FailedKeepsKey' /\ NoStrandedStake'
  BY <1>2, <1>3 DEF FailedKeepsKey, NoStrandedStake
<1>5. OwnerKnowsWallet'
  BY <1>1, <1>2 DEF OwnerKnowsWallet, KeyOf
<1>6. UnbackedOnlyAfterRefund'
  BY <1>2 DEF UnbackedOnlyAfterRefund, Bets
<1> QED
  BY <1>4, <1>5, <1>6

\* A compensating credit that raises leaves its key marked as failed and held.
LEMMA StakeRefundRaises ==
  ASSUME TypeOK, KeyInv, StakeInv, NEW r \in Requests, RefundRaises(r)
  PROVE  StakeInv'
<1> USE DEF TypeOK, StakeInv, RefundRaises, Answer
<1>1. \A q \in Requests : KeyOf(q)' = KeyOf(q) /\ PayloadOf(q)' = PayloadOf(q)
  BY DEF KeyOf, PayloadOf
<1>2. /\ debits' = debits
      /\ \A k \in Keys : voids[k] # NoPayload => voids'[k] # NoPayload
  BY PayloadAssumption DEF RefundOnce, KeyOf, PayloadOf, money
<1>3. /\ idem[KeyOf(r)].state = "held"
      /\ \A q \in Requests \ {r} : pc[q] \in Owning => KeyOf(q) # KeyOf(r)
  BY OwnedIsHeld DEF KeyInv, OneOwnerPerKey, Owner, Owning
<1>4. \A q \in Requests : pc'[q] \in Owning => q # r /\ pc[q] \in Owning
  BY DEF Owning
<1>5. \A k \in Keys : RefundFailed(k)' <=> k = KeyOf(r) \/ RefundFailed(k)
  BY <1>1 DEF RefundFailed, KeyInv, RepliesSound
<1>6. FailedKeepsKey'
  BY <1>1, <1>3, <1>4, <1>5 DEF FailedKeepsKey, Owner
<1>7. OwnerKnowsWallet'
  BY <1>1, <1>2 DEF OwnerKnowsWallet, KeyOf
<1>8. NoStrandedStake'
  BY <1>1, <1>2, <1>5 DEF NoStrandedStake, Owner
<1>9. UnbackedOnlyAfterRefund'
  BY <1>2 DEF UnbackedOnlyAfterRefund, Bets
<1> QED
  BY <1>6, <1>7, <1>8, <1>9

\* Release and complete end an ownership whose stake is already accounted for.
LEMMA StakeEnd ==
  ASSUME TypeOK, KeyInv, StakeInv, NEW r \in Requests, Release(r) \/ Complete(r)
  PROVE  StakeInv'
<1> USE DEF TypeOK, StakeInv, Release, Complete, Goto, Answer, answers, money
<1>1. \A q \in Requests : KeyOf(q)' = KeyOf(q) /\ PayloadOf(q)' = PayloadOf(q)
  BY DEF KeyOf, PayloadOf
<1>2. \A q \in Requests : pc'[q] \in Owning => q # r /\ pc[q] \in Owning
  BY DEF Owning
<1>3. \A k \in Keys : RefundFailed(k)' <=> RefundFailed(k)
  BY <1>1 DEF RefundFailed, KeyInv, RepliesSound
<1>4. ~RefundFailed(KeyOf(r)) /\ KeyOf(r) \in Keys
  BY DEF FailedKeepsKey, Owner, Owning, KeyOf
<1>5. \A k \in Keys : k # KeyOf(r) => idem'[k] = idem[k]
  OBVIOUS
<1>6. FailedKeepsKey'
  BY <1>1, <1>2, <1>3, <1>4, <1>5 DEF FailedKeepsKey, Owner
<1>7. OwnerKnowsWallet'
  BY <1>1 DEF OwnerKnowsWallet
<1>8. \/ \E b \in bets : b.key = KeyOf(r)
      \/ debits[KeyOf(r)] = NoPayload
      \/ voids[KeyOf(r)] # NoPayload
  BY DEF OwnerKnowsWallet, KeyInv, RepliesSound, AnswerIsOwnBet
<1>9. NoStrandedStake'
  BY <1>1, <1>3, <1>8 DEF NoStrandedStake, Owner
<1>10. UnbackedOnlyAfterRefund'
  BY DEF UnbackedOnlyAfterRefund
<1> QED
  BY <1>6, <1>7, <1>9, <1>10

\* Every step keeps the stake invariant when no debit loses its answer.
LEMMA StakeInvStep ==
  ASSUME NoLostDebit, TypeOK, KeyInv, StakeInv, [Next]_vars
  PROVE  StakeInv'
<1>1. ASSUME UNCHANGED <<bets, idem, debits, voids, ask, pc, reply>> PROVE StakeInv'
  BY <1>1 DEF StakeInv, FailedKeepsKey, OwnerKnowsWallet, NoStrandedStake,
     UnbackedOnlyAfterRefund, Owner, RefundFailed, KeyOf, PayloadOf
<1>2. CASE StartRound \/ CloseBetting \/ UNCHANGED vars
  BY <1>1, <1>2 DEF StartRound, CloseBetting, vars, answers, money
<1>3. ASSUME NEW r \in Requests, Request(r) PROVE StakeInv'
  <2> USE DEF TypeOK, Owning, Replies, Goto, Answer, Failing, answers, money
  <2>0. pc[r] # "done" => reply[r] # "refund_failed"
    BY DEF KeyInv, RepliesSound
  <2>1. CASE Validate(r)
    BY <2>0, <2>1, StakeQuiet DEF Validate
  <2>2. CASE ReadBalance(r)
    BY <2>0, <2>2, StakeQuiet DEF ReadBalance
  <2>3. CASE ClaimConflict(r)
    BY <2>3, StakeQuiet DEF ClaimConflict
  <2>4. CASE ClaimInFlight(r)
    BY <2>4, StakeQuiet DEF ClaimInFlight
  <2>5. CASE ClaimReplay(r)
    BY <2>5, StakeQuiet DEF ClaimReplay
  <2>6. CASE DebitInsufficient(r)
    BY <2>6, StakeQuiet DEF DebitInsufficient, Chargeable
  <2>7. CASE DebitRaises(r)
    BY <2>7, StakeQuiet DEF DebitRaises, NoLostDebit, StakeInv, OwnerKnowsWallet
  <2>8. CASE RefuseBet(r)
    BY <2>0, <2>8, StakeQuiet DEF RefuseBet
  <2> QED
    BY <1>3, <2>1, <2>2, <2>3, <2>4, <2>5, <2>6, <2>7, <2>8, StakeClaim, StakeDebit,
       StakeCreate, StakeRefund, StakeRefundRaises, StakeEnd DEF Request
<1> QED
  BY <1>2, <1>3 DEF Next

\* With an adapter that never loses the answer of a debit, a debited stake becomes a
\* bet or goes back, and a bet lacks its debit only on a key refunded before.
THEOREM StakeSafety ==
  NoLostDebit => (Spec => [](NoStrandedStake /\ UnbackedOnlyAfterRefund))
<1> SUFFICES ASSUME NoLostDebit
             PROVE  Spec => [](NoStrandedStake /\ UnbackedOnlyAfterRefund)
  OBVIOUS
<1>1. Init => StakeInv
  BY DEF Init, StakeInv, FailedKeepsKey, OwnerKnowsWallet, NoStrandedStake,
     UnbackedOnlyAfterRefund, RefundFailed
<1>2. TypeOK /\ KeyInv /\ StakeInv /\ [Next]_vars => StakeInv'
  BY StakeInvStep
<1>3. StakeInv => NoStrandedStake /\ UnbackedOnlyAfterRefund
  BY DEF StakeInv
<1> QED
  BY <1>1, <1>2, <1>3, TypeCorrect, KeyInvHolds, PTL DEF Spec

-----------------------------------------------------------------------------
(* The per-round limit.                                                    *)

LimitInv == IsFiniteSet(bets) /\ (\A b \in bets : b.round <= round) /\ BetLimitHolds

\* A new round starts with no bet of anybody: every bet is of an earlier one.
LEMMA LimitStart ==
  ASSUME TypeOK, LimitInv, StartRound
  PROVE  LimitInv'
<1> USE DEF TypeOK, LimitInv, StartRound
<1>1. \A b \in bets' : b.round <= round'
  BY DEF Bets
<1>2. \A p \in Players : AcceptedBy(p)' = {}
  BY BoundAssumption DEF AcceptedBy, Bets
<1>3. BetLimitHolds'
  <2> SUFFICES ASSUME NEW p \in Players PROVE Cardinality(AcceptedBy(p)') <= MaxBets
    BY DEF BetLimitHolds
  <2>1. Cardinality(AcceptedBy(p)') = 0
    BY <1>2, FS_EmptySet
  <2> QED
    BY <2>1, BoundAssumption
<1> QED
  BY <1>1, <1>3

\* The second check of the limit, under the lock, counts before it adds.
LEMMA LimitCreate ==
  ASSUME TypeOK, LimitInv, NEW r \in Requests, CreateBet(r)
  PROVE  LimitInv'
<1> USE DEF TypeOK, LimitInv, CreateBet, window
<1>0. IsFiniteSet(bets')
  BY FS_AddElement
<1>1. \A b \in bets' : b.round <= round'
  BY DEF NewBet
<1>2. ASSUME NEW p \in Players PROVE Cardinality(AcceptedBy(p)') <= MaxBets
  <2>1. IsFiniteSet(AcceptedBy(p))
    BY FS_Subset DEF AcceptedBy
  <2>2. Cardinality(AcceptedBy(p)) <= MaxBets
    BY DEF BetLimitHolds
  <2>3. CASE AcceptedBy(p)' = AcceptedBy(p)
    BY <2>2, <2>3
  <2>4. CASE AcceptedBy(p)' # AcceptedBy(p)
    <3>1. /\ AcceptedBy(p)' = AcceptedBy(p) \cup {NewBet(r)}
          /\ p = PlayerOf[PayloadOf(r)] /\ NewBet(r) \notin bets
      BY <2>4 DEF AcceptedBy, NewBet, PayloadOf
    <3>2. Cardinality(AcceptedBy(p)) < MaxBets
      BY <3>1 DEF RoomAccepts, ValidBet
    <3>3. NewBet(r) \notin AcceptedBy(p)
      BY <3>1 DEF AcceptedBy
    <3>4. Cardinality(AcceptedBy(p)') = Cardinality(AcceptedBy(p)) + 1
      <4>1. Cardinality(AcceptedBy(p) \cup {NewBet(r)}) = Cardinality(AcceptedBy(p)) + 1
        BY <2>1, <3>3, FS_AddElement
      <4> QED BY <3>1, <4>1
    <3>5. Cardinality(AcceptedBy(p)) \in Nat
      BY <2>1, FS_CardinalityType
    <3> QED
      BY <3>2, <3>4, <3>5, BoundAssumption
  <2> QED
    BY <2>3, <2>4
<1> QED
  BY <1>0, <1>1, <1>2 DEF BetLimitHolds

\* No player ever has more accepted bets in a round than the limit, although the
\* first check of it runs before the lock.
THEOREM LimitSafety == Spec => []BetLimitHolds
<1>1. Init => LimitInv
  <2> SUFFICES ASSUME Init PROVE LimitInv
    OBVIOUS
  <2>1. bets = {} /\ \A p \in Players : AcceptedBy(p) = {}
    BY DEF Init, AcceptedBy
  <2> QED
    BY <2>1, FS_EmptySet, BoundAssumption DEF LimitInv, BetLimitHolds
<1>2. TypeOK /\ LimitInv /\ [Next]_vars => LimitInv'
  <2> SUFFICES ASSUME TypeOK, LimitInv, [Next]_vars PROVE LimitInv'
    OBVIOUS
  <2>1. ASSUME UNCHANGED <<bets, round>> PROVE LimitInv'
    BY <2>1 DEF LimitInv, BetLimitHolds, AcceptedBy
  <2>2. CASE CloseBetting \/ UNCHANGED vars
    BY <2>1, <2>2 DEF CloseBetting, vars
  <2>3. ASSUME NEW r \in Requests, Request(r) PROVE LimitInv'
    BY <2>1, <2>3, LimitCreate DEF Request, Validate, ReadBalance, ClaimFresh,
       ClaimConflict, ClaimInFlight, ClaimReplay, DebitTaken, DebitInsufficient,
       DebitRaises, RefuseBet, Refund, RefundRaises, Release, Complete, window
  <2> QED
    BY <2>2, <2>3, LimitStart DEF Next
<1>3. LimitInv => BetLimitHolds
  BY DEF LimitInv
<1> QED
  BY <1>1, <1>2, <1>3, TypeCorrect, PTL DEF Spec
=============================================================================
