--------------------------- MODULE PayoutContract ---------------------------
(***************************************************************************)
(* What settlement promises a player, with no rounds, threads, retries or  *)
(* stores in sight: a payout becomes due when its round is decided, is     *)
(* credited afterwards, exactly once, and is never taken back.             *)
(***************************************************************************)
EXTENDS Naturals

CONSTANT Payout  \* every payout there can ever be, one per bet

VARIABLES
  due,     \* the payouts some player is owed, or has been paid
  credits  \* how often each was credited

TypeOK == due \subseteq Payout /\ credits \in [Payout -> Nat]

Init == due = {} /\ credits = [b \in Payout |-> 0]

\* A round is decided: its winning bets fall due together.
Decide(won) ==
  /\ won # {} /\ won \cap due = {}
  /\ due' = due \cup won
  /\ UNCHANGED credits

Pay(b) ==
  /\ b \in due /\ credits[b] = 0
  /\ credits' = [credits EXCEPT ![b] = 1]
  /\ UNCHANGED due

Next == (\E won \in SUBSET Payout : Decide(won)) \/ (\E b \in Payout : Pay(b))

Spec == Init /\ [][Next]_<<due, credits>>
=============================================================================
