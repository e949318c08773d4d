--------------------------- MODULE MCBetPlacement ---------------------------
(***************************************************************************)
(* Instances of BetPlacement for TLC: two clients' bodies, of one player   *)
(* or of two, and enough requests for a bet, its retry and a conflicting   *)
(* reuse of its key.                                                       *)
(***************************************************************************)
EXTENDS BetPlacement, TLC

CONSTANTS alice, bob, pa, pb, r1, r2, r3, k1, k2

MCRequests2 == {r1, r2}
MCRequests3 == {r1, r2, r3}
MCKeys1 == {k1}
MCKeys2 == {k1, k2}
MCPlayers == {alice, bob}
MCPayloads == {pa, pb}
MCPlayerOf == pa :> alice @@ pb :> bob
MCSamePlayer == pa :> alice @@ pb :> alice
MCAmountOf == pa :> 2 @@ pb :> 1

\* Requests, and keys, are interchangeable: Init treats them alike.
MCSymmetry == Permutations(Requests) \cup Permutations(Keys)
=============================================================================
