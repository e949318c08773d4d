---------------------------- MODULE MCSettlement ----------------------------
(***************************************************************************)
(* Instances of Settlement for TLC.                                        *)
(***************************************************************************)
EXTENDS Settlement

CONSTANTS sweeper, pump, op1

MCOneOperator == {op1}
MCOneBet == {1}
MCTwoBets == {1, 2}
=============================================================================
