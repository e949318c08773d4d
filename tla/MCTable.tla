------------------------------ MODULE MCTable ------------------------------
(***************************************************************************)
(* A room as a player has it: its seats, sockets, bots and sessions         *)
(* (SeatHub), the money of its rounds (RoundMoney), and the page that shows  *)
(* it (GameClient) and bets in it (PageBets).  They share no state, since   *)
(* the page takes whatever view there has been: a behaviour is about one of *)
(* them.  For the money: three seats, two chips, every mix of no rake and a *)
(* rake that leaves remainders with no cap, a cap that binds at once and    *)
(* one that binds at a long shot.                                           *)
(***************************************************************************)
EXTENDS SeatHub, RoundMoney, GameClient, PageBets, TLC
CONSTANTS p1, p2, c1, c2, c3, b1
MCPlayers == {p1, p2}
MCConns == {c1, c2, c3}
MCBots == {b1}
MCConfigs == [rake_bps : {0, 1500}, max_win_cap : {0, 1, 2}]
\* What stands for sockets where seats are about stands for seats where money is; what stands for
\* players, for the refreshes and the calls of the page.
MCTableSymmetry == Permutations(MCConns) \cup Permutations(MCPlayers)

VARIABLE about
tableVars == <<about, hubVars, vars, gcVars, pbVars>>

TableInit ==
  /\ about \in {"seats", "money", "views", "bets"}
  /\ HubInit /\ Init /\ GcInit /\ PbInit
  /\ (about # "money" => config.max_win_cap = 0 /\ config.rake_bps = 0 /\ betSeq = 0)
  /\ (about # "bets" => pbPlaced[1] = 0)
TableNext ==
  /\ UNCHANGED about
  /\ \/ about = "seats" /\ HubNext /\ UNCHANGED <<vars, gcVars, pbVars>>
     \/ about = "money" /\ Next /\ UNCHANGED <<hubVars, gcVars, pbVars>>
     \/ about = "views" /\ GcNext /\ UNCHANGED <<hubVars, vars, pbVars>>
     \/ about = "bets" /\ PbNext /\ UNCHANGED <<hubVars, vars, gcVars>>
TableSpec == TableInit /\ [][TableNext]_tableVars

\* The player's page (client/game.js): a win is celebrated once, and what it shows as staked is.
PageSound == GcTypeOK /\ PbTypeOK /\ WinShownOnce /\ PageBetsSound
=============================================================================
