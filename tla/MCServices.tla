----------------------------- MODULE MCServices -----------------------------
(***************************************************************************)
(* The stores and services around the game.  They share no state, so that  *)
(* what one of them does says nothing of another: a behaviour picks one of *)
(* them and runs it alone, interleaved with itself.                        *)
(***************************************************************************)
EXTENDS ProviderWallet, ProviderTables, SharedStores, ConfigStore, PlayWallets, CardRanking,
        PayoutRows, RoundEvents, BotBets, RoomLives, TLC

CONSTANTS x1, x2, x3, a1, a2, s1, s2, ch1, v1, v2

MCCalls == {x1, x2, x3}
MCPlayers == {"u1", "u2"}
MCRedisKeys == {"q1", "q2"}
MCRedisCalls == {1, 2}
MCAdminThreads == {a1, a2}
MCSweepers == {s1, s2}
MCTables == {"t1", "t2"}
MCChanges == {ch1}
MCLabels == {v1, v2}
MCChangeTarget(c) == "create_package"
MCNames == 1..3
MCRequests ==
  {[op |-> q[1], key |-> q[2], ref |-> q[3], player |-> "p"] :
     q \in {<<"debit", 1, 1>>, <<"debit", 1, 2>>, <<"debit", 2, 1>>, <<"credit", 2, 1>>,
             <<"rollback", 1, 1>>, <<"rollback", 2, 1>>, <<"rollback", 3, 1>>, <<"rollback", 2, 2>>}}
  \cup {[op |-> "rollback", key |-> 3, ref |-> 1, player |-> "q"]}
MCPlayKinds == {"memory", "demo", "mock"}
MCPlayRequests ==
  {[op |-> q[1], key |-> q[2], amount |-> q[3]] :
     q \in {<<"debit", 1, 2>>, <<"debit", 2, 1>>, <<"credit", 3, 3>>, <<"credit", 1, 3>>,
             <<"rollback", 1, 0>>, <<"rollback", 3, 0>>, <<"fund", 9, 1>>}}
MCWorkers == {"w1", "w2"}
MCRoundBets == <<"b1", "b2">>
\* What the workers computed differs, as it does while a deployment is rolled out.
MCComputed(w, b) == (IF b = "b1" THEN 3 ELSE 0) + (IF w = "w1" THEN 0 ELSE 1)
MCRanks == <<2, 3, 4, 12, 13, 14>>
MCSeatsDealt == {"A", "B"}
MCDealt == {<<2, "S">>, <<3, "S">>, <<12, "H">>, <<13, "S">>, <<14, "H">>}
MCDeals ==
  {[plain |-> p, jokers |-> 3 - Cardinality(p)] : p \in {q \in SUBSET MCDealt : Cardinality(q) < 3}}
  \cup {[plain |-> p, jokers |-> 0] :
          p \in {{<<14, "C">>, <<2, "C">>, <<3, "C">>}, {<<14, "C">>, <<2, "D">>, <<3, "D">>},
                 {<<13, "C">>, <<13, "D">>, <<3, "H">>}, {<<2, "C">>, <<2, "D">>, <<2, "H">>},
                 {<<12, "C">>, <<13, "C">>, <<14, "D">>}, {<<4, "C">>, <<13, "C">>, <<2, "C">>}}}
MCOrders == {<<"high", "pair", "color", "seq", "pure_seq", "trail">>,
             <<"trail", "high", "pair", "color", "seq", "pure_seq">>}
MCTableBots == {"bot1", "bot2"}
MCChips == {20}
MCBotSeats == {"A"}
MCPays == {0, 2}
MCSymmetry == Permutations(MCCalls)

VARIABLE service

Frozen(name) ==
  /\ UNCHANGED service
  /\ name # "wallet" => UNCHANGED pwVars
  /\ name # "tables" => UNCHANGED ptVars
  /\ name # "stores" => UNCHANGED rsVars
  /\ name # "config" => UNCHANGED csVars
  /\ name # "play" => UNCHANGED plVars
  /\ name # "cards" => UNCHANGED crVars
  /\ name # "payouts" => UNCHANGED prVars
  /\ name # "events" => UNCHANGED reVars
  /\ name # "botbets" => UNCHANGED bbVars
  /\ name # "lives" => UNCHANGED rlVars

SvInit ==
  /\ service \in {"wallet", "tables", "stores", "config", "play", "cards", "payouts", "events",
                 "botbets", "lives"}
  /\ PWInit /\ PtInit /\ RsInit /\ CSInit /\ PlInit /\ CrInit /\ PrInit
  /\ ReInit /\ BbInit /\ RlInit
  /\ (service # "play" => plKind = "memory")

SvNext ==
  \/ service = "wallet" /\ PWNext /\ Frozen("wallet")
  \/ service = "tables" /\ PtNext /\ Frozen("tables")
  \/ service = "stores" /\ RsNext /\ Frozen("stores")
  \/ service = "config" /\ CSNext /\ Frozen("config")
  \/ service = "play" /\ PlNext /\ Frozen("play")
  \/ service = "cards" /\ CrNext /\ Frozen("cards")
  \/ service = "payouts" /\ PrNext /\ Frozen("payouts")
  \/ service = "events" /\ ReNext /\ Frozen("events")
  \/ service = "botbets" /\ BbNext /\ Frozen("botbets")
  \/ service = "lives" /\ RlNext /\ Frozen("lives")

svVars == <<service, pwVars, ptVars, rsVars, csVars, plVars, crVars, prVars, reVars, bbVars, rlVars>>
SvSpec == SvInit /\ [][SvNext]_svVars

ServicesTypeOK ==
  /\ PWTypeOK /\ PtTypeOK /\ RsTypeOK /\ CSTypeOK
  /\ PlTypeOK /\ CrTypeOK /\ PrTypeOK
  /\ ReTypeOK /\ BbTypeOK /\ RlTypeOK

\* The money of the game's own wallets (common/wallet.py, integrations/), of a round that several
\* processes settle (common/settlement_postgres.py), and of a room that begins anew (service.py).
WalletsSafe == PlayMoneySafe /\ PayoutRowsSafe /\ RoomLivesSafe

\* A debit of the provider API is rolled back once, and a key has one answer (provider/ledger.py).
ProviderMoneySafe == RefundedOnce /\ OneAnswerPerKey
=============================================================================
