----------------------------- MODULE MCStaging -----------------------------
(***************************************************************************)
(* The staging deployment, where every request loads and saves what it      *)
(* needs: its room (StagingRoom), what its requests share besides           *)
(* (StagingShared), the PIN of its consoles (OperatorLogin), their lists    *)
(* (StagingEconomy), its provider keys (StagingKeys), its demo tables       *)
(* (DemoSessions) and its players' tokens (AdminSessions).  They share no   *)
(* state; a behaviour is about one of them.                                 *)
(***************************************************************************)
EXTENDS StagingRoom, StagingShared, OperatorLogin, StagingEconomy, StagingKeys,
        DemoSessions, AdminSessions, TLC

CONSTANTS x1, x2, x3, y1, y2, k1, k2

MCThree == {x1, x2, x3}
MCTwo == {y1, y2}
MCBetKeys == {k1, k2}
MCStake(k) == IF k = k1 THEN 2 ELSE 3
MCWin(k) == IF k = k1 THEN 1 ELSE 0
MCFields == {"enabled", "packages"}
MCBuilds == {"build1", "build2"}
MCEdits == {1, 2}
MCHolders == {"h1", "h2"}
MCAdjustKeys == {"k1", "k2"}
MCRowIds == {"row"}
MCAmounts == {0 - 2}
MCKeyIds == 1..2
MCDemoKinds == {"memory", "redis"}
MCSymmetry == Permutations(MCThree) \cup Permutations(MCTwo)

VARIABLE about

Rest(name) ==
  /\ UNCHANGED about
  /\ name # "room" => UNCHANGED stVars
  /\ name # "shared" => UNCHANGED sgVars
  /\ name # "login" => UNCHANGED olVars
  /\ name # "economy" => UNCHANGED ecVars
  /\ name # "keys" => UNCHANGED skVars
  /\ name # "demo" => UNCHANGED dsVars
  /\ name # "tokens" => UNCHANGED asVars

StagingInit ==
  /\ about \in {"room", "shared", "login", "economy", "keys", "demo", "tokens"}
  /\ StInit /\ SgInit /\ OlInit /\ EcInit /\ SkInit /\ DsInit /\ AsInit
  /\ (about # "demo" => dsKind = "memory")

StagingNext ==
  \/ about = "room" /\ StNext /\ Rest("room")
  \/ about = "shared" /\ SgNext /\ Rest("shared")
  \/ about = "login" /\ OlNext /\ Rest("login")
  \/ about = "economy" /\ EcNext /\ Rest("economy")
  \/ about = "keys" /\ SkNext /\ Rest("keys")
  \/ about = "demo" /\ DsNext /\ Rest("demo")
  \/ about = "tokens" /\ AsNext /\ Rest("tokens")

stagingVars == <<about, stVars, sgVars, olVars, ecVars, skVars, dsVars, asVars>>
StagingSpec == StagingInit /\ [][StagingNext]_stagingVars

StagingTypeOK ==
  StTypeOK /\ SgTypeOK /\ OlTypeOK /\ EcTypeOK /\ SkTypeOK /\ DsTypeOK /\ AsTypeOK

\* What staging's requests leave each other: settings, trails and test coins (staging/wsgi.py,
\* state.py), and the rows of the consoles (staging/economy.py).
StagingKept == SharedSafe /\ SerialLedgerExact

\* Who may do what, and for how long: the staging keys, their PIN and the requests signed with
\* them (provider/dynamic_keys.py, auth.py), the PIN of the consoles (operator_auth.py), demo
\* sessions (common/session.py), and the sessions and tokens that are minted and taken back
\* (provider/sessions.py, api.py).
AccessSafe == StagingKeysSafe /\ DemoSessionsSafe /\ AdminSessionsSafe /\ LoginSafe

\* The staging deployment, but for the money of its room (RoomMoneySafe).
StagingSafe == StagingKept /\ AccessSafe
=============================================================================
