---------------------------- MODULE StagingShared ----------------------------
(***************************************************************************)
(* What the requests of the staging deployment (staging/wsgi.py) share      *)
(* besides a room: the game's settings, its rules, the webhook settings,    *)
(* the audit trail, the log of deliveries and the test coins.  A request    *)
(* builds its services anew, loads the settings whole, sweeps the rooms     *)
(* that are due, runs its handler on what it loaded and saves everything    *)
(* back (_run_handler); some routes answer without saving.  What a room and *)
(* its lock do is StagingRoom; here the lock only refuses.                  *)
(***************************************************************************)
EXTENDS Naturals, Sequences, FiniteSets

CONSTANTS
  Visits,       \* bound: requests served
  Fields,       \* settings of the game: enabled, packages, localization
  Builds,       \* deployments, each with its default rules
  Nothing,      \* a key that was never set
  RowCap,       \* AUDIT_CAP, WEBHOOK_LOG_CAP
  MaxMishaps    \* bound: commands that raise and instances that stop

ASSUME SharedAssumption ==
  Nothing \notin Visits \cup Builds /\ RowCap \in Nat \ {0} /\ MaxMishaps \in Nat

VARIABLES
  sgSettings,  \* stg:handler: who last set each field
  sgRules,     \* stg:cfg: the build whose rules were saved
  sgHooks,     \* stg:webhooks: who last set them
  sgLogs,      \* stg:audit and stg:webhooks-log, newest first
  sgSeen,      \* the ids beside them
  sgFunded,    \* stg:funded: the player has had the welcome coins
  sgMarks,     \* keys of credits the wallet has taken
  sgCredits,   \* credits done under each key
  sgReq,       \* the requests
  sgBefore,    \* history: the requests that were over when this one began
  sgTorn,      \* history: requests of which a command raised, or that stopped
  sgLapsed     \* history: keys whose mark ran out
sgStored == <<sgSettings, sgRules, sgHooks, sgLogs, sgSeen, sgFunded, sgMarks, sgCredits>>
sgVars == <<sgSettings, sgRules, sgHooks, sgLogs, sgSeen, sgFunded, sgMarks, sgCredits,
            sgReq, sgBefore, sgTorn, sgLapsed>>

Coins == {"welcome", "grant"}
Logs == {"audit", "deliveries"}

SgInit ==
  /\ sgSettings = [f \in Fields |-> Nothing] /\ sgRules = Nothing /\ sgHooks = Nothing
  /\ sgLogs = [l \in Logs |-> <<>>] /\ sgSeen = {} /\ sgFunded = FALSE
  /\ sgMarks = {} /\ sgCredits = [k \in Coins |-> 0]
  /\ sgReq = <<>> /\ sgBefore = [i \in Visits |-> {}]
  /\ sgTorn = {} /\ sgLapsed = {}

Begun == DOMAIN sgReq
SgAt(i, at) == i \in Begun /\ sgReq[i].at = at
Over == {i \in Begun : sgReq[i].at \in {"done", "refused", "broken"}}
With(f, i, v) == [j \in DOMAIN f \cup {i} |-> IF j = i THEN v ELSE f[j]]
SgGoes(i, at) == sgReq' = [sgReq EXCEPT ![i].at = at]
SgKept(names) ==
  /\ "settings" \notin names => UNCHANGED sgSettings
  /\ "rules" \notin names => UNCHANGED sgRules
  /\ "hooks" \notin names => UNCHANGED sgHooks
  /\ "logs" \notin names => UNCHANGED sgLogs
  /\ "seen" \notin names => UNCHANGED sgSeen
  /\ "coins" \notin names => UNCHANGED <<sgFunded, sgMarks, sgCredits>>
  /\ UNCHANGED <<sgBefore, sgTorn, sgLapsed>>

(***************************************************************************)
(* The request begins, loads the settings and sweeps.  Only an edit has a   *)
(* field, and only who saves has use for its build's rules.                 *)
(***************************************************************************)
SgBegins(i, op) ==
  /\ i \notin Begun
  /\ \E f \in Fields, b \in Builds :
       /\ op # "edit" => f = CHOOSE g \in Fields : TRUE
       /\ op \notin {"look", "edit"} => b = CHOOSE c \in Builds : TRUE
       /\ sgReq' = With(sgReq, i, [op |-> op, at |-> "load", field |-> f, settings |-> sgSettings,
                                 rules |-> b, hooks |-> Nothing, rows |-> [l \in Logs |-> <<>>], log |-> "audit", next |-> 1,
                                 saving |-> FALSE])
  /\ sgBefore' = [sgBefore EXCEPT ![i] = Over]
  /\ UNCHANGED <<sgStored, sgTorn, sgLapsed>>

\* Three reads of three keys.
SgLoads(i) ==
  /\ SgAt(i, "load")
  /\ sgReq' = [sgReq EXCEPT ![i].at = "sweep", ![i].settings = sgSettings, ![i].hooks = sgHooks,
                            ![i].rules = IF sgRules = Nothing THEN @ ELSE sgRules]
  /\ SgKept({})

\* The rows an instance records are numbered from one: its audit log and its deliveries are its own.
Row(i, log) == [log |-> log, by |-> i, n |-> Len(sgReq[i].rows[log]) + 1,
                to |-> IF log = "audit" THEN Nothing ELSE sgReq[i].hooks]
WithRow(i, log) == [sgReq[i].rows EXCEPT ![log] = Append(@, Row(i, log))]

\* A due room is closed and settled: an audit row, and a delivery where the webhooks are set.
SweptRows(i) ==
  [l \in Logs |-> IF l = "audit" \/ sgReq[i].hooks # Nothing THEN <<Row(i, l)>> ELSE <<>>]

SgSweeps(i) ==
  /\ SgAt(i, "sweep")
  /\ \/ SgGoes(i, "handler")
     \/ sgReq' = [sgReq EXCEPT ![i].at = "check", ![i].rows = SweptRows(i)]
  /\ SgKept({})

(***************************************************************************)
(* spill_audit and spill_webhook_deliveries: each row is looked for, pushed *)
(* and noted.  An audit row is known by its number, a delivery by its own.  *)
(***************************************************************************)
IdOf(row) == [log |-> row.log, n |-> row.n, by |-> IF row.log = "audit" THEN Nothing ELSE row.by]
ToSpill(i) == sgReq[i].rows[sgReq[i].log]
RowDue(i) == ToSpill(i)[sgReq[i].next]

SgChecks(i) ==
  /\ SgAt(i, "check") /\ sgReq[i].next <= Len(ToSpill(i))
  /\ IF IdOf(RowDue(i)) \in sgSeen THEN sgReq' = [sgReq EXCEPT ![i].next = @ + 1] ELSE SgGoes(i, "push")
  /\ SgKept({})

SgPushes(i) ==
  /\ SgAt(i, "push")
  /\ sgLogs' = [sgLogs EXCEPT ![sgReq[i].log] = <<RowDue(i)>> \o @]
  /\ SgGoes(i, "note")
  /\ SgKept({"logs"})

SgNotes(i) ==
  /\ SgAt(i, "note")
  /\ sgSeen' = sgSeen \cup {IdOf(RowDue(i))}
  /\ sgReq' = [sgReq EXCEPT ![i].at = "check", ![i].next = @ + 1]
  /\ SgKept({"seen"})

Capped(log) == SubSeq(log, 1, IF Len(log) < RowCap THEN Len(log) ELSE RowCap)
\* The sweep spills the audit rows and leaves the deliveries to the end of the request.
SgTrims(i) ==
  LET req == sgReq[i] IN
  /\ SgAt(i, "check") /\ req.next > Len(ToSpill(i))
  /\ sgLogs' = IF ToSpill(i) = <<>> THEN sgLogs ELSE [sgLogs EXCEPT ![req.log] = Capped(@)]
  /\ sgReq' = [sgReq EXCEPT ![i].next = 1, ![i].log = IF req.saving THEN "deliveries" ELSE "audit",
                            ![i].at = CASE ~req.saving -> "handler"
                                        [] req.saving /\ req.log = "audit" -> "check"
                                        [] OTHER -> "done"]
  /\ SgKept({"logs"})

(***************************************************************************)
(* The handler, on what was loaded.  A setting is changed in memory, under  *)
(* the room lock that only the writes take.                                 *)
(***************************************************************************)
SgLooks(i) == SgAt(i, "handler") /\ sgReq[i].op = "look" /\ SgGoes(i, "settings") /\ SgKept({})

SgEdits(i) ==
  /\ SgAt(i, "handler") /\ sgReq[i].op = "edit"
  /\ sgReq' = [sgReq EXCEPT ![i].at = "settings", ![i].settings[sgReq[i].field] = i,
                            ![i].rows = WithRow(i, "audit")]
  /\ SgKept({})

SgBusy(i) == SgAt(i, "handler") /\ sgReq[i].op = "edit" /\ SgGoes(i, "refused") /\ SgKept({})

\* PUT webhooks/config stores its setting and an audit row under an id of its own, and answers
\* without saving.
SgHooksSet(i) ==
  /\ SgAt(i, "handler") /\ sgReq[i].op = "hook"
  /\ sgHooks' = i
  /\ SgGoes(i, "hookaudit")
  /\ SgKept({"hooks"})

SgHooksAudited(i) == SgAt(i, "hookaudit") /\ SgGoes(i, "done") /\ SgKept({})

(***************************************************************************)
(* Test coins: the first login of a player, and grants under a key of the   *)
(* caller's.  The wallet takes the key, then credits (RedisWallet._once).   *)
(***************************************************************************)
CoinOf(i) == IF sgReq[i].op = "login" THEN "welcome" ELSE "grant"
AfterCredit(i) == IF sgReq[i].op = "login" THEN "fund" ELSE "done"

SgLooksUp(i) ==
  /\ SgAt(i, "handler") /\ sgReq[i].op \in {"login", "grant"}
  /\ SgGoes(i, IF sgReq[i].op = "login" /\ sgFunded THEN "done" ELSE "mark")
  /\ SgKept({})

SgTakesKey(i) ==
  /\ SgAt(i, "mark")
  /\ sgMarks' = sgMarks \cup {CoinOf(i)}
  /\ SgGoes(i, IF CoinOf(i) \in sgMarks THEN AfterCredit(i) ELSE "credit")
  /\ UNCHANGED <<sgFunded, sgCredits>> /\ SgKept({"coins"})

\* The balance, its row and the key's last value.
SgPays(i) ==
  /\ SgAt(i, "credit")
  /\ sgCredits' = [sgCredits EXCEPT ![CoinOf(i)] = @ + 1]
  /\ SgGoes(i, AfterCredit(i))
  /\ UNCHANGED <<sgFunded, sgMarks>> /\ SgKept({"coins"})

SgFunds(i) ==
  /\ SgAt(i, "fund")
  /\ sgFunded' = TRUE
  /\ SgGoes(i, "done")
  /\ UNCHANGED <<sgMarks, sgCredits>> /\ SgKept({"coins"})

(***************************************************************************)
(* _save_all, after every request that reached the game's own handler.      *)
(***************************************************************************)
SgSavesSettings(i) ==
  /\ SgAt(i, "settings")
  /\ sgSettings' = sgReq[i].settings
  /\ SgGoes(i, "rules")
  /\ SgKept({"settings"})

SgSavesRules(i) ==
  /\ SgAt(i, "rules")
  /\ sgRules' = sgReq[i].rules
  /\ sgReq' = [sgReq EXCEPT ![i].at = "check", ![i].saving = TRUE]
  /\ SgKept({"rules"})

(***************************************************************************)
(* A command raises: in the sweep the request goes on; elsewhere it breaks  *)
(* off.  It is then refused, or answered as if nothing had happened (in the *)
(* save and the welcome); or the instance stops.  What it has stored stays. *)
(* A key's mark runs out in a day.                                          *)
(***************************************************************************)
Sweeping(i) == i \in Begun /\ sgReq[i].at \in {"check", "push", "note"} /\ ~sgReq[i].saving
Mishap(i) ==
  /\ i \in Begun \ (Over \cup sgTorn) /\ Cardinality(sgTorn) < MaxMishaps
  /\ sgTorn' = sgTorn \cup {i}
  /\ UNCHANGED <<sgStored, sgBefore, sgLapsed>>

SgSweepRaises(i) == Sweeping(i) /\ sgReq' = [sgReq EXCEPT ![i].next = 1, ![i].at = "handler"] /\ Mishap(i)
SgBreaksOff(i) == Mishap(i) /\ SgGoes(i, "broken")

SgLapses(k) ==
  /\ k \in sgMarks \ sgLapsed /\ \A i \in Begun : sgReq[i].at = "credit" => CoinOf(i) # k
  /\ sgMarks' = sgMarks \ {k} /\ sgLapsed' = sgLapsed \cup {k}
  /\ UNCHANGED <<sgSettings, sgRules, sgHooks, sgLogs, sgSeen, sgFunded, sgCredits, sgReq, sgBefore, sgTorn>>

SgNext ==
  \/ \E i \in Visits :
       \/ \E op \in {"look", "edit", "hook", "login", "grant"} : SgBegins(i, op)
       \/ SgLoads(i) \/ SgSweeps(i) \/ SgChecks(i) \/ SgPushes(i) \/ SgNotes(i) \/ SgTrims(i)
       \/ SgLooks(i) \/ SgEdits(i) \/ SgBusy(i) \/ SgHooksSet(i) \/ SgHooksAudited(i)
       \/ SgLooksUp(i) \/ SgTakesKey(i) \/ SgPays(i) \/ SgFunds(i)
       \/ SgSavesSettings(i) \/ SgSavesRules(i) \/ SgSweepRaises(i) \/ SgBreaksOff(i)
  \/ \E k \in Coins : SgLapses(k)

(***************************************************************************)
(* Properties.                                                              *)
(***************************************************************************)
Setter == Visits \cup {Nothing}
SgTypeOK ==
  /\ sgSettings \in [Fields -> Setter] /\ sgRules \in Builds \cup {Nothing} /\ sgHooks \in Setter
  /\ \A l \in Logs : sgLogs[l] \in Seq([log : {l}, by : Visits, n : Nat, to : Setter])
  /\ sgFunded \in BOOLEAN /\ sgMarks \subseteq Coins /\ sgCredits \in [Coins -> Nat]
  /\ sgBefore \in [Visits -> SUBSET Visits] /\ sgTorn \subseteq Visits /\ sgLapsed \subseteq Coins

Overlapped(i, j) == j \in Begun \ {i} /\ i \notin sgBefore[j] /\ j \notin sgBefore[i]
Saved(i) == SgAt(i, "done") /\ sgReq[i].op \in {"look", "edit"} /\ i \notin sgTorn

\* An edit that was answered and saved stays until a later edit of its field, unless some
\* request overlapped it: that one saved the settings as it had loaded them.
EditsStay ==
  \A i \in Begun :
    (Saved(i) /\ sgReq[i].op = "edit" /\ sgSettings[sgReq[i].field] # i) =>
      \/ \E j \in Begun : sgReq[j].op = "edit" /\ sgReq[j].field = sgReq[i].field /\ i \in sgBefore[j]
      \/ \E j \in Begun : Overlapped(i, j)

\* The rules a request saved are those every later request plays by, whatever its deployment's
\* own are, unless another request overlapped it.
RulesStay ==
  \A i \in Begun : Saved(i) => sgRules = sgReq[i].rules \/ \E j \in Begun : Overlapped(i, j)

\* A row is kept once, though the sweep and the save both spill it, unless its request broke off.
RowsOnce ==
  \A l \in Logs : \A k, m \in DOMAIN sgLogs[l] :
    (k # m /\ sgLogs[l][k] = sgLogs[l][m]) => sgLogs[l][k].by \in sgTorn

\* A saved request's row is missing only when the log is full or, for an audit row, when another
\* request's row bears its number.
RowsKept ==
  \A i \in Begun : Saved(i) =>
    \A l \in Logs : \A k \in DOMAIN sgReq[i].rows[l] :
      \/ \E m \in DOMAIN sgLogs[l] :
           sgLogs[l][m] = sgReq[i].rows[l][k] \/ (l = "audit" /\ sgLogs[l][m].n = k)
      \/ Len(sgLogs[l]) >= RowCap

\* A delivery goes where the settings said when its request began, or since.
DeliveriesFollow ==
  \A k \in DOMAIN sgLogs["deliveries"] :
    LET row == sgLogs["deliveries"][k] IN
    \A j \in sgBefore[row.by] :
      (sgReq[j].op = "hook" /\ sgReq[j].at = "done") => row.to # Nothing /\ (row.to = j \/ row.to \notin sgBefore[j])

\* The coins of a key are credited once, twice at most when its mark ran out; a player counted
\* as welcomed has the coins, is getting them, or the request that took the key broke off.
CoinsOnce ==
  /\ \A k \in Coins : sgCredits[k] <= 1 + Cardinality(sgLapsed \cap {k})
  /\ sgFunded => \/ sgCredits["welcome"] > 0
                 \/ \E i \in Begun : sgReq[i].op = "login" /\ (sgReq[i].at = "credit" \/ i \in sgTorn)

\* What staging's requests leave each other.
SharedSafe == EditsStay /\ RulesStay /\ RowsOnce /\ RowsKept /\ DeliveriesFollow /\ CoinsOnce
=============================================================================
