---------------------------- MODULE ConfigStore ----------------------------
(***************************************************************************)
(* The admin console's store (common/admin_store.py) and the sweeper that  *)
(* applies scheduled changes (common/config_scheduler.py).  The process    *)
(* has one PostgresAdminStore and build_admin_store gives it one database  *)
(* connection, so every HTTP thread and the sweeper run their statements   *)
(* in one transaction: a commit saves what all of them wrote, a rollback   *)
(* drops it.  psycopg runs one statement at a time.                        *)
(*                                                                         *)
(* A statement maps the tables to the tables it leaves; NoTables stands    *)
(* for one the database refuses (the keys of db/migrations 005-008).       *)
(***************************************************************************)
EXTENDS Integers, Sequences, FiniteSets

CONSTANTS
  AdminThreads,  \* HTTP threads of the console
  Sweepers,      \* threads in apply_due_changes: the timer, POST scheduled-changes/apply
  Changes,       \* bound: change_ids
  ChangeTarget(_), \* what a change asks for
  Labels,        \* bound: versions of a game's rules
  MaxJobs,       \* bound: console requests and sweeps served
  NoTables

\* The handlers of config_scheduler._handlers.
HandlerOps == {"put_settings", "save_profit_risk", "create_package", "update_package", "set_game_enabled"}

ASSUME ConfigAssumption ==
  AdminThreads \cap Sweepers = {} /\ MaxJobs \in Nat /\ \A c \in Changes : ChangeTarget(c) \in HandlerOps

VARIABLES
  csSaved,   \* the tables as last committed
  csOpen,    \* the tables as the connection's transaction sees them
  csBroken,  \* the transaction failed and was not rolled back: statements raise
  csJob,     \* what a thread is doing
  csNext,    \* its next statement, 0 between jobs
  csDue,     \* the rows a sweeper read as due and has not come to
  csJobs,    \* bound: jobs served
  csRuns     \* history: how often a change's handler ran to its end

csVars == <<csSaved, csOpen, csBroken, csJob, csNext, csDue, csJobs, csRuns>>

Workers == AdminThreads \cup Sweepers
NoJob == [op |-> "none", on |-> "none"]
JobOp(name, on) == [op |-> name, on |-> on]

\* What the console's routes ask of the store, by HTTP method, and the operations of the store
\* that no route calls yet.
RulePosts ==
  {JobOp("rollback_game_config", v) : v \in Labels} \cup {JobOp("create_scheduled_change", c) : c \in Changes}
RecordPosts ==
  {JobOp(o, "none") : o \in {"create_player_override", "create_package", "set_game_enabled"}}
Puts ==
  {JobOp(o, "none") : o \in {"save_profit_risk", "set_player_appearance", "put_settings", "update_package"}}
  \cup {JobOp("put_game_rules", v) : v \in Labels}
Deletes ==
  {JobOp(o, "none") : o \in {"archive_package", "revoke_player_override"}}
  \cup {JobOp("cancel_scheduled_change", c) : c \in Changes}
Unrouted ==
  {JobOp(o, "none") : o \in {"create_withdrawal_request", "set_withdrawal_status", "upsert_vip_tier"}}

\* The statements of each operation between its cursor and its commit.
Statements(op) ==
  CASE op = "save_profit_risk" -> <<"read edge", "retire edge", "insert edge">>
    [] op = "put_settings" -> <<"upsert settings", "upsert settings">>
    [] op = "set_game_enabled" -> <<"upsert settings", "flip game">>
    [] op = "put_game_rules" -> <<"retire rules", "upsert rules">>
    [] op = "rollback_game_config" -> <<"read rules", "insert copy">>
    [] OTHER -> <<op>>

CSInit ==
  /\ csSaved = [edge |-> "active", rules |-> [v \in Labels |-> "absent"], package |-> "absent",
                override |-> "absent", withdrawal |-> "absent", game |-> "live",
                status |-> [c \in Changes |-> "absent"]]
  /\ csOpen = csSaved /\ csBroken = FALSE
  /\ csJob = [w \in Workers |-> NoJob] /\ csNext = [w \in Workers |-> 0]
  /\ csDue = [w \in Workers |-> {}] /\ csJobs = 0 /\ csRuns = [c \in Changes |-> 0]

When(guard, tables) == IF guard THEN tables ELSE NoTables
MarkIf(T, c, old, new) == IF T.status[c] = old THEN [T EXCEPT !.status[c] = new] ELSE T
Retired(T) == [v \in Labels |-> IF T.rules[v] = "active" THEN "retired" ELSE T.rules[v]]

\* What a statement makes of the tables T.  A package, an override and a request are keyed
\* by their id.
PackagesAfter(stmt, T) ==
  CASE stmt = "create_package" -> When(T.package = "absent", [T EXCEPT !.package = "active"])
    [] stmt = "update_package" -> When(T.package # "absent", T)
    [] OTHER -> [T EXCEPT !.package = IF @ = "active" THEN "archived" ELSE @]

\* profit_risk_config is keyed by config_id alone, and every row says 'default'.
EdgesAfter(stmt, T) ==
  IF stmt = "retire edge" THEN [T EXCEPT !.edge = IF @ = "active" THEN "retired" ELSE @]
                          ELSE When(T.edge = "absent", [T EXCEPT !.edge = "active"])

OverridesAfter(stmt, T) ==
  IF stmt = "create_player_override" THEN When(T.override = "absent", [T EXCEPT !.override = "live"])
                                     ELSE [T EXCEPT !.override = IF @ = "live" THEN "revoked" ELSE @]

WithdrawalsAfter(stmt, T) ==
  IF stmt = "create_withdrawal_request" THEN When(T.withdrawal = "absent", [T EXCEPT !.withdrawal = "PENDING"])
                                        ELSE When(T.withdrawal # "absent", [T EXCEPT !.withdrawal = "decided"])

Flipped(T) == [T EXCEPT !.game = IF @ = "live" THEN "disabled" ELSE "live"]

\* One version of a game's rules is active.
RulesSaved(on, T) == When(\A v \in Labels \ {on} : T.rules[v] # "active", [T EXCEPT !.rules[on] = "active"])

Scheduled(c, T) == When(T.status[c] = "absent", MarkIf(T, c, "absent", "PENDING"))

Marked(stmt) ==
  CASE stmt = "cancel_scheduled_change" -> "CANCELLED" [] stmt = "mark_scheduled_applied" -> "APPLIED"
    [] OTHER -> "FAILED"

\* Mutant: a change that is not cancelled is marked.
MarkUncancelled(stmt, c, T) ==
  IF T.status[c] \in {"absent", "CANCELLED"} THEN T ELSE [T EXCEPT !.status[c] = Marked(stmt)]

\* cancel, mark_applied and mark_failed touch a PENDING row only.
Mark(stmt, c, T) == MarkIf(T, c, "PENDING", Marked(stmt))

MarkOps == {"cancel_scheduled_change", "mark_scheduled_applied", "mark_scheduled_failed"}

\* game_configuration wants a config_version, which rollback_game_config's copy leaves out.
TablesAfter(stmt, on, T) ==
  CASE stmt \in MarkOps -> Mark(stmt, on, T)
    [] stmt \in {"create_package", "update_package", "archive_package"} -> PackagesAfter(stmt, T)
    [] stmt \in {"retire edge", "insert edge"} -> EdgesAfter(stmt, T)
    [] stmt \in {"create_player_override", "revoke_player_override"} -> OverridesAfter(stmt, T)
    [] stmt \in {"create_withdrawal_request", "set_withdrawal_status"} -> WithdrawalsAfter(stmt, T)
    [] stmt = "flip game" -> Flipped(T)
    [] stmt = "retire rules" -> [T EXCEPT !.rules = Retired(T)]
    [] stmt = "upsert rules" -> RulesSaved(on, T)
    [] stmt = "read rules" -> When(T.rules[on] # "absent", T)
    [] stmt = "insert copy" -> NoTables
    [] stmt = "create_scheduled_change" -> Scheduled(on, T)
    [] OTHER -> T

JobAnswered(w) ==
  /\ csJob' = [csJob EXCEPT ![w] = IF w \in Sweepers THEN JobOp("sweep", "none") ELSE NoJob]
  /\ csNext' = [csNext EXCEPT ![w] = 0]

\* One statement of a job.  A cursor taken when the transaction is broken opens another
\* connection, which drops what the old one had not committed.
StatementRuns(w) ==
  LET job == csJob[w]
      first == csNext[w] = 1
      base == IF first /\ csBroken THEN csSaved ELSE csOpen
      after == IF csBroken /\ ~first THEN NoTables
               ELSE TablesAfter(Statements(job.op)[csNext[w]], job.on, base)
  IN  /\ csNext[w] \in 1..Len(Statements(job.op))
      /\ csOpen' = IF after = NoTables THEN base ELSE after
      /\ csBroken' = (after = NoTables)
      /\ csNext' = [csNext EXCEPT ![w] = IF after = NoTables THEN 0 - 1 ELSE @ + 1]
      /\ UNCHANGED <<csSaved, csJob, csDue, csJobs, csRuns>>

JobServed(w) ==
  csNext[w] > 0 /\ csNext[w] = Len(Statements(csJob[w].op)) + 1

\* _commit: with nothing of its own left to save, when another thread rolled back, it
\* succeeds all the same.  On a broken transaction it saves nothing.
ConsoleCommits(w) ==
  /\ JobServed(w) /\ w \in AdminThreads
  /\ csSaved' = IF csBroken THEN csSaved ELSE csOpen
  /\ csOpen' = csSaved' /\ csBroken' = FALSE
  /\ JobAnswered(w)
  /\ UNCHANGED <<csDue, csJobs, csRuns>>

ConsoleRollsBack(w) ==
  /\ csNext[w] < 0 /\ w \in AdminThreads
  /\ csOpen' = csSaved /\ csBroken' = FALSE
  /\ JobAnswered(w)
  /\ UNCHANGED <<csSaved, csDue, csJobs, csRuns>>

\* _admin_write: a console request takes the store.
JobRequested(w, job) ==
  /\ csJobs < MaxJobs /\ csJob[w] = NoJob
  /\ csJobs' = csJobs + 1
  /\ csJob' = [csJob EXCEPT ![w] = job] /\ csNext' = [csNext EXCEPT ![w] = 1]
  /\ UNCHANGED <<csSaved, csOpen, csBroken, csDue, csRuns>>

-----------------------------------------------------------------------------
(* apply_due_changes.  A sweeper's job names the change it is at.          *)

\* due_scheduled_changes: PostgresAdminStore has no claiming read.
SweepStarts(w) ==
  LET base == IF csBroken THEN csSaved ELSE csOpen
  IN  /\ csJobs < MaxJobs /\ csJob[w] = NoJob
      /\ csDue' = [csDue EXCEPT ![w] = {c \in Changes : base.status[c] = "PENDING"}]
      /\ csOpen' = base /\ csBroken' = FALSE
      /\ csJobs' = csJobs + 1
      /\ csJob' = [csJob EXCEPT ![w] = JobOp("sweep", "none")]
      /\ UNCHANGED <<csSaved, csNext, csRuns>>

\* The next row of those read, whatever its status is now.
SweepTakes(w, c) ==
  /\ csJob[w].op = "sweep" /\ c \in csDue[w]
  /\ csDue' = [csDue EXCEPT ![w] = @ \ {c}]
  /\ csJob' = [csJob EXCEPT ![w] = JobOp(ChangeTarget(c), c)]
  /\ csNext' = [csNext EXCEPT ![w] = 1]
  /\ UNCHANGED <<csSaved, csOpen, csBroken, csJobs, csRuns>>

SweepEnds(w) ==
  /\ csJob[w].op = "sweep" /\ csDue[w] = {}
  /\ csJob' = [csJob EXCEPT ![w] = NoJob]
  /\ UNCHANGED <<csSaved, csOpen, csBroken, csNext, csDue, csJobs, csRuns>>

\* The handler commits or rolls back, and its row is marked next.
HandlerEnds(w) ==
  LET good == JobServed(w)
      mark == IF good THEN "mark_scheduled_applied" ELSE "mark_scheduled_failed"
  IN  /\ w \in Sweepers /\ csJob[w].op \in HandlerOps /\ (good \/ csNext[w] < 0)
      /\ csSaved' = IF good /\ ~csBroken THEN csOpen ELSE csSaved
      /\ csOpen' = csSaved' /\ csBroken' = FALSE
      /\ csRuns' = IF good THEN [csRuns EXCEPT ![csJob[w].on] = @ + 1] ELSE csRuns
      /\ csJob' = [csJob EXCEPT ![w] = JobOp(mark, @.on)] /\ csNext' = [csNext EXCEPT ![w] = 1]
      /\ UNCHANGED <<csDue, csJobs>>

\* The mark commits, or fails and leaves the row PENDING for the next sweep.
MarkEnds(w) ==
  /\ w \in Sweepers /\ csJob[w].op \in MarkOps /\ (JobServed(w) \/ csNext[w] < 0)
  /\ csSaved' = IF JobServed(w) /\ ~csBroken THEN csOpen ELSE csSaved
  /\ csOpen' = csSaved' /\ csBroken' = FALSE
  /\ JobAnswered(w)
  /\ UNCHANGED <<csDue, csJobs, csRuns>>

CSNext ==
  \/ \E w \in AdminThreads :
       \/ ConsoleCommits(w) \/ ConsoleRollsBack(w)
       \/ \E job \in RulePosts \cup RecordPosts \cup Puts \cup Deletes \cup Unrouted : JobRequested(w, job)
  \/ \E w \in Workers : StatementRuns(w)
  \/ \E w \in Sweepers :
       \/ SweepStarts(w) \/ SweepEnds(w) \/ HandlerEnds(w) \/ MarkEnds(w)
       \/ \E c \in Changes : SweepTakes(w, c)

CSSpec == CSInit /\ [][CSNext]_csVars

-----------------------------------------------------------------------------
Tables ==
  [edge : {"absent", "active", "retired"}, rules : [Labels -> {"absent", "active", "retired"}],
   package : {"absent", "active", "archived"}, override : {"absent", "live", "revoked"},
   withdrawal : {"absent", "PENDING", "decided"}, game : {"live", "disabled"},
   status : [Changes -> {"absent", "PENDING", "APPLIED", "FAILED", "CANCELLED"}]]

CSTypeOK ==
  /\ csSaved \in Tables /\ csOpen \in Tables /\ csBroken \in BOOLEAN
  /\ csNext \in [Workers -> (0 - 1)..4] /\ csDue \in [Workers -> SUBSET Changes]
  /\ csJobs \in 0..MaxJobs /\ csRuns \in [Changes -> Nat]

\* What became of a change is final, whichever of the sweepers, the cancelling operator and the
\* other threads' commits and rollbacks comes last.
StatusFinal ==
  [][\A c \in Changes :
       csSaved.status[c] \in {"APPLIED", "FAILED", "CANCELLED"} =>
         csSaved'.status[c] = csSaved.status[c]]_csVars

\* "safe to run from several processes at once ... only the process whose UPDATE affected a row
\* goes on to apply it" (config_scheduler.py): no change is applied twice.
AppliedOnce == \A c \in Changes : csRuns[c] <= 1
=============================================================================
