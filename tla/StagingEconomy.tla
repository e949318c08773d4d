--------------------------- MODULE StagingEconomy ---------------------------
(***************************************************************************)
(* The staging consoles' economy (staging/economy.py): operators, keys,    *)
(* locked fields, currencies, devices, players, wallets and transactions   *)
(* are Redis lists that a request reads whole, changes in memory and       *)
(* writes back row by row.  Each request is a function instance; nothing   *)
(* keeps two apart, and one may stop between two commands.                 *)
(***************************************************************************)
EXTENDS Integers, SequencesExt

CONSTANTS
  Edits,        \* bound: requests served
  Holders,      \* players with a wallet
  AdjustKeys,   \* idempotency_keys of adjustments
  RowIds,       \* rows of a console's list
  SeedBalance,         \* a wallet's first balance
  Amounts       \* what an adjustment adds, negative for a debit

ASSUME EconomyAssumption == SeedBalance \in Nat /\ Amounts \subseteq Int \ {0} /\ IsFiniteSet(Holders)

VARIABLES
  ecReq,      \* a request
  ecAt,       \* where it is
  ecWrite,    \* rows it has yet to push
  ecWallets,  \* the wallets list, newest first
  ecRows,     \* any other list, newest first: ids of its rows
  ecTrans,    \* the transactions list, newest first
  ecAudit,    \* history: requests audited
  ecOverlap   \* history: two requests overlapped, or one stopped

ecVars == <<ecReq, ecAt, ecWrite, ecWallets, ecRows, ecTrans, ecAudit, ecOverlap>>

EcInit ==
  /\ ecReq = [i \in Edits |-> [op |-> "none"]]
  /\ ecAt = [i \in Edits |-> "idle"] /\ ecWrite = [i \in Edits |-> <<>>]
  /\ ecWallets = SetToSeq({[of |-> p, balance |-> SeedBalance, frozen |-> FALSE] : p \in Holders})
  /\ ecRows = <<>> /\ ecTrans = <<>> /\ ecAudit = {} /\ ecOverlap = FALSE

\* An operator's console: adjust and freeze wallets, put the currency and the coin config,
\* change a player.
OperatorRequests ==
  [op : {"adjust"}, of : Holders, key : AdjustKeys, amount : Amounts]
  \cup [op : {"freeze", "unfreeze"}, of : Holders]
  \cup [op : {"put", "change"}, of : RowIds]

\* The platform's: operators, API keys, locked fields, currencies, devices.
SuperadminRequests == [op : {"put", "change", "delete"}, of : RowIds]

OnWallets(req) == req.op \in {"adjust", "freeze", "unfreeze"}

\* _find: the first row that matches.
Found(rows, id) == {k \in DOMAIN rows : rows[k].of = id /\ \A j \in 1..k - 1 : rows[j].of # id}
Others(rows, id) ==
  LET kept[n \in 0..Len(rows)] ==
        IF n = 0 THEN <<>> ELSE IF rows[n].of = id THEN kept[n - 1] ELSE Append(kept[n - 1], rows[n])
  IN  kept[Len(rows)]
TheRow(rows, id) == rows[CHOOSE k \in Found(rows, id) : TRUE]

\* The rows a request writes, from the list as it read it: "write" where it goes ahead.
Decided(i, rows) ==
  LET req == ecReq[i]
      old == TheRow(rows, req.of)
  IN  CASE req.op = "put" -> Append(Others(rows, req.of), [of |-> req.of])
        [] req.op = "change" -> Append(Others(rows, req.of), old)
        [] req.op = "delete" -> Others(rows, req.of)
        [] req.op = "adjust" -> Append(Others(rows, req.of), [old EXCEPT !.balance = @ + req.amount])
        [] OTHER -> Append(Others(rows, req.of), [old EXCEPT !.frozen = (req.op = "freeze")])

EcStep(i, from, to) == ecAt[i] = from /\ ecAt' = [ecAt EXCEPT ![i] = to]
EcBusy(i) == ecAt[i] \notin {"idle", "done", "stopped"}

\* LRANGE: the list, or 404.
EcReads(i) ==
  \E req \in OperatorRequests \cup SuperadminRequests :
    LET rows == IF OnWallets(req) THEN ecWallets ELSE ecRows
    IN  /\ ecReq' = [ecReq EXCEPT ![i] = req]
        /\ EcStep(i, "idle", IF req.op # "put" /\ Found(rows, req.of) = {} THEN "done"
                             ELSE IF req.op = "adjust" THEN "lookup" ELSE "decide")
        /\ ecWrite' = [ecWrite EXCEPT ![i] = rows]
        /\ ecOverlap' = (ecOverlap \/ \E j \in Edits \ {i} : EcBusy(j))
        /\ UNCHANGED <<ecWallets, ecRows, ecTrans, ecAudit>>

AdjustAnswered(req) == \E k \in DOMAIN ecTrans : ecTrans[k].key = req.key

\* Mutant: a debit may take what is not there.
OverdraftsTaken(balance, amount) == balance \in Nat

Covers(balance, amount) == balance + amount >= 0

\* An adjustment reads the transactions: one under its key is answered again, and a debit
\* larger than the balance is refused.  A frozen wallet is adjusted like any other.
EcLooksUp(i) ==
  LET req == ecReq[i]
  IN  /\ EcStep(i, "lookup", IF AdjustAnswered(req) \/ ~Covers(TheRow(ecWrite[i], req.of).balance, req.amount)
                             THEN "done" ELSE "decide")
      /\ UNCHANGED <<ecReq, ecWrite, ecWallets, ecRows, ecTrans, ecAudit, ecOverlap>>

\* Mutant: the rows are pushed on top of the list as it is.
NotCleared(rows) == rows

Cleared(rows) == <<>>

AfterWrite(i, rows) == IF rows # <<>> THEN "push" ELSE IF ecReq[i].op = "adjust" THEN "append" ELSE "audit"

\* _write_list: DEL, and one LPUSH a row.
EcClears(i) ==
  LET rows == Decided(i, ecWrite[i])
  IN  /\ EcStep(i, "decide", AfterWrite(i, rows))
      /\ ecWrite' = [ecWrite EXCEPT ![i] = rows]
      /\ IF OnWallets(ecReq[i]) THEN ecWallets' = Cleared(ecWallets) /\ UNCHANGED ecRows
                                ELSE ecRows' = Cleared(ecRows) /\ UNCHANGED ecWallets
      /\ UNCHANGED <<ecReq, ecTrans, ecAudit, ecOverlap>>

EcPushes(i) ==
  LET row == Head(ecWrite[i])
  IN  /\ EcStep(i, "push", AfterWrite(i, Tail(ecWrite[i])))
      /\ ecWrite' = [ecWrite EXCEPT ![i] = Tail(@)]
      /\ IF OnWallets(ecReq[i]) THEN ecWallets' = <<row>> \o ecWallets /\ UNCHANGED ecRows
                                ELSE ecRows' = <<row>> \o ecRows /\ UNCHANGED ecWallets
      /\ UNCHANGED <<ecReq, ecTrans, ecAudit, ecOverlap>>

\* _append: the transaction's row.
EcAppends(i) ==
  /\ EcStep(i, "append", "audit")
  /\ ecTrans' = <<ecReq[i]>> \o ecTrans
  /\ UNCHANGED <<ecReq, ecWrite, ecWallets, ecRows, ecAudit, ecOverlap>>

EcAudits(i) ==
  /\ EcStep(i, "audit", "done")
  /\ ecAudit' = ecAudit \cup {i}
  /\ UNCHANGED <<ecReq, ecWrite, ecWallets, ecRows, ecTrans, ecOverlap>>

EcStops(i) ==
  /\ EcBusy(i) /\ ecAt' = [ecAt EXCEPT ![i] = "stopped"] /\ ecOverlap' = TRUE
  /\ UNCHANGED <<ecReq, ecWrite, ecWallets, ecRows, ecTrans, ecAudit>>

EcNext ==
  \E i \in Edits :
    \/ EcReads(i) \/ EcLooksUp(i) \/ EcClears(i) \/ EcPushes(i)
    \/ EcAppends(i) \/ EcAudits(i) \/ EcStops(i)

EcSpec == EcInit /\ [][EcNext]_ecVars

-----------------------------------------------------------------------------
WalletRow == [of : Holders, balance : Nat, frozen : BOOLEAN]

EcTypeOK ==
  /\ ecAt \in [Edits -> {"idle", "lookup", "decide", "push", "append", "audit", "done", "stopped"}]
  /\ ecWallets \in Seq(WalletRow) /\ ecRows \in Seq([of : RowIds])
  /\ ecTrans \in Seq([op : {"adjust"}, of : Holders, key : AdjustKeys, amount : Amounts])
  /\ ecAudit \subseteq Edits /\ ecOverlap \in BOOLEAN

Adjusted(p) == SumFunction([k \in DOMAIN ecTrans |-> IF ecTrans[k].of = p THEN ecTrans[k].amount ELSE 0])

\* Between requests that neither overlapped nor stopped, every player has one wallet, its
\* balance is the seed and the transactions', and a key has one transaction.
SerialLedgerExact ==
  ~ecOverlap /\ (\A i \in Edits : ~EcBusy(i)) =>
    /\ \A p \in Holders :
         /\ Cardinality({k \in DOMAIN ecWallets : ecWallets[k].of = p}) = 1
         /\ TheRow(ecWallets, p).balance = SeedBalance + Adjusted(p)
    /\ \A j, k \in DOMAIN ecTrans : ecTrans[j].key = ecTrans[k].key => j = k

\* The same without its premise: what two overlapping adjustments, or one stopped half way, break.
LedgerExact ==
  (\A i \in Edits : ~EcBusy(i)) =>
    \A p \in Holders : Found(ecWallets, p) # {} /\ TheRow(ecWallets, p).balance = SeedBalance + Adjusted(p)
=============================================================================
