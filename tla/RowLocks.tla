------------------------------ MODULE RowLocks ------------------------------
(***************************************************************************)
(* The statements inside the service's transactions and PostgreSQL's row     *)
(* locks at READ COMMITTED: what PaymentRail takes for one action is here a  *)
(* sequence of statements that transactions of other callers come between.  *)
(*                                                                          *)
(* A plain SELECT reads what is committed and waits for nobody.  SELECT FOR *)
(* UPDATE waits for the row.  An UPDATE looks for its row in what is         *)
(* committed when it starts, waits for the row if it finds it, and then      *)
(* evaluates its WHERE again on the newest version.  The foreign keys of the *)
(* ledger's INSERT lock the accounts FOR KEY SHARE, which an UPDATE of other *)
(* columns does not conflict with.  A transaction sees its own writes; the   *)
(* others see them, and get its locks, when it ends.                        *)
(***************************************************************************)
EXTENDS PaymentRail

CONSTANT Sessions     \* the connections of the pool that callers of the operations hold

VARIABLE tx           \* tx[s]: the transaction that is open on s

lockVars == <<vars, tx>>

\* op, payment: whose call it is; at: the statement it is at; row: the payment's row as
\* it wrote it; funds, holds: what it has added to each account's balance and
\* reserved_balance; locks: the rows (and the value of a unique column) it has locked.
NoTx == [op |-> "none", payment |-> "", at |-> "none", row |-> NoRow,
         funds |-> [a \in Accounts |-> 0], holds |-> [a \in Accounts |-> 0], locks |-> {}]

PaymentLock(r) == <<"payment", r>>
AccountLock(a) == <<"account", a>>
UETRLock(r)    == <<"uetr", Doc[r].UETR>>

\* The status that each operation checks for once it has the payment's row.
Precondition == [clear |-> "validated", accept |-> "awaiting_response",
                 reject |-> "awaiting_response", settle |-> "accepted"]

Operations == {"submit"} \cup DOMAIN Precondition

LocksInit == Init /\ tx = [s \in Sessions |-> NoTx]

-----------------------------------------------------------------------------
(* What a transaction sees, waits for and leaves                            *)

OwnBalance(s)  == [a \in Accounts |-> balance[a] + tx[s].funds[a]]
OwnReserved(s) == [a \in Accounts |-> reserved[a] + tx[s].holds[a]]

\* The database as the statements of s see it: what is committed, and its own writes.
Own(s) == INSTANCE PaymentRail WITH balance <- OwnBalance(s), reserved <- OwnReserved(s)

Free(s, lock) == \A t \in Sessions \ {s} : lock \notin tx[t].locks

Set(s, new) == tx' = [tx EXCEPT ![s] = new]

\* A handler that forgets its deferred Rollback: the transaction stays open.
Bug_Rollback(s) == tx' = [tx EXCEPT ![s].at = "left open"]

\* The deferred Rollback of every early return.
Rollback(s) == Set(s, NoTx)

\* The transaction with its payment's row moved on by one event, at its COMMIT.
Concluded(t, event, reason) ==
  [t EXCEPT !.row = applyPaymentEvent(t.row, event, reason), !.at = "commit"]

-----------------------------------------------------------------------------
(* The beginning of a transaction                                           *)

\* db.Begin on a connection that is free, by anyone who calls an operation.
Begin(s, op, r) ==
  /\ tx[s] = NoTx
  /\ Set(s, [NoTx EXCEPT !.op = op, !.payment = r,
                         !.at = IF op = "submit" THEN "insert" ELSE "payment"])
  /\ UNCHANGED vars

\* The INSERT into payments waits for an open transaction that inserted its UETR.
InsertPayment(s) ==
  LET r == tx[s].payment IN
  /\ tx[s].at = "insert" /\ Free(s, UETRLock(r))
  /\ Storable(r) /\ ~UETRTaken(r)
  /\ Set(s, [tx[s] EXCEPT !.row = ValidatedRow(r), !.at = "commit", !.locks = {UETRLock(r)}])
  /\ UNCHANGED vars

\* It fails: what POST answers then is RefuseRequest's business.
InsertFails(s) ==
  /\ tx[s].at = "insert"
  /\ Storable(tx[s].payment) => Free(s, UETRLock(tx[s].payment))
  /\ RefuseRequest(tx[s].payment)
  /\ Rollback(s)

\* The ledger's INSERTs succeed: payment_id, account_id and amount meet their constraints.
Insertable(r) ==
  /\ ledger[r] = NoLedger
  /\ Doc[r].DbtrAcct \in Accounts /\ Doc[r].CdtrAcct \in Accounts
  /\ Amount(r) > 0

\* The first transition of an operation, and the statement that comes next.
Started(s, op, row) ==
  CASE op = "clear"  -> {[row |-> applyPaymentEvent(row, "clearing_started", ""),
                          at |-> "creditor"]}
    [] op = "accept" -> {[row |-> applyPaymentEvent(row, "receiver_accepted", ""),
                          at |-> "commit"]}
    [] op = "reject" -> {[row |-> applyPaymentEvent(row, "receiver_rejected",
                                    IF text = "" THEN "receiver rejected payment" ELSE text),
                          at |-> "debit"] : text \in Reasons}
    [] op = "settle" -> {[row |-> applyPaymentEvent(row, "settlement_started", ""),
                          at |-> "debit"]}

\* A SELECT without its FOR UPDATE.
Bug_LockPayment(s) ==
  LET r == tx[s].payment IN
  /\ tx[s].at = "payment"
  /\ payment[r].status = Precondition[tx[s].op]
  /\ tx[s].op = "settle" => Insertable(r)
  /\ \E next \in Started(s, tx[s].op, payment[r]) :
       Set(s, [tx[s] EXCEPT !.row = next.row, !.at = next.at])
  /\ UNCHANGED vars

\* SELECT ... FOR UPDATE, the first transition and, in a settlement, the ledger, which
\* touch no row that another transaction could have locked meanwhile.
LockPayment(s) ==
  LET r == tx[s].payment IN
  /\ tx[s].at = "payment" /\ Free(s, PaymentLock(r))
  /\ payment[r].status = Precondition[tx[s].op]
  /\ tx[s].op = "settle" => Insertable(r)
  /\ \E next \in Started(s, tx[s].op, payment[r]) :
       Set(s, [tx[s] EXCEPT !.row = next.row, !.at = next.at, !.locks = {PaymentLock(r)}])
  /\ UNCHANGED vars

\* No such payment, one in another state, or a ledger row that its table refuses.
RefuseCall(s) ==
  LET r == tx[s].payment IN
  /\ tx[s].at = "payment" /\ Free(s, PaymentLock(r))
  /\ \/ payment[r].status # Precondition[tx[s].op]
     \/ tx[s].op = "settle" /\ ~Insertable(r)
  /\ Rollback(s)
  /\ UNCHANGED vars

-----------------------------------------------------------------------------
(* Accounts                                                                 *)

CreditorExists(r) == \E a \in Creditor(r) : active[a]

\* A clearing that keeps the creditor's row locked (SELECT ... FOR SHARE).
Bug_ReadCreditor(s) ==
  LET locked == {AccountLock(a) : a \in Creditor(tx[s].payment)} IN
  /\ tx[s].at = "creditor" /\ \A lock \in locked : Free(s, lock)
  /\ \/ /\ CreditorExists(tx[s].payment)
        /\ Set(s, [tx[s] EXCEPT !.at = "debit", !.locks = @ \cup locked])
     \/ /\ ~CreditorExists(tx[s].payment)
        /\ Set(s, Concluded(tx[s], "clearing_failed",
                            "creditor account does not exist or is inactive"))
  /\ UNCHANGED vars

\* The SELECT EXISTS of clearPayment, which locks nothing.
ReadCreditor(s) ==
  /\ tx[s].at = "creditor"
  /\ \/ CreditorExists(tx[s].payment) /\ Set(s, [tx[s] EXCEPT !.at = "debit"])
     \/ /\ ~CreditorExists(tx[s].payment)
        /\ Set(s, Concluded(tx[s], "clearing_failed",
                            "creditor account does not exist or is inactive"))
  /\ UNCHANGED vars

Debiting(s)  == tx[s].at \in {"debit", "await debtor"}
Crediting(s) == tx[s].at \in {"credit", "await creditor"}
Awaiting(s)  == tx[s].at \in {"await debtor", "await creditor"}

\* The account's row that the UPDATE in hand is about, if there is one.
Subject(s) == IF Debiting(s) THEN Debtor(tx[s].payment) ELSE Creditor(tx[s].payment)

\* The rows that its WHERE finds.
Found(s) ==
  LET r == tx[s].payment IN
  IF Crediting(s) THEN Own(s)!Creditable(r)
  ELSE CASE tx[s].op = "clear"  -> Own(s)!Reservable(r)
         [] tx[s].op = "reject" -> Own(s)!Releasable(r)
         [] tx[s].op = "settle" -> Own(s)!Debitable(r)

\* The UPDATE starts and finds its row in what is committed.
FindRow(s) ==
  /\ tx[s].at \in {"debit", "credit"} /\ Found(s) # {}
  /\ Set(s, [tx[s] EXCEPT !.at = IF Debiting(s) THEN "await debtor" ELSE "await creditor"])
  /\ UNCHANGED vars

\* It found none, or the row it waited for no longer fits (it stays locked): the
\* clearing fails, a rejection or a settlement is rolled back.
MissRow(s) ==
  LET waited == IF Awaiting(s) THEN {AccountLock(a) : a \in Subject(s)} ELSE {} IN
  /\ Debiting(s) \/ Crediting(s)
  /\ \A lock \in waited : Free(s, lock)
  /\ Found(s) = {}
  /\ \/ /\ tx[s].op = "clear"
        /\ LET failed == Concluded(tx[s], "clearing_failed",
                 "debtor account has insufficient available funds or is inactive")
           IN Set(s, [failed EXCEPT !.locks = @ \cup waited])
     \/ tx[s].op # "clear" /\ Rollback(s)
  /\ UNCHANGED vars

\* An UPDATE that is not part of the transaction: nothing stays locked.
Bug_Updated(s, a) ==
  LET t == tx[s]
      amount == Amount(t.payment)
  IN IF Crediting(s)
     THEN Concluded([t EXCEPT !.funds[a] = @ + amount], "settlement_completed", "")
     ELSE CASE t.op = "clear" ->
                 Concluded([t EXCEPT !.holds[a] = @ + amount], "clearing_passed", "")
            [] t.op = "reject" ->
                 [t EXCEPT !.holds[a] = @ - amount, !.at = "commit"]
            [] t.op = "settle" ->
                 [t EXCEPT !.holds[a] = @ - amount, !.funds[a] = @ - amount, !.at = "credit"]

\* The transaction after its UPDATE of account a.
Updated(s, a) ==
  LET t == [tx[s] EXCEPT !.locks = @ \cup {AccountLock(a)}]
      amount == Amount(t.payment)
  IN IF Crediting(s)
     THEN Concluded([t EXCEPT !.funds[a] = @ + amount], "settlement_completed", "")
     ELSE CASE t.op = "clear" ->
                 Concluded([t EXCEPT !.holds[a] = @ + amount], "clearing_passed", "")
            [] t.op = "reject" ->
                 [t EXCEPT !.holds[a] = @ - amount, !.at = "commit"]
            [] t.op = "settle" ->
                 [t EXCEPT !.holds[a] = @ - amount, !.funds[a] = @ - amount, !.at = "credit"]

Overflows(s, a) == Crediting(s) /\ OwnBalance(s)[a] + Amount(tx[s].payment) > MaxCents

\* An UPDATE that does not look again at the row it waited for.
Bug_TakeRow(s) ==
  /\ Awaiting(s)
  /\ \E a \in Subject(s) :
       /\ Free(s, AccountLock(a))
       /\ \/ Overflows(s, a) /\ Rollback(s)
          \/ ~Overflows(s, a) /\ Set(s, Updated(s, a))
  /\ UNCHANGED vars

\* The UPDATE has waited for its row, which still fits; NUMERIC may overflow.
TakeRow(s) ==
  /\ Awaiting(s)
  /\ \E a \in Found(s) :
       /\ Free(s, AccountLock(a))
       /\ \/ Overflows(s, a) /\ Rollback(s)
          \/ ~Overflows(s, a) /\ Set(s, Updated(s, a))
  /\ UNCHANGED vars

-----------------------------------------------------------------------------
(* The end of a transaction                                                 *)

\* The event that a transaction records with the status it leaves.
Announcement(r, status) ==
  CASE status = "validated"         -> {<<r, "payment.validated">>}
    [] status = "awaiting_response" -> {<<r, "payment.cleared">>}
    [] status = "accepted"          -> {<<r, "payment.accepted">>}
    [] OTHER                        -> {}

\* COMMIT; POST's answer may be lost.
CommitTx(s) ==
  LET t == tx[s] IN
  /\ t.at = "commit"
  /\ Commit(t.payment, t.row)
  /\ balance' = OwnBalance(s) /\ reserved' = OwnReserved(s)
  /\ \/ t.op = "settle" /\ recordLedgerTransaction(t.payment)
     \/ t.op # "settle" /\ UNCHANGED ledger
  /\ outbox' = outbox \cup Announcement(t.payment, t.row.status)
  /\ \/ t.op = "submit" /\ \E code \in {Verdict(t.payment), "500"} : Answer(t.payment, code)
     \/ t.op # "submit" /\ UNCHANGED reply
  /\ Rollback(s)      \* after a commit it does nothing but give the connection back
  /\ UNCHANGED active

\* The transaction is rolled back, and the caller is told or is no longer there.
Abort(s) ==
  /\ \/ tx[s].op = "submit" /\ LoseRequest(tx[s].payment)
     \/ tx[s].op # "submit" /\ UNCHANGED vars
  /\ Set(s, NoTx)

\* A statement fails, the client goes away or the process dies.
Fail(s) == tx[s] # NoTx /\ Abort(s)

\* The lock that s waits for, in a set.
Wants(s) ==
  CASE tx[s].at = "insert"  -> {UETRLock(tx[s].payment)}
    [] tx[s].at = "payment" -> {PaymentLock(tx[s].payment)}
    [] Awaiting(s)          -> {AccountLock(a) : a \in Subject(s)}
    [] OTHER                -> {}

WaitsFor(s, t) == s # t /\ Wants(s) \cap tx[t].locks # {}

\* s is on a cycle of waiting: it belongs to a set each of whose members is waited for
\* by exactly one other.
Deadlocked(s) ==
  \E ring \in SUBSET Sessions :
    /\ s \in ring
    /\ \A t \in ring : \E u \in ring : WaitsFor(t, u)
    /\ \A t \in ring : Cardinality({u \in ring : WaitsFor(u, t)}) = 1

\* PostgreSQL finds the cycle after deadlock_timeout and aborts one of its transactions.
BreakDeadlock(s) == Deadlocked(s) /\ Abort(s)

\* The status of an account is changed by a transaction of one statement.
SetStatus(a) ==
  /\ \A s \in Sessions : AccountLock(a) \notin tx[s].locks
  /\ SetAccountStatus(a)
  /\ UNCHANGED tx

\* The next statement of the transaction on s.
Proceed(s) ==
  \/ InsertPayment(s) \/ InsertFails(s) \/ LockPayment(s) \/ RefuseCall(s)
  \/ ReadCreditor(s) \/ FindRow(s) \/ MissRow(s) \/ TakeRow(s)
  \/ CommitTx(s)

LocksNext ==
  \/ \E s \in Sessions :
       \/ \E op \in Operations, r \in Requests : Begin(s, op, r)
       \/ Proceed(s) \/ Fail(s) \/ BreakDeadlock(s)
  \/ \E a \in Suspendable : SetStatus(a)

LocksSpec == LocksInit /\ [][LocksNext]_lockVars

\* Callers go on to the end of their transactions, PostgreSQL serves those who wait for a
\* row in turn, and its deadlock detector runs.  Nobody has to call.
FairLocksSpec ==
  /\ LocksSpec
  /\ \A s \in Sessions : SF_lockVars(Proceed(s)) /\ WF_lockVars(BreakDeadlock(s))

-----------------------------------------------------------------------------
(* Properties                                                               *)

\* A lock has one holder, a transaction holds none before its first statement, and what it
\* has added to an account belongs to a row that it has locked.
LocksOK ==
  \A s \in Sessions :
    /\ \A lock \in tx[s].locks : Free(s, lock)
    /\ tx[s].at \in {"none", "insert", "payment"} => tx[s] = [NoTx EXCEPT
         !.op = tx[s].op, !.payment = tx[s].payment, !.at = tx[s].at]
    /\ \A a \in Accounts : tx[s].funds[a] # 0 \/ tx[s].holds[a] # 0
                             => AccountLock(a) \in tx[s].locks

\* Whatever comes between the statements of a transaction, its COMMIT is one operation of
\* PaymentRail and nothing else is visible: all that is proved of PaymentRail holds of the
\* transactions as they run.
ImplementsRail == Spec

\* An UPDATE that gives held money back or pays it finds it, even in the middle of other
\* transactions: a rejection never rolls back for want of it, and a settlement only
\* because an account is suspended.
HeldMoneyIsFound ==
  \A s \in Sessions :
    /\ Debiting(s) /\ tx[s].op = "reject" => Found(s) # {}
    /\ Debiting(s) /\ tx[s].op = "settle" =>
         Found(s) # {} \/ \E a \in Subject(s) : ~active[a]

\* Only settlements can deadlock: POST, clear and respond take the payment's row and then
\* one account at most, so they are never in a cycle of waiting and never its victim.
OnlySettlementsDeadlock == \A s \in Sessions : Deadlocked(s) => tx[s].op = "settle"

\* Every call returns: no transaction waits for ever, whatever it waits for.
EveryCallReturns == \A s \in Sessions : tx[s] # NoTx ~> tx[s] = NoTx
=============================================================================
