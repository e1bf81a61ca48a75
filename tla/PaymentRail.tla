---------------------------- MODULE PaymentRail ----------------------------
(***************************************************************************)
(* The payment rail's database and the operations that change it.  Every    *)
(* operation of the service is one PostgreSQL transaction that starts by    *)
(* locking the payment's row, so a committed transaction is one action here *)
(* and a transaction rolled back is a stuttering step; module RowLocks goes *)
(* through the statements of a transaction and shows that this is so.       *)
(* Who calls the operations, how often and in which order is not this       *)
(* module's business: any operation may be called at any time, as the HTTP  *)
(* API allows, and EventRelay adds the outbox publisher and the Kafka       *)
(* workers that call them on their own.                                     *)
(*                                                                          *)
(* Money is an integer number of cents, the unit of NUMERIC(18,2); a request*)
(* carries mills (tenths of a cent), which a float64 can and the column     *)
(* cannot hold.  Texts are strings that the model only compares.            *)
(***************************************************************************)
EXTENDS Integers, Sequences, FiniteSets, PaymentStates, Totals

CONSTANTS
  Requests,         \* the bodies POSTed to /payments; a body stored as a payment gives the row its id
  Doc,              \* Doc[r]: the fields of body r that the service looks at
  Accounts,         \* the account_id's of table accounts (a UNIQUE column)
  RoutingNumber,    \* RoutingNumber[a], AccountCurrency[a]: the other columns of a's row
  AccountCurrency,  \*   that an operation matches
  Opening,          \* Opening[a]: the balance, in cents, that a was opened with
  MaxCents,         \* the largest amount of a NUMERIC(18,2) column
  Reasons,          \* the texts a caller may give when it rejects a payment
  Suspendable       \* the accounts whose status someone changes while the service runs

ASSUME RequestsAssumption == IsFiniteSet(Requests)

ASSUME AccountsAssumption == IsFiniteSet(Accounts)

ASSUME DocAssumption == \A r \in Requests : Doc[r].Value \in Int

ASSUME MaxCentsAssumption == MaxCents \in Nat

\* Nobody opens an account with debts (the column has no CHECK for it).
ASSUME OpeningAssumption == Opening \in [Accounts -> Nat]

ASSUME SuspendableAssumption == Suspendable \subseteq Accounts

VARIABLES
  payment,    \* payment[r]: r's row of payments with its rows of payment_transition_log
  balance,    \* balance[a], reserved[a]: columns balance and reserved_balance of accounts
  reserved,
  active,     \* active[a]: column status of accounts is 'active'
  ledger,     \* ledger[r]: r's row of ledger_transactions with its ledger_entries
  outbox,     \* the <<payment, event type>> pairs of outbox_events
  reply       \* reply[r]: what the last POST of body r was answered

vars == <<payment, balance, reserved, active, ledger, outbox, reply>>

-----------------------------------------------------------------------------
(* Requests                                                                 *)

\* What NUMERIC(18,2) stores for a value given in mills: cents, halves away from zero.
ToCents(mills) == IF mills >= 0 THEN (mills + 5) \div 10 ELSE -((5 - mills) \div 10)

Amount(r) == ToCents(Doc[r].Value)

\* A text is too long for its VARCHAR or the amount for its NUMERIC(18,2).
Storable(r) == Doc[r].Fits /\ Amount(r) \in -MaxCents..MaxCents

\* validatePayment's checks in their order, each with the error it returns.
Checks(d) ==
  << <<d.UETR # "",       "missing UETR">>,
     <<d.EndToEndId # "", "missing EndToEndId">>,
     <<d.Value > 0,       "IntrBkSttlmAmt.value must be positive">>,
     <<d.Ccy = "USD",     "only USD is supported">>,
     <<d.DbtrAcct # "",   "missing DbtrAcct identifier">>,
     <<d.CdtrAcct # "",   "missing CdtrAcct identifier">>,
     <<d.DbtrAgt # "",    "missing DbtrAgt routing identifier">>,
     <<d.CdtrAgt # "",    "missing CdtrAgt routing identifier">> >>

\* The error of the first check that d fails, "" for the nil of a good document.
validatePayment(d) ==
  LET failed == {i \in 1..8 : ~Checks(d)[i][1]}
  IN IF failed = {} THEN ""
     ELSE Checks(d)[CHOOSE i \in failed : \A j \in failed : i <= j][2]

-----------------------------------------------------------------------------
(* Rows                                                                     *)

NoRow == [status |-> "none", reject_reason |-> "", log |-> << >>]

ReceivedRow == [NoRow EXCEPT !.status = "received"]

Stored == {r \in Requests : payment[r] # NoRow}

\* A transition that forgets to write its reason to the payment's own row.
Bug_LogOnly(row, event, reason) ==
  LET next == NextPaymentState(row.status, event)
  IN [row EXCEPT !.status = next,
                 !.log = Append(@, [from_state |-> row.status, to_state |-> next,
                                    event_type |-> event, reason |-> reason])]

\* A log that keeps a payment's last transition only, by an INSERT that updates on conflict.
Bug_LastOnly(row, event, reason) ==
  LET next == NextPaymentState(row.status, event)
  IN [status |-> next,
      reject_reason |-> reason,
      log |-> << [from_state |-> row.status, to_state |-> next,
                  event_type |-> event, reason |-> reason] >>]

\* The row and log after applyPaymentEventTx; status NoState stands for its error,
\* which makes every caller roll back.  The rows of the log are kept in the order of
\* their sequence_number, which MAX + 1 under the row lock makes 1, 2, 3...
applyPaymentEvent(row, event, reason) ==
  LET next == NextPaymentState(row.status, event)
  IN [status |-> next,
      reject_reason |-> reason,
      log |-> Append(row.log, [from_state |-> row.status, to_state |-> next,
                               event_type |-> event, reason |-> reason])]

\* COMMIT with row as r's row: never after an error.
Commit(r, row) ==
  /\ row.status # NoState
  /\ payment' = [payment EXCEPT ![r] = row]

\* The rows that "WHERE account_id = ... AND routing_number = ... AND currency = ..." finds.
AccountRow(account, agent, currency) ==
  {a \in Accounts : /\ a = account
                    /\ RoutingNumber[a] = agent
                    /\ AccountCurrency[a] = currency}

Debtor(r)   == AccountRow(Doc[r].DbtrAcct, Doc[r].DbtrAgt, Doc[r].Ccy)
Creditor(r) == AccountRow(Doc[r].CdtrAcct, Doc[r].CdtrAgt, Doc[r].Ccy)

\* UPDATE accounts SET column = column + delta for the rows given.
Update(column, rows, delta) ==
  [a \in Accounts |-> IF a \in rows THEN column[a] + delta ELSE column[a]]

NoLedger == [currency |-> "", entries |-> << >>]

-----------------------------------------------------------------------------
Init ==
  /\ payment = [r \in Requests |-> NoRow]
  /\ balance = Opening
  /\ reserved = [a \in Accounts |-> 0]
  /\ active = [a \in Accounts |-> TRUE]
  /\ ledger = [r \in Requests |-> NoLedger]
  /\ outbox = {}
  /\ reply = [r \in Requests |-> "none"]

(***************************************************************************)
(* POST /payments (handlePayment).                                          *)
(***************************************************************************)
UETRTaken(r) == \E q \in Stored : Doc[q].UETR = Doc[r].UETR

Answer(r, code) == reply' = [reply EXCEPT ![r] = code]

\* The inserted row after the verdict of validatePayment is applied to it.
ValidatedRow(r) ==
  LET reason == validatePayment(Doc[r])
  IN applyPaymentEvent(ReceivedRow,
                       IF reason = "" THEN "validation_passed" ELSE "validation_failed",
                       reason)

\* The INSERT fails: 409, with a body of its own when the UETR is taken.
RefuseRequest(r) ==
  /\ \/ Storable(r) /\ UETRTaken(r) /\ Answer(r, "409 same UETR")
     \/ ~Storable(r) /\ Answer(r, "409 database error")
  /\ UNCHANGED <<payment, balance, reserved, active, ledger, outbox>>

\* A handler that answers Created to everything it stored.
Bug_Verdict(r) == "201"

\* The status code of a payment that was stored.
Verdict(r) == IF ValidatedRow(r).status = "rejected" THEN "422" ELSE "201"

\* The transaction that stores the payment and its verdict.
StorePayment(r) ==
  /\ ~UETRTaken(r) /\ Storable(r)
  /\ Commit(r, ValidatedRow(r))
  /\ outbox' = IF ValidatedRow(r).status = "validated"
               THEN outbox \cup {<<r, "payment.validated">>} ELSE outbox
  /\ UNCHANGED <<balance, reserved, active, ledger>>

\* The payment is stored; when COMMIT reports an error that lost only its answer, 500.
StoreRequest(r) ==
  /\ StorePayment(r)
  /\ \E code \in {Verdict(r), "500"} : Answer(r, code)

\* The database cannot be reached, or a statement after the INSERT fails: rolled back.
LoseRequest(r) ==
  /\ \E code \in {"409 database error", "500"} : Answer(r, code)
  /\ UNCHANGED <<payment, balance, reserved, active, ledger, outbox>>

SubmitPayment(r) == RefuseRequest(r) \/ StoreRequest(r) \/ LoseRequest(r)

(***************************************************************************)
(* clearPayment, called by POST /payments/clear and by the clearing worker. *)
(***************************************************************************)
\* A reservation that compares with the balance instead of what is available.
Bug_Reservable(r) == {a \in Debtor(r) : active[a] /\ balance[a] >= Amount(r)}

Reservable(r) == {a \in Debtor(r) : active[a] /\ balance[a] - reserved[a] >= Amount(r)}

\* The SELECT EXISTS takes no lock, and an UPDATE that finds no row takes none either:
\* what a statement saw may be out of date when its transaction commits.  The next three
\* say what it can have seen, given what the database holds now.
CreditorSeen(r) == \E a \in Creditor(r) : active[a] \/ a \in Suspendable

CreditorMissed(r) == \A a \in Creditor(r) : ~active[a] \/ a \in Suspendable

Amounts == [r \in Requests |-> Amount(r)]

\* The payments that may have made money available on a: given it back, or brought it.
CameTo(a) == {q \in Requests : \/ a \in Debtor(q) /\ payment[q].status = "failed"
                               \/ a \in Creditor(q) /\ payment[q].status = "settled"}

DebtorMissed(r) ==
  \A a \in Debtor(r) :
    \/ ~active[a] \/ a \in Suspendable
    \/ balance[a] - reserved[a] - Total(Amounts, CameTo(a)) < Amount(r)

\* A clearing that commits without its second transition.
Bug_Cleared(r, event, reason) == applyPaymentEvent(payment[r], "clearing_started", "")

Cleared(r, event, reason) ==
  applyPaymentEvent(applyPaymentEvent(payment[r], "clearing_started", ""), event, reason)

\* A failed clearing that announces the payment as cleared.
Bug_FailClearing(r, reason) ==
  /\ Commit(r, Cleared(r, "clearing_failed", reason))
  /\ outbox' = outbox \cup {<<r, "payment.cleared">>}
  /\ UNCHANGED reserved

FailClearing(r, reason) ==
  /\ Commit(r, Cleared(r, "clearing_failed", reason))
  /\ UNCHANGED <<reserved, outbox>>

PassClearing(r) ==
  /\ CreditorSeen(r)
  /\ Reservable(r) # {}     \* evaluated on the locked row: still true at COMMIT
  /\ reserved' = Update(reserved, Reservable(r), Amount(r))
  /\ Commit(r, Cleared(r, "clearing_passed", ""))
  /\ outbox' = outbox \cup {<<r, "payment.cleared">>}

ClearPayment(r) ==
  /\ payment[r].status = "validated"
  /\ \/ CreditorMissed(r) /\ FailClearing(r, "creditor account does not exist or is inactive")
     \/ /\ CreditorSeen(r) /\ DebtorMissed(r)
        /\ FailClearing(r, "debtor account has insufficient available funds or is inactive")
     \/ PassClearing(r)
  /\ UNCHANGED <<balance, active, ledger, reply>>

(***************************************************************************)
(* respondToPayment, called by POST /payments/respond with either answer    *)
(* and by the receiver worker, which always accepts.                        *)
(***************************************************************************)
AcceptPayment(r) ==
  /\ payment[r].status = "awaiting_response"
  /\ Commit(r, applyPaymentEvent(payment[r], "receiver_accepted", ""))
  /\ outbox' = outbox \cup {<<r, "payment.accepted">>}
  /\ UNCHANGED <<balance, reserved, active, ledger, reply>>

\* A release that looks for an active account and gives up quietly without one.
Bug_Releasable(r) == {a \in Debtor(r) : active[a] /\ reserved[a] >= Amount(r)}

\* An account need not be active to have its reservation released.
Releasable(r) == {a \in Debtor(r) : reserved[a] >= Amount(r)}

\* A handler that announces the receiver's answer as an acceptance either way.
Bug_RejectPayment(r, text) ==
  /\ payment[r].status = "awaiting_response"
  /\ Commit(r, applyPaymentEvent(payment[r], "receiver_rejected",
                                 IF text = "" THEN "receiver rejected payment" ELSE text))
  /\ Releasable(r) # {}
  /\ reserved' = Update(reserved, Releasable(r), -Amount(r))
  /\ outbox' = outbox \cup {<<r, "payment.accepted">>}
  /\ UNCHANGED <<balance, active, ledger, reply>>

RejectPayment(r, text) ==
  /\ payment[r].status = "awaiting_response"
  /\ Commit(r, applyPaymentEvent(payment[r], "receiver_rejected",
                                 IF text = "" THEN "receiver rejected payment" ELSE text))
  /\ Releasable(r) # {}     \* no row returned is an error, and the rejection is rolled back
  /\ reserved' = Update(reserved, Releasable(r), -Amount(r))
  /\ UNCHANGED <<balance, active, ledger, outbox, reply>>

(***************************************************************************)
(* settlePayment, called by POST /payments/settle and the settlement        *)
(* worker.  No statement of it may fail: every error rolls it back, and     *)
(* nothing ever applies the event settlement_failed.                        *)
(***************************************************************************)
\* Two entries with their accounts the wrong way round.
Bug_recordLedgerTransaction(r) ==
  /\ ledger[r] = NoLedger
  /\ Doc[r].DbtrAcct \in Accounts /\ Doc[r].CdtrAcct \in Accounts
  /\ Amount(r) > 0
  /\ ledger' = [ledger EXCEPT ![r] =
       [currency |-> Doc[r].Ccy,
        entries |-> << [account_id |-> Doc[r].CdtrAcct, entry_type |-> "debit",
                        amount |-> Amount(r)],
                       [account_id |-> Doc[r].DbtrAcct, entry_type |-> "credit",
                        amount |-> Amount(r)] >>]]

\* recordLedgerTransactionTx: payment_id is UNIQUE, account_id a foreign key, and an
\* entry's amount is checked to be positive.
recordLedgerTransaction(r) ==
  /\ ledger[r] = NoLedger
  /\ Doc[r].DbtrAcct \in Accounts /\ Doc[r].CdtrAcct \in Accounts
  /\ Amount(r) > 0
  /\ ledger' = [ledger EXCEPT ![r] =
       [currency |-> Doc[r].Ccy,
        entries |-> << [account_id |-> Doc[r].DbtrAcct, entry_type |-> "debit",
                        amount |-> Amount(r)],
                       [account_id |-> Doc[r].CdtrAcct, entry_type |-> "credit",
                        amount |-> Amount(r)] >>]]

Debitable(r) ==
  {a \in Debtor(r) : active[a] /\ reserved[a] >= Amount(r) /\ balance[a] >= Amount(r)}

Creditable(r) == {a \in Creditor(r) : active[a]}

\* A settlement that reads both balances first and writes them afterwards.
Bug_BalanceAfter(r) ==
  [a \in Accounts |-> IF a \in Creditable(r) THEN balance[a] + Amount(r)
                      ELSE IF a \in Debitable(r) THEN balance[a] - Amount(r)
                      ELSE balance[a]]

\* The debit's UPDATE and then the credit's, which sees the debit's row: one account
\* may be both.
BalanceAfter(r) == Update(Update(balance, Debitable(r), -Amount(r)), Creditable(r), Amount(r))

\* A debit that leaves the reservation behind.
Bug_ReservedAfter(r) == reserved

ReservedAfter(r) == Update(reserved, Debitable(r), -Amount(r))

SettlePayment(r) ==
  /\ payment[r].status = "accepted"
  /\ recordLedgerTransaction(r)
  /\ Debitable(r) # {} /\ Creditable(r) # {}
  /\ balance' = BalanceAfter(r)
  /\ \A a \in Creditable(r) : BalanceAfter(r)[a] <= MaxCents    \* NUMERIC overflow
  /\ reserved' = ReservedAfter(r)
  /\ Commit(r, applyPaymentEvent(
                 applyPaymentEvent(payment[r], "settlement_started", ""),
                 "settlement_completed", ""))
  /\ UNCHANGED <<active, outbox, reply>>

\* Nothing in the service writes accounts.status: someone else suspends an account
\* or brings it back.
SetAccountStatus(a) ==
  /\ active' = [active EXCEPT ![a] = ~active[a]]
  /\ UNCHANGED <<payment, balance, reserved, ledger, outbox, reply>>

Next ==
  \/ \E r \in Requests :
       \/ SubmitPayment(r)
       \/ ClearPayment(r)
       \/ AcceptPayment(r)
       \/ \E text \in Reasons : RejectPayment(r, text)
       \/ SettlePayment(r)
  \/ \E a \in Suspendable : SetAccountStatus(a)

Spec == Init /\ [][Next]_vars

-----------------------------------------------------------------------------
(* Properties                                                               *)

\* The texts of reject_reason and of the log's reason.
ReasonText ==
  { "", "missing UETR", "missing EndToEndId", "IntrBkSttlmAmt.value must be positive",
    "only USD is supported", "missing DbtrAcct identifier", "missing CdtrAcct identifier",
    "missing DbtrAgt routing identifier", "missing CdtrAgt routing identifier",
    "creditor account does not exist or is inactive",
    "debtor account has insufficient available funds or is inactive",
    "receiver rejected payment" } \cup Reasons

TransitionRow == [from_state : PaymentState, to_state : PaymentState,
                  event_type : PaymentEvent, reason : ReasonText]

CommittedRow ==
  [status : (PaymentState \ {"received", "clearing", "settling"}) \cup {"none"},
   reject_reason : ReasonText,
   log : Seq(TransitionRow)]

EventType == {"payment.validated", "payment.cleared", "payment.accepted"}

Currency == {""} \cup {Doc[r].Ccy : r \in Requests}

Entry == [account_id : Accounts, entry_type : {"debit", "credit"}, amount : Int]

\* Every variable has its type; a committed payment is never in the middle of a
\* transaction (clearing, settling) nor just inserted (received).
TypeOK ==
  /\ payment \in [Requests -> CommittedRow]
  /\ balance \in [Accounts -> Int]
  /\ reserved \in [Accounts -> Int]
  /\ active \in [Accounts -> BOOLEAN]
  /\ ledger \in [Requests -> [currency : Currency, entries : Seq(Entry)]]
  /\ outbox \subseteq Requests \X EventType
  /\ reply \in [Requests -> {"none", "201", "422", "500",
                             "409 same UETR", "409 database error"}]

Held(r) == payment[r].status \in {"awaiting_response", "accepted"}

HeldOn(a) == {r \in Requests : Held(r) /\ a \in Debtor(r)}

\* The reservation of an account is exactly what its payments between clearing and
\* their end hold: clearPayment's reservation is given back once, by the rejection or
\* by the settlement, whichever comes, and never by both or neither.
ReservationsExact == \A a \in Accounts : reserved[a] = Total(Amounts, HeldOn(a))

\* No account owes money, and no more is reserved than there is: concurrent clearings
\* of payments of one account never promise the same cent twice.
NoOverdraft == \A a \in Accounts : 0 <= reserved[a] /\ reserved[a] <= balance[a]

\* What a payment holds is there when it is needed: neither the release of
\* respondToPayment nor the debit of settlePayment ever finds too little money in the
\* debtor's row, whatever happened to the account and its other payments in between.
\* (An account suspended meanwhile stops a settlement, never a release.)
HeldFundsSuffice ==
  \A r \in Requests : Held(r) =>
    /\ Releasable(r) # {}
    /\ \E a \in Debtor(r) : reserved[a] >= Amount(r) /\ balance[a] >= Amount(r)

\* What the ledger has posted to account a with entries of one type.
Posted(a, type) ==
  LET entry(e) == ledger[e[1]].entries[e[2]]
      rows == {e \in Requests \X {1, 2} : /\ e[2] \in DOMAIN ledger[e[1]].entries
                                          /\ entry(e).account_id = a
                                          /\ entry(e).entry_type = type}
  IN Total([e \in rows |-> entry(e).amount], rows)

\* The ledger explains every balance: what an account was opened with, plus the credits,
\* minus the debits.  Money moves in no other way than by a settlement, a settlement's
\* two sides move the same amount, and a payment from an account to itself moves none.
LedgerExplainsBalances ==
  \A a \in Accounts : balance[a] = Opening[a] + Posted(a, "credit") - Posted(a, "debit")

\* The transition log tells the payment's whole story: it starts at received, every row
\* follows from the one before by the state machine, the last row agrees with the
\* payment's status and reject_reason, and exactly the payments that ended badly have
\* a reason.
AuditTrail ==
  \A r \in Stored :
    LET log == payment[r].log IN
    /\ log # << >> /\ log[1].from_state = "received"
    /\ \A i \in DOMAIN log :
         /\ log[i].to_state = NextPaymentState(log[i].from_state, log[i].event_type)
         /\ i > 1 => log[i].from_state = log[i - 1].to_state
    /\ log[Len(log)].to_state = payment[r].status
    /\ log[Len(log)].reason = payment[r].reject_reason
    /\ payment[r].status \in {"failed", "rejected"} <=> payment[r].reject_reason # ""

Reached(r, state) == \E i \in DOMAIN payment[r].log : payment[r].log[i].to_state = state

Announced(type) == CASE type = "payment.validated" -> "validated"
                     [] type = "payment.cleared"   -> "awaiting_response"
                     [] type = "payment.accepted"  -> "accepted"

\* The transactional outbox: an event is recorded for a payment if and only if the
\* payment reached the state the event announces, whatever became of it since.
OutboxTellsStates ==
  outbox = {event \in Requests \X EventType : Reached(event[1], Announced(event[2]))}

\* A step that leaves a payment at its end as it is, and only adds to its records.
KeepsHistory ==
  /\ \A r \in Requests :
       LET before == payment[r].log
           after  == payment'[r].log
       IN /\ Len(before) <= Len(after) /\ \A i \in DOMAIN before : after[i] = before[i]
          /\ payment[r].status \in Terminal => payment'[r] = payment[r]
          /\ ledger[r] # NoLedger => ledger'[r] = ledger[r]
  /\ outbox \subseteq outbox'

\* What README.md calls settlement finality and an immutable audit trail: whoever calls
\* what, in whatever order and how often, a payment at its end stays as it is, and no row
\* of its log, entry of its ledger or event of the outbox is ever changed or taken away.
HistoryIsFinal == [][KeepsHistory]_vars

\* The answers of POST /payments are true when they are given and stay true: 201 only
\* for a payment stored and validated, 422 only for one stored and rejected, and "same
\* UETR" only when a payment with it is stored.
TrueAnswers ==
  \A r \in Requests :
    /\ reply[r] = "201" => r \in Stored /\ Reached(r, "validated")
    /\ reply[r] = "422" => r \in Stored /\ payment[r].status = "rejected"
    /\ reply[r] = "409 same UETR" => \E q \in Stored : Doc[q].UETR = Doc[r].UETR

\* main.go:206, "rejected payment recorded for future debugging": a POST that fails
\* validation for want of a UETR, and was answered otherwise than by a server or a
\* database error, left its payment recorded as rejected.
RejectionRecorded ==
  \A r \in Requests :
    /\ validatePayment(Doc[r]) = "missing UETR"
    /\ reply[r] \notin {"none", "500", "409 database error"}
    => payment[r].status = "rejected"

\* README.md, "Amount must be positive": no payment passes validation with an amount
\* that is not.
ValidatedAmountPositive ==
  \A r \in Requests : Reached(r, "validated") => Amount(r) > 0

-----------------------------------------------------------------------------
(* What the operations do to money, without how: see AtomicTransfer.         *)

Transfer == INSTANCE AtomicTransfer WITH
  Payments  <- Requests,
  From      <- [r \in Requests |-> Debtor(r)],
  To        <- [r \in Requests |-> Creditor(r)],
  Value     <- Amounts,
  Funds     <- Opening,
  transfer  <- [r \in Requests |->
                  CASE payment[r].status \in {"none", "validated"} -> "idle"
                    [] Held(r)                                      -> "held"
                    [] payment[r].status = "settled"                -> "paid"
                    [] OTHER                                        -> "void"],
  available <- [a \in Accounts |-> balance[a] - reserved[a]]

\* The rail implements an atomic hold-then-pay transfer.
ImplementsTransfer == Transfer!Spec

\* Money is neither made nor lost: what is available on all accounts and what payments
\* hold always add up to what the accounts were opened with.
MoneyConserved == Transfer!Conservation
=============================================================================
