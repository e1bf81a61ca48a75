# Verification of the payment rail simulator

TLA+ models of the Go service in this repository, the TLC runs that check them on small
instances, and proofs, checked by TLAPS, of what matters most about money, history and events.

## The system

One Go process serves an HTTP API, keeps everything in PostgreSQL and drives payments
through a Kafka topic that it both writes and reads.

| part | state | operations | talks to |
|---|---|---|---|
| state machine (`statemachine.go`) | none | `NextPaymentState` | pure |
| transitions (`transitions.go`) | `payments.status`, `reject_reason`, `payment_transition_log` | `applyPaymentEventTx` | called in every other operation's transaction |
| submission (`main.go`, `validate.go`, `message.go`) | `payments`, `outbox_events` | `POST /payments` | transitions, outbox |
| clearing (`clearing.go`) | `accounts.reserved_balance` | `clearPayment` | transitions, outbox |
| receiver (`receiver.go`) | `accounts.reserved_balance` | `respondToPayment` | transitions, outbox |
| settlement (`settlement.go`) | `accounts.balance`, `reserved_balance` | `settlePayment` | transitions, ledger |
| ledger (`ledger.go`) | `ledger_transactions`, `ledger_entries` | `recordLedgerTransactionTx`, `GET /ledger` | called by settlement |
| outbox and publisher (`outbox.go`, `kafka.go`) | `outbox_events.published_at`, the topic | read, send, mark, once a second or faster | PostgreSQL, Kafka |
| three workers (`*_consumer.go`) | position and committed offset of a consumer group | poll, handle with retries, commit | Kafka, and clearing, receiver or settlement |
| reconciliation (`reconciliation.go`) | none kept | `GET /reconciliation/<id>`: two reads and a verdict | `payments`, then the ledger |
| rate limiter (`middleware.go`) | one token bucket | before every API handler | |
| read handlers, health (`accounts.go`, `recent_payments.go`, `health.go`, `main.go`) | none | single reads, pings | |
| operations console (`web/index.html`) | what the page shows | post or look up a payment, poll it, inspect it | the HTTP API |

Hard behaviours: the statements of concurrent transactions come between each other, and
wait for each other's row locks; the service and its database fail independently of Kafka; the publisher's
and the workers' steps are not atomic with what they record of them; operators may do by
HTTP what the workers do; events are ordered by the time their transaction *began*; the
state of an account may change between two operations of one payment; amounts are rounded
when they are stored; reconciliation reads two tables at two moments, and the console puts
together panels that four requests read at four. `PROJECT.json` lists
every such hazard at its line, with the properties that cover it.

What makes each part correct:

- transitions: the log is the payment's whole story and agrees with its row;
- submission: an answer is true when given and stays true;
- clearing, receiver, settlement: reservations are exact, nobody is overdrawn, what was
  reserved is there when it is needed, and each payment moves its money once or not at all;
- ledger: it explains every balance;
- outbox, publisher, workers: no order to act is lost, early or out of order, whatever
  crashes, and every payment comes to its end;
- reconciliation: no false alarm and no premature pass;
- the statements of a transaction: their COMMIT is one operation, held money is found by the
  UPDATE that needs it, and every call returns;
- the console: what a panel says of a payment is true, the panels of one inspection agree,
  and every handler ends.

## The modules

| module | models | its state |
|---|---|---|
| `PaymentStates` | the table of `NextPaymentState` | - |
| `Totals` | SQL's `SUM` | - |
| `PaymentRail` | the database and its operations, one transaction per action | `payment` (a row with its log), `balance`, `reserved`, `active`, `ledger`, `outbox`, `reply` |
| `AtomicTransfer` | what the rail promises about money: hold, then pay or release | `transfer`, `available` |
| `RowLocks` (extends `PaymentRail`) | the statements inside a transaction, under PostgreSQL's row locks | `tx`, the open transaction of each connection |
| `EventRelay` (extends `PaymentRail`) | publisher, topic, workers, crashes, operators | `queue`, `publisher`, `topic`, `fetched`, `committed`, `stage`, `faults` |
| `Reconciliation` (extends `PaymentRail`) | the reconciliation requests of several clients over the moving rail | `report` |
| `OpsConsole` (extends `Reconciliation`) | the console's page: handlers that overlap, their requests, what the page shows | `task`, `page` |
| `MC*` | instances for TLC | - |
| `TotalsProofs`, `PaymentRailProofs`, `MoneyProofs`, `LedgerProofs`, `HistoryProofs`, `RelayProofs`, `RowLocksProofs`, `ConsoleProofs` | theorems | - |

**One transaction, one action.** Every operation begins by locking the payment's row with
`FOR UPDATE`, and its effects become visible at COMMIT. So `PaymentRail` makes a committed
operation one step, and one that is rolled back a stuttering step. Two reads are older than
the COMMIT: the `SELECT EXISTS` of the creditor takes no lock, and an `UPDATE` that finds no
row waits for nobody. `ClearPayment` therefore passes if the creditor existed at some moment
of the transaction (`CreditorSeen`), and fails if at some moment it did not (`CreditorMissed`)
or the debtor had not enough (`DebtorMissed`).

`RowLocks` checks that this is right. There a transaction is a sequence of statements:
it begins, waits for the payment's row, reads the creditor, looks for the account's row in
what is committed (`FindRow`, `MissRow`), waits for its lock, evaluates the WHERE again
(`TakeRow`, `MissRow`), and commits or is rolled back at any point. The property
`ImplementsRail` is `PaymentRail`'s own `Spec`: each step of the statements is an operation
of `PaymentRail` or changes nothing that others see. It is proved for any number of
connections (`RowLocksProofs`), so the proofs about `PaymentRail` are about the transactions
as they run. The rows of the log and of the ledger are
written under the lock of the payment's row and need no statements of their own.

**Where things are.** An action has the name of the function it models
(`ClearPayment` is `clearPayment`; `AcceptPayment` and `RejectPayment` are the two branches
of `respondToPayment`), a predicate or set is a `WHERE` clause (`Reservable`, `Releasable`,
`Debitable`, `Creditable`). `PROJECT.json` maps each definition to its lines.

**Data.** Money is an integer number of cents. A document's value is given in tenths of a
cent (mills), so that a value that `NUMERIC(18,2)` has to round can occur; `ToCents` rounds
as PostgreSQL does. `MaxCents` stands for the width of the column. Ids are the names of the
documents: a document POSTed again is another request for the same row. Texts are compared
and never taken apart. `Fits` says that every text of a document fits its column.

**Events.** `queue` holds the unpublished events in the order of `created_at`, whose
default `now()` is the time the transaction began. An event's transaction begins after its
caller learned of the event that caused it and at most a long wait before it commits, so
`Recorded` puts a new event anywhere after its cause. `topic` is one sequence because the
broker creates the topic with one partition. A worker's `fetched` is its position in
memory, `committed` its group's offset in Kafka.

**The console.** Each submit of a form starts a task, which overlaps others at every
`await`: a click on a row of the list looks a payment up although the button for that is
disabled. Any request may be answered 429 or 500 or be lost, at any time, of which the token
bucket is one more reason. What a failure does depends on the request (`FailLoad`,
`FailAwaited`): a refused reconciliation is shown in its panel, a refused account on its
card, but a lost one, of reconciliation or of an account, and a log that is lost or refused
reject `Promise.all` and with it the handler. Its `catch` blanks the panels (of a lookup),
and the log or the report that is still in flight goes on and writes its panel afterwards,
perhaps when another handler has begun. So a task that failed lasts (`Busy`) until its last
load has returned, and `mixed` remembers that a handler began when another one, or what one
left behind, was still there: the panels of two such tasks may be of two payments, which the
code allows and no property denies. `NoForeignPanel` and `InspectionAgrees` say that nothing
else leads to this. The cards of the accounts have no state here; that their requests fail does.

**Operators.** Names that begin with `Bug_` are mistakes the code might have made: each is
put in the place of the definition after it to see that a property notices.

## The runs

| run | instance | checks |
|---|---|---|
| `Money.cfg` | 3 payments between 2 accounts, one account suspended and brought back at will | `TypeOK`, `ReservationsExact`, `NoOverdraft`, `HeldFundsSuffice`, `LedgerExplainsBalances`, `MoneyConserved`, `ImplementsTransfer` |
| `Edges.cfg` | a payment to oneself, one that overflows its creditor, one rounded to nothing, one rejected, one that does not fit; two with the same UETR; POSTed any number of times, with answers lost | `LedgerExplainsBalances`, `AuditTrail`, `OutboxTellsStates`, `TrueAnswers`, `HistoryIsFinal` |
| `Locks.cfg` | the statements of 2 connections, 3 payments: two in opposite directions and two that compete; a credit that may overflow; one account suspended and brought back at will | `LocksOK`, `HeldMoneyIsFound`, `OnlySettlementsDeadlock`, `ImplementsRail` |
| `Returns.cfg` | the statements of 2 connections, 2 payments in opposite directions, fairness | `EveryCallReturns` |
| `Relay.cfg` | 1 payment that operators and workers drive at the same time, 2 faults | `RelayTypeOK`, `NoStrandedPayment`, `NeverEarly` |
| `Compete.cfg` | 2 payments of a debtor whose money pays for either but not for both, one driven by the events only, one by operators too; no fault, fairness | `NoStrandedPayment`, `NeverEarly`, `EveryPaymentEnds` |
| `Recover.cfg` | 1 payment driven by the events only, 2 faults with suspensions of either account, fairness | `StoryInOrder`, `EveryPaymentEnds`, `BacklogDrains` |
| `Alone.cfg` | 1 handler at a time on the page, 3 payments, the rail moving between any two reads, fairness | `NoFalseAlarm`, `PassIsFinal`, `InspectionAgrees`, `EveryTaskEnds` |
| `Console.cfg` | 2 handlers that overlap on one page, 2 payments | `PanelsTrue`, `InspectionAgrees`, `NoForeignPanel` |

Three runs expect a violation, each of a sentence that the repository says of itself:

| run | sentence | what happens |
|---|---|---|
| `Debugging.cfg` | `main.go:206`, "rejected payment recorded for future debugging" | `uetr` is UNIQUE, so the second document without a UETR is answered 409 and not recorded |
| `Dust.cfg` | `README.md:95`, "Amount must be positive" | 0.004 passes the check and is stored as 0.00; it clears, is accepted and can never settle, because a ledger entry must be positive |
| `OldTopic.cfg` | `clearing_consumer.go:30`, "ignore the old demo messages already sitting in Kafka" | the group starts `AtStart` and handles them |

**Bounds.** Three payments suffice for the ways money can interact: two compete for one
balance and a third spends what the first brought in. Two transactions are enough for a
conflict between any two statements and for the one cycle the code can get into, two
settlements that each hold the row the other wants; that a longer cycle, too, is of
settlements only is proved (`DeadlocksAreSettlements`). The event side treats payments
independently except for the order of the topic and the money they compete for. `Compete` has
both and no faults: alice's 70 cents pay for the 60 of p1 or the 70 of p2, so either may
settle while the other fails at its clearing, and the events of an operator's clearing and
acceptance overtake others in the queue and in the topic. `Relay` and `Recover` have the faults
and one payment, which the operators drive in the one and nobody but the events in the other;
two payments with faults are left to the proofs, which bound neither. `MaxFaults` counts
crashes, lost answers, failed sends, marks and commits, and suspensions: two faults allow a
fault in the recovery from another. In `Locks`, `MaxCents` lets the payment `there` always be
credited and `back` only when `there` has been debited before, so a settlement overflows or
not by the order of the two. `MaxAttempts` (1 or 2) stands for the 60 polls after which the console gives up: a poll differs from the one
before it only by what it reads. Calls by clients are not bounded; only what they store is.

`Locks`, `Returns`, `Alone` and `Console` use a VIEW without `reply`, the last answer to a
POST, which no step and no property of theirs reads; `reply` is checked by `Edges`.
`Locks` is symmetric in its connections and `Console` in its clients, which no property of
theirs tells apart.

The runs that allow a stop say `CHECK_DEADLOCK FALSE`: when the clients have posted
everything and every payment is at its end, the rail and its workers wait for ever, and a
page that nobody clicks on does nothing. `RowLocks` does not rely on TLC's check: that a
transaction never waits for ever is `EveryCallReturns`. In `Money` and `Edges`, which are
checked for deadlock, a client can always POST again.

**Fairness.** `FairRelaySpec` assumes weak fairness of the publisher's three steps and of
each worker's poll, skip, handle, duplicate and commit: their loops have no exit but
`ctx.Done()`, which nothing ever triggers, and they retry every error after a second. It
assumes of the world only that a suspended account is brought back some day. Nothing is
assumed of clients and operators, and faults are not fair: they may or may not happen.

`FairLocksSpec` assumes strong fairness of a transaction's next statement, because what it
waits for may be taken by others in between and PostgreSQL serves the waiters of a row in
turn, and weak fairness of the deadlock detector, which runs after `deadlock_timeout`.
`ConsoleSpec` assumes weak fairness of the steps of a task: a request is answered or fails,
and the page goes on. The rail may stand still meanwhile, so a poll may never see the end.

`EveryPaymentEnds` is checked on instances in which each amount that clears can settle; `Dust.cfg`
shows how one gets in that cannot, and what then blocks the settlement worker.

## The proofs

All theorems hold for every finite set of requests, every finite set of accounts and every
document, under the assumptions of `PaymentRail`: requests and accounts are finitely many,
values are integers, the width of a column is a natural number, no account is opened with
debts, and the accounts that may be suspended are accounts. Only `MoneyIsConserved` needs the
accounts to be finitely many. The theorems about the relay hold besides for any bound on
faults, any choice of the payments that operators touch and any records that a worker can
decode in the topic to begin with; those about transactions and the console for any sets of
connections and clients and any number of polls.

- `TotalsProofs`: the sum of a finite set as a fold, with the lemmas on adding and
  removing an element, sign and bounds. The library defines the fold by a recursive
  function; `SubsetInduction` and `SolutionExists` derive its recursion equation.
- `PaymentRailProofs`: `TypeCorrect`, `Spec => []TypeOK`. One lemma per operation
  (`StoreEffect`, `ClearEffect`, `AcceptEffect`, `RejectEffect`, `SettleEffect`) says what it
  does to the row and to money, once its two transitions are worked out; the later proofs
  use only these.
- `MoneyProofs`: `ReservationsAreExact`, `NobodyOverdrawn`, `HeldFundsAreThere`. None is
  inductive alone. `NoOverdraft` needs `ReservationsExact` to know that a release gives back
  no more than is reserved, `LiveAmounts` (a payment that may still move money has an amount
  of at least zero, which only its validation ensured) to know that a release lowers a
  reservation, and `HeldFundsSuffice` needs `HeldHasDebtor` besides. `MoneyInvariant` is
  their conjunction with `TypeOK`. The argument turns on `account_id` being unique: an
  operation that finds a row of its debtor finds all of them (`OneDebtor`).
  `RailImplementsTransfer`, `Spec => ImplementsTransfer`: storing maps to a stutter or a
  refusal, clearing to a hold or a refusal, acceptance to a stutter, rejection to a release
  and settlement to a payment; `MoneyInvariant` supplies what the mapping needs.
- `LedgerProofs`: `LedgerExplainsTheBalances` and `MoneyIsConserved`. What is posted on an
  account is a sum over rows of the ledger; that a settlement adds one row to each side
  needs `LedgerWritten`: a payment's ledger is empty or has its debit and its credit, in
  this order. Conservation is the sum of what is available plus the sum of what is held, and
  each operation moves both by the same amount: a clearing from the one to the other, a
  rejection back, a settlement to the creditor, because the debtor's balance and its
  reservation fall together. It needs no more than `TypeOK`. `ConservedIsMoneyConserved`
  identifies the sum with the one that `AtomicTransfer` states of its own variables.
- `HistoryProofs`: `AuditTrailHolds`, `RecordsAreFinal`, `OutboxTellsTheStates`,
  `AnswersAreTrue`. `AuditTrail` is inductive with `TypeOK` (`HistoryInvariant`): a log that
  agrees with its row is extended by transitions from the row's state. That the outbox tells
  the states, and that answers stay true, then follows because a log is only extended
  (`RecordsAreFinal`) and each operation adds to the outbox what its last transition reached.
- `RelayProofs`: `RelayTypeCorrect`, `NoPaymentIsStranded`, `NoEventIsEarly`,
  `TheStoryIsInOrder`. `NoStrandedPayment` is not inductive in two ways. The event that the
  publisher is about to mark must be in the topic where the worker will still come to it
  (`Waiting`), and what a worker is done with, committed or not, must not be what a payment
  waits for (`Handled`, `Ahead`): a failed commit is caught up by the next one. That each
  operation records an order that was not there before needs `EventsToCome`. `NeverEarly`
  follows from `OutboxTellsTheStates`, which is true of the relay because its steps are the
  rail's (`RelayImplementsRail`). `StoryInOrder` speaks of the topic alone; to be inductive
  it must be said of everything that is on its way there (`InOrder`): the queue, and the
  event that the publisher read before others were put in front of it. A new event is the
  last of its payment (`NewEventIsLast`), and is recorded after the event that caused it if
  that one is still in the queue. If it is not, the cause has been sent already, because no
  event of the outbox is lost between queue and topic (`NoneLost`); without that, an old
  record of the topic that looks like the cause would be enough to break the order.
- `RowLocksProofs`: `TransactionsImplementRail`, `RowsAreLocked`, `HeldMoneyFound`,
  `DeadlocksAreSettlements`. `LocksInvariant` says for each statement what a transaction is
  entitled to believe when it is there (`InClearing`, `HasCleared`, `InSettlement`...): what
  it read under a lock is still so, and what it has written so far is what its operation does
  to the database *as it is committed now*, so a COMMIT is the operation. Its step falls in
  two: a transaction's own statement takes it from one such place to the next, and what
  others commit leaves it where it is (`StaysUpToDate`) because they do not hold its locks.
  One belief rests on no lock: that the debtor had too little money, when the UPDATE found no
  row. `DebtorMissed` allows it to be out of date by what has come to the account since, and
  that nothing else comes to it needs the amounts under way to be no less than zero
  (`MoneyInvariant`, `PastAmounts`). The deadlock theorem is that a transaction of any other
  kind that waits for an account holds only its payment's row, for which nobody waits who
  holds anything: whatever the length of a cycle, it cannot be on it.
- `ConsoleProofs`: `ReconciliationNeverFails`, `PassesAreFinal`, `PanelsAreTrue`,
  `InspectionsAgree`, `PanelsAreOwn`, `ConsoleImplementsRail`. All rest on one notion, `Seen(r, status)`: the
  payment has been in that status, and is in it still if it is an end. It is stable
  (`RailStep`), so what a request or a handler has read may be relied on later. That the
  verdict on a status seen some time ago and the ledger as it is now is right (`Verdicts`)
  needs `SettledLedger`: exactly the settled payments have a ledger, and it is their debit
  and credit. `PanelsAreTrue` needs what each handler knows at each `await` (`TrueTask`) and
  that the report it shows is the one it asked for (`Asks`): a client whose handler
  failed takes no other one until its log and its report have returned, so that no later handler
  is given them. What an abandoned log writes is true for the same reason as before its handler
  failed: its payment is stored, and its last row is a state that it has reached.
  `InspectionsAgree` needs besides what a handler that is alone has put on the page so far
  (`SoleHandler`, `Inspected`), and that what is in flight on a page that is not `mixed` is of
  the payment asked for, which is also why its panels are (`PanelsAreOwn`).

Every invariant and step property of the passing runs is thereby proved, for every instance,
and the two refinements. TLC checked each inductive invariant on the instances of the runs
before it was proved. Only model-checked are the liveness properties `EveryPaymentEnds`,
`BacklogDrains`, `EveryCallReturns` and `EveryTaskEnds` (TLAPS proves neither liveness under
fairness nor ENABLED), and the three runs that expect a violation.

## Not modelled

- Health checks (`health.go`) ping the database and Kafka under a timeout; they keep no state
  and nothing acts on their answer. Logging and the headers of the middleware change nothing.
- The clock of the token bucket, which is a library's: that a request may be refused is part
  of `OpsConsole`, for how long is not.
- `GET /accounts` and the list of recent payments are single SELECTs; the console shows them
  as read and nothing depends on them.
- The status codes of the clear, respond and settle endpoints, a request's method and JSON
  errors.
- Rebalancing of a consumer group, which needs a second process; nothing in the repository
  starts one.
- Environment variables, connection set-up, deployment.

## What is left

A clock for the token bucket, and a second process of the service, whose workers would share
the partitions of their groups.
