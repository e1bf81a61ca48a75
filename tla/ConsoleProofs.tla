---------------------------- MODULE ConsoleProofs ----------------------------
(***************************************************************************)
(* What the service and the console tell of a payment, for any clients, any  *)
(* finite set of requests and any accounts: reconciliation never raises a    *)
(* false alarm and its passes are final, what the page's panels say is true, *)
(* and a handler that was alone leaves panels that agree.                    *)
(***************************************************************************)
EXTENDS HistoryProofs, LedgerProofs, OpsConsole

\* Exactly the settled payments have a ledger, and it is the one their settlement wrote.
SettledLedger ==
  \A r \in Requests :
    ledger[r] = IF payment[r].status = "settled" THEN LedgerOf(r) ELSE NoLedger

\* What a report or a handler relies on of the rail: that each settled payment has its
\* ledger is not inductive by itself, because it takes the state machine to say that a
\* settlement comes once and last.
RailInvariant == HistoryInvariant /\ SettledLedger

\* Whoever read payment r in the status gave a true account of it: it has been in that
\* status, and is in it for good if no event leaves it.
Seen(r, status) ==
  /\ r \in Stored /\ status \in PaymentState /\ Reached(r, status)
  /\ status \in Terminal => payment[r].status = status

-----------------------------------------------------------------------------
(* The rail                                                                 *)

\* A step of a payment that is neither settled before nor after it and writes no ledger
\* leaves each settled payment, and no other, with its ledger.
LEMMA UnsettledStep ==
  ASSUME TypeOK, SettledLedger, NEW r \in Requests, NEW statuses, Becomes(r, statuses),
         "settled" \notin statuses, payment[r].status # "settled", UNCHANGED ledger
  PROVE  SettledLedger'
<1>1. /\ payment'[r].status \in statuses
      /\ \A q \in Requests : q # r => payment'[q] = payment[q]
  BY OtherRows
<1>2. ASSUME NEW q \in Requests
      PROVE  ledger'[q] = IF payment'[q].status = "settled" THEN LedgerOf(q) ELSE NoLedger
  <2>1. payment'[q].status = "settled" <=> payment[q].status = "settled"
    BY <1>1
  <2> QED
    BY <2>1 DEF SettledLedger
<1>3. (\A q \in Requests :
        ledger[q] = IF payment[q].status = "settled" THEN LedgerOf(q) ELSE NoLedger)'
  BY <1>2
<1> QED
  BY <1>3 DEF SettledLedger

\* A settlement leaves its payment settled and with its ledger.
LEMMA SettlementStep ==
  ASSUME TypeOK, SettledLedger, NEW r \in Requests, SettlePayment(r)
  PROVE  SettledLedger'
<1>1. Becomes(r, {"settled"}) /\ recordLedgerTransaction(r)
  BY SettleEffect
<1>2. /\ payment'[r].status = "settled"
      /\ \A q \in Requests : q # r => payment'[q] = payment[q]
  BY <1>1, OtherRows
<1>3. ledger' = [ledger EXCEPT ![r] = LedgerOf(r)]
  BY <1>1 DEF recordLedgerTransaction, LedgerOf
<1>4. \A q \in Requests : ledger'[q] = IF q = r THEN LedgerOf(r) ELSE ledger[q]
  BY <1>3 DEF TypeOK
<1>5. \A q \in Requests :
        ledger'[q] = IF payment'[q].status = "settled" THEN LedgerOf(q) ELSE NoLedger
  BY <1>2, <1>4 DEF SettledLedger
<1>6. (\A q \in Requests :
        ledger[q] = IF payment[q].status = "settled" THEN LedgerOf(q) ELSE NoLedger)'
  BY <1>5
<1> QED
  BY <1>6 DEF SettledLedger

\* Every operation leaves exactly the settled payments with their ledger.
LEMMA SettledLedgerStep ==
  ASSUME HistoryInvariant, SettledLedger, [Next]_vars
  PROVE  SettledLedger'
<1>1. TypeOK
  BY DEF HistoryInvariant
<1>2. CASE UNCHANGED <<payment, ledger>>
  <2>1. (\A q \in Requests :
          ledger[q] = IF payment[q].status = "settled" THEN LedgerOf(q) ELSE NoLedger)'
    BY <1>2 DEF SettledLedger
  <2> QED
    BY <2>1 DEF SettledLedger
<1>3. ASSUME NEW r \in Requests, SubmitPayment(r)
      PROVE  SettledLedger'
  <2>1. CASE StorePayment(r)
    <3>1. payment[r].status # "settled"
      <4>1. payment[r] = NoRow
        BY <2>1, StoreGoesOn
      <4>2. NoRow.status = "none"
        BY DEF NoRow
      <4> QED
        BY <4>1, <4>2
    <3>2. Becomes(r, {"validated", "rejected"}) /\ UNCHANGED ledger
      BY <1>1, <2>1, StoreEffect
    <3> QED
      BY <1>1, <3>1, <3>2, UnsettledStep
  <2>2. CASE UNCHANGED <<payment, ledger>>
    BY <1>2, <2>2
  <2> QED
    BY <1>3, <2>1, <2>2 DEF SubmitPayment, StoreRequest, RefuseRequest, LoseRequest
<1>4. ASSUME NEW r \in Requests, ClearPayment(r)
      PROVE  SettledLedger'
  <2>1. /\ payment[r].status # "settled" /\ UNCHANGED ledger
        /\ Becomes(r, {"failed"}) \/ Becomes(r, {"awaiting_response"})
    BY <1>1, <1>4, ClearEffect
  <2> QED
    BY <1>1, <2>1, UnsettledStep
<1>5. ASSUME NEW r \in Requests, AcceptPayment(r)
      PROVE  SettledLedger'
  <2>1. payment[r].status # "settled" /\ UNCHANGED ledger /\ Becomes(r, {"accepted"})
    BY <1>1, <1>5, AcceptEffect
  <2> QED
    BY <1>1, <2>1, UnsettledStep
<1>6. ASSUME NEW r \in Requests, NEW text \in Reasons, RejectPayment(r, text)
      PROVE  SettledLedger'
  <2>1. payment[r].status # "settled" /\ UNCHANGED ledger /\ Becomes(r, {"failed"})
    BY <1>1, <1>6, RejectEffect
  <2> QED
    BY <1>1, <2>1, UnsettledStep
<1>7. ASSUME NEW r \in Requests, SettlePayment(r)
      PROVE  SettledLedger'
  BY <1>1, <1>7, SettlementStep
<1>8. ASSUME NEW a \in Suspendable, SetAccountStatus(a)
      PROVE  SettledLedger'
  BY <1>2, <1>8 DEF SetAccountStatus
<1>9. CASE UNCHANGED vars
  BY <1>2, <1>9 DEF vars
<1> QED
  BY <1>3, <1>4, <1>5, <1>6, <1>7, <1>8, <1>9 DEF Next

\* A stored payment has reached the status it has.
LEMMA StatusReached ==
  ASSUME HistoryInvariant, NEW r \in Stored
  PROVE  /\ payment[r].log # << >>
         /\ payment[r].log[Len(payment[r].log)].to_state = payment[r].status
         /\ payment[r].status \in PaymentState
         /\ Reached(r, payment[r].status)
         /\ Seen(r, payment[r].status)
<1> DEFINE log == payment[r].log
<1>1. r \in Requests
  BY DEF Stored
<1>2. log \in Seq(TransitionRow)
  BY <1>1 DEF HistoryInvariant, TypeOK, CommittedRow
<1>3. log # << >> /\ log[Len(log)].to_state = payment[r].status
  BY DEF HistoryInvariant, AuditTrail
<1>4. Len(log) \in DOMAIN log
  <2> HIDE DEF log
  <2> QED
    BY <1>2, <1>3
<1>5. log[Len(log)] \in TransitionRow
  <2> HIDE DEF log
  <2> QED
    BY <1>2, <1>4
<1>6. payment[r].status \in PaymentState
  BY <1>3, <1>5 DEF TransitionRow
<1>7. Reached(r, payment[r].status)
  BY <1>3, <1>4 DEF Reached
<1> QED
  BY <1>3, <1>6, <1>7 DEF Seen

\* A state that a payment was in stays in its log.
LEMMA ReachedStays ==
  ASSUME RailInvariant, [Next]_vars, NEW r \in Requests, NEW status, Reached(r, status)
  PROVE  Reached(r, status)'
<1>1. PICK i \in DOMAIN payment[r].log : payment[r].log[i].to_state = status
  BY DEF Reached
<1>2. payment[r].log \in Seq(TransitionRow) /\ payment'[r].log \in Seq(TransitionRow)
  BY TypeStep DEF RailInvariant, HistoryInvariant, TypeOK, CommittedRow
<1>3. Len(payment[r].log) <= Len(payment'[r].log) /\ payment'[r].log[i] = payment[r].log[i]
  BY FinalStep DEF RailInvariant, KeepsHistory
<1>4. i \in DOMAIN payment'[r].log
  BY <1>1, <1>2, <1>3
<1>5. \E j \in DOMAIN payment'[r].log : payment'[r].log[j].to_state = status
  BY <1>1, <1>3, <1>4
<1> QED
  BY <1>5 DEF Reached

\* Whatever the rail does, what was seen stays true, and an end with its ledger stays.
LEMMA RailStep ==
  ASSUME RailInvariant, [Next]_vars
  PROVE  /\ RailInvariant'
         /\ \A r \in Requests : /\ r \in Stored => r \in Stored'
                                /\ \A status : Seen(r, status) => Seen(r, status)'
                                /\ payment[r].status \in Terminal => payment'[r] = payment[r]
                                /\ ledger[r] # NoLedger => ledger'[r] = ledger[r]
<1>1. HistoryInvariant /\ SettledLedger
  BY DEF RailInvariant
<1>2. RailInvariant'
  <2>1. TypeOK' /\ AuditTrail' /\ SettledLedger'
    BY <1>1, TypeStep, AuditStep, SettledLedgerStep DEF HistoryInvariant
  <2> QED
    BY <2>1 DEF RailInvariant, HistoryInvariant
<1>3. KeepsHistory
  BY <1>1, FinalStep
<1>4. Stored \subseteq Stored'
  BY <1>1, AnswersStay
<1>5. ASSUME NEW r \in Requests, NEW status, Seen(r, status)
      PROVE  Seen(r, status)'
  <2>1. Reached(r, status)'
    BY <1>5, ReachedStays DEF Seen
  <2>2. status \in Terminal => payment'[r].status = status
    BY <1>3, <1>5 DEF Seen, KeepsHistory
  <2>3. r \in Stored' /\ status \in PaymentState
    BY <1>4, <1>5 DEF Seen
  <2> QED
    BY <2>1, <2>2, <2>3 DEF Seen
<1> QED
  BY <1>2, <1>3, <1>4, <1>5 DEF KeepsHistory

-----------------------------------------------------------------------------
(* Reconciliation                                                           *)

\* The total of one row is its amount.
LEMMA TotalOfOne ==
  ASSUME NEW f, NEW x, f[x] \in Int
  PROVE  Total(f, {x}) = f[x]
<1>1. Total(f, {} \cup {x}) = Total(f, {}) + f[x]
  BY FS_EmptySet, TotalAdd
<1>2. {} \cup {x} = {x} /\ Total(f, {}) = 0
  BY TotalEmpty
<1> QED
  BY <1>1, <1>2

\* What the aggregates find in the two entries of a settlement.
LEMMA Aggregates ==
  ASSUME NEW r \in Requests, NEW l, EntriesAre(l, r)
  PROVE  /\ CountOf(l, "debit") = 1 /\ CountOf(l, "credit") = 1
         /\ SumOf(l, "debit") = Amount(r) /\ SumOf(l, "credit") = Amount(r)
         /\ CountFor(l, "debit", Doc[r].DbtrAcct) = 1
         /\ CountFor(l, "credit", Doc[r].CdtrAcct) = 1
<1> DEFINE amounts == [i \in DOMAIN l.entries |-> l.entries[i].amount]
<1>1. OfType(l, "debit") = {1} /\ OfType(l, "credit") = {2}
  BY DEF OfType, EntriesAre
<1>2. amounts[1] = Amount(r) /\ amounts[2] = Amount(r)
  BY DEF EntriesAre
<1>3. Amount(r) \in Int
  BY AmountType
<1>4. SumOf(l, "debit") = Total(amounts, {1}) /\ SumOf(l, "credit") = Total(amounts, {2})
  BY <1>1 DEF SumOf
<1> HIDE DEF amounts
<1>5. SumOf(l, "debit") = Amount(r) /\ SumOf(l, "credit") = Amount(r)
  BY <1>2, <1>3, <1>4, TotalOfOne
<1>6. /\ {i \in OfType(l, "debit") : l.entries[i].account_id = Doc[r].DbtrAcct} = {1}
      /\ {i \in OfType(l, "credit") : l.entries[i].account_id = Doc[r].CdtrAcct} = {2}
  BY <1>1 DEF EntriesAre
<1>7. Cardinality({1}) = 1 /\ Cardinality({2}) = 1
  BY FS_Singleton
<1>8. CountOf(l, "debit") = 1 /\ CountOf(l, "credit") = 1
  BY <1>1, <1>7 DEF CountOf
<1>9. /\ CountFor(l, "debit", Doc[r].DbtrAcct) = 1
      /\ CountFor(l, "credit", Doc[r].CdtrAcct) = 1
  BY <1>6, <1>7 DEF CountFor
<1> QED
  BY <1>5, <1>8, <1>9

\* All ten checks of a settled payment succeed on the ledger its settlement wrote.
LEMMA SettledPasses ==
  ASSUME NEW r \in Requests
  PROVE  Outcome(SettledChecks(r, LedgerOf(r))) = "pass"
<1> DEFINE l == LedgerOf(r)
           checks == SettledChecks(r, l)
<1>1. EntriesAre(l, r) /\ l # NoLedger
  BY EntriesOf
<1>2. Len(l.entries) = 2 /\ l.currency = Doc[r].Ccy
  BY DEF LedgerOf
<1> HIDE DEF l
<1>3. TransactionCount(l) = 1
  BY <1>1 DEF TransactionCount
<1>4. checks = [single_ledger_transaction |-> TRUE, exactly_two_ledger_entries |-> TRUE,
                single_debit_entry |-> TRUE, single_credit_entry |-> TRUE,
                debit_matches_payment |-> TRUE, credit_matches_payment |-> TRUE,
                debits_equal_credits |-> TRUE, currency_matches |-> TRUE,
                debtor_was_debited |-> TRUE, creditor_was_credited |-> TRUE]
  BY <1>1, <1>2, <1>3, Aggregates DEF SettledChecks
<1> HIDE DEF checks
<1>5. \A name \in DOMAIN checks : checks[name] = TRUE
  BY <1>4
<1>6. Outcome(checks) = "pass"
  BY <1>5 DEF Outcome
<1> QED
  BY <1>6 DEF checks, l

\* Both checks of a payment that moved no money succeed when there is no ledger.
LEMMA UnsettledPasses == Outcome(UnsettledChecks(NoLedger)) = "pass"
<1> DEFINE checks == UnsettledChecks(NoLedger)
<1>1. TransactionCount(NoLedger) = 0 /\ Len(NoLedger.entries) = 0
  BY DEF TransactionCount, NoLedger
<1>2. checks = [no_ledger_transaction |-> TRUE, no_ledger_entries |-> TRUE]
  BY <1>1 DEF UnsettledChecks
<1> HIDE DEF checks
<1>3. \A name \in DOMAIN checks : checks[name] = TRUE
  BY <1>2
<1>4. Outcome(checks) = "pass"
  BY <1>3 DEF Outcome
<1> QED
  BY <1>4 DEF checks

\* The verdict on a status that was seen, however long ago, and the ledger as it is now: a
\* pass exactly at the payment's end, and never a failure.
LEMMA Verdicts ==
  ASSUME RailInvariant, NEW r, NEW status, Seen(r, status)
  PROVE  Judgement(r, status, ledger[r]) = IF status \in Terminal THEN "pass" ELSE "pending"
<1>1. r \in Requests
  BY DEF Seen, Stored
<1>2. ledger[r] = IF payment[r].status = "settled" THEN LedgerOf(r) ELSE NoLedger
  BY <1>1 DEF RailInvariant, SettledLedger
<1>3. CASE status = "settled"
  <2>1. ledger[r] = LedgerOf(r)
    BY <1>2, <1>3 DEF Seen, Terminal
  <2>2. Judgement(r, status, ledger[r]) = Outcome(SettledChecks(r, LedgerOf(r)))
    BY <1>3, <2>1 DEF Judgement
  <2> QED
    BY <1>1, <1>3, <2>2, SettledPasses DEF Terminal
<1>4. CASE status \in {"failed", "rejected"}
  <2>1. ledger[r] = NoLedger
    BY <1>2, <1>4 DEF Seen, Terminal
  <2>2. Judgement(r, status, ledger[r]) = Outcome(UnsettledChecks(NoLedger))
    BY <1>4, <2>1 DEF Judgement
  <2> QED
    BY <1>4, <2>2, UnsettledPasses DEF Terminal
<1>5. CASE status \notin Terminal
  BY <1>5 DEF Judgement, Terminal
<1> QED
  BY <1>3, <1>4, <1>5 DEF Terminal

\* A report: a request in hand or the last answer, for which "fail" has no place.
ReportRow ==
  [payment : Requests \cup {""}, status : PaymentState \cup {""},
   answer : {"none", "reading", "pass", "pending"}]

\* What a report says of its payment was seen, and its verdict is the one for that status.
TrueReport(request) ==
  /\ request \in ReportRow
  /\ request.answer # "none" => Seen(request.payment, request.status)
  /\ request.answer = "pass" => request.status \in Terminal
  /\ request.answer = "pending" => request.status \notin Terminal

\* The inductive invariant of reconciliation: NoFalseAlarm does not say that the status
\* that a request in hand has read may be relied on when it reads the ledger.
ReportsTrue == /\ report \in [Clients -> ReportRow]
               /\ \A c \in Clients : TrueReport(report[c])

ReconInvariant == RailInvariant /\ ReportsTrue

\* A report stays true whatever the rail does.
LEMMA ReportStays ==
  ASSUME RailInvariant, [Next]_vars, NEW request, TrueReport(request)
  PROVE  TrueReport(request)'
<1>1. request.answer # "none" =>
        request.payment \in Requests /\ Seen(request.payment, request.status)
  BY DEF TrueReport, Seen, Stored
<1>2. request.answer # "none" => Seen(request.payment, request.status)'
  BY <1>1, RailStep
<1> QED
  BY <1>2 DEF TrueReport

\* The first statement sees the payment's row.
LEMMA FirstRead ==
  ASSUME RailInvariant, ReportsTrue, NEW c \in Clients, NEW r \in Requests, ReadPayment(c, r)
  PROVE  LET request == [payment |-> r, status |-> payment[r].status, answer |-> "reading"]
         IN report' = [report EXCEPT ![c] = request] /\ TrueReport(request)
<1>1. Seen(r, payment[r].status) /\ payment[r].status \in PaymentState
  BY StatusReached DEF ReadPayment, RailInvariant
<1> QED
  BY <1>1 DEF ReadPayment, TrueReport, ReportRow

\* The second statement's verdict is true whatever happened since the first.
LEMMA SecondRead ==
  ASSUME RailInvariant, ReportsTrue, NEW c \in Clients, ReadLedger(c)
  PROVE  \E request : /\ report' = [report EXCEPT ![c] = request] /\ TrueReport(request)
                      /\ report[c].answer = "reading" /\ request.answer # "none"
                      /\ request.payment = report[c].payment
                      /\ request.status = report[c].status
<1> DEFINE old == report[c]
           answer == Judgement(old.payment, old.status, ledger[old.payment])
           request == [old EXCEPT !.answer = answer]
<1>1. old.answer = "reading" /\ report' = [report EXCEPT ![c] = request]
  BY DEF ReadLedger
<1>2. TrueReport(old)
  BY DEF ReportsTrue
<1>3. Seen(old.payment, old.status)
  BY <1>1, <1>2 DEF TrueReport
<1>4. answer = IF old.status \in Terminal THEN "pass" ELSE "pending"
  BY <1>3, Verdicts
<1> HIDE DEF old, answer
<1>5. /\ request \in ReportRow /\ request.answer = answer
      /\ request.payment = old.payment /\ request.status = old.status
  BY <1>2, <1>4 DEF TrueReport, ReportRow
<1>6. TrueReport(request) /\ request.answer # "none"
  BY <1>3, <1>4, <1>5 DEF TrueReport
<1> QED
  BY <1>1, <1>5, <1>6 DEF old

\* A request that takes the place of one client's leaves all reports true.
LEMMA OneReport ==
  ASSUME RailInvariant, ReportsTrue, [Next]_vars,
         NEW c \in Clients, NEW request, TrueReport(request),
         report' = [report EXCEPT ![c] = request]
  PROVE  ReportsTrue'
<1>1. report' \in [Clients -> ReportRow]
  BY DEF ReportsTrue, TrueReport
<1>2. ASSUME NEW d \in Clients, NEW q, q = report'[d]
      PROVE  TrueReport(q)'
  <2>1. TrueReport(q)
    BY <1>2 DEF ReportsTrue
  <2> QED
    BY <2>1, ReportStays
<1>3. \A d \in Clients : TrueReport(report[d])'
  BY <1>2
<1> QED
  BY <1>1, <1>3 DEF ReportsTrue

\* A step that leaves the requests as they are leaves all reports true.
LEMMA SameReports ==
  ASSUME RailInvariant, ReportsTrue, [Next]_vars, UNCHANGED report
  PROVE  ReportsTrue'
<1>1. ASSUME NEW d \in Clients, NEW q, q = report'[d]
      PROVE  TrueReport(q)'
  <2>1. TrueReport(q)
    BY <1>1 DEF ReportsTrue
  <2> QED
    BY <2>1, ReportStays
<1>2. \A d \in Clients : TrueReport(report[d])'
  BY <1>1
<1>3. report' \in [Clients -> ReportRow]
  BY DEF ReportsTrue
<1> QED
  BY <1>2, <1>3 DEF ReportsTrue

\* At the start there is no payment and no request.
LEMMA ReconStart == ReconInit => ReconInvariant
<1> SUFFICES ASSUME ReconInit PROVE ReconInvariant
  OBVIOUS
<1>1. HistoryInvariant
  <2>1. Stored = {}
    BY DEF ReconInit, Init, Stored
  <2> QED
    BY <2>1, TypeInit DEF ReconInit, HistoryInvariant, AuditTrail
<1>2. SettledLedger
  <2>1. NoRow.status = "none"
    BY DEF NoRow
  <2> QED
    BY <2>1 DEF ReconInit, Init, SettledLedger
<1>3. ReportsTrue
  <2>1. NoReport \in ReportRow /\ NoReport.answer = "none"
    BY DEF NoReport, ReportRow
  <2>2. TrueReport(NoReport)
    BY <2>1 DEF TrueReport
  <2> QED
    BY <2>1, <2>2 DEF ReconInit, ReportsTrue
<1> QED
  BY <1>1, <1>2, <1>3 DEF ReconInvariant, RailInvariant

\* Every step of the rail and of a report keeps the reports true.
LEMMA ReconStep == ReconInvariant /\ [ReconNext]_reconVars => ReconInvariant'
<1> SUFFICES ASSUME ReconInvariant, [ReconNext]_reconVars PROVE ReconInvariant'
  OBVIOUS
<1>1. RailInvariant /\ ReportsTrue
  BY DEF ReconInvariant
<1>2. [Next]_vars
  BY DEF ReconNext, ReadPayment, ReadLedger, reconVars
<1>3. RailInvariant'
  BY <1>1, <1>2, RailStep
<1>4. ASSUME NEW c \in Clients, NEW r \in Requests, ReadPayment(c, r)
      PROVE  ReportsTrue'
  BY <1>1, <1>2, <1>4, FirstRead, OneReport
<1>5. ASSUME NEW c \in Clients, ReadLedger(c)
      PROVE  ReportsTrue'
  <2>1. PICK request : report' = [report EXCEPT ![c] = request] /\ TrueReport(request)
    BY <1>1, <1>5, SecondRead
  <2> QED
    BY <1>1, <1>2, <2>1, OneReport
<1>6. ASSUME UNCHANGED report
      PROVE  ReportsTrue'
  BY <1>1, <1>2, <1>6, SameReports
<1> QED
  BY <1>3, <1>4, <1>5, <1>6 DEF ReconNext, reconVars, ReconInvariant

\* The invariant is what is stated of reports.
LEMMA ReconPromises == RailInvariant /\ ReportsTrue => NoFalseAlarm /\ PassIsFinal
<1> SUFFICES ASSUME RailInvariant, ReportsTrue PROVE NoFalseAlarm /\ PassIsFinal
  OBVIOUS
<1>1. ASSUME NEW c \in Clients
      PROVE  report[c].answer # "fail"
  BY DEF ReportsTrue, ReportRow
<1>2. ASSUME NEW c \in Clients, report[c].answer = "pass"
      PROVE  /\ payment[report[c].payment].status = report[c].status
             /\ report[c].status \in Terminal
             /\ ledger[report[c].payment] # NoLedger <=> report[c].status = "settled"
  <2> DEFINE r == report[c].payment
  <2>1. Seen(r, report[c].status) /\ report[c].status \in Terminal
    BY <1>2 DEF ReportsTrue, TrueReport
  <2>2. r \in Requests /\ payment[r].status = report[c].status
    BY <2>1 DEF Seen, Stored
  <2>3. ledger[r] = IF payment[r].status = "settled" THEN LedgerOf(r) ELSE NoLedger
    BY <2>2 DEF RailInvariant, SettledLedger
  <2>4. LedgerOf(r) # NoLedger
    BY <2>2, EntriesOf
  <2> QED
    BY <2>1, <2>2, <2>3, <2>4
<1> QED
  BY <1>1, <1>2 DEF NoFalseAlarm, PassIsFinal

-----------------------------------------------------------------------------
(* What the page says                                                       *)

\* What a panel shows.
Panel ==
  [payment : Requests \cup {""},
   value : PaymentState \cup {"", "pass", "pending", "error", "entries", "no entries",
                              "not yet"}]

PageRow ==
  [asked : Requests \cup {""}, mixed : BOOLEAN, error : BOOLEAN, status : Panel,
   log : Panel, reconciliation : Panel, ledger : Panel, entries : Seq(Entry)]

TrueState(panel) == panel.payment # "" => Reached(panel.payment, panel.value)

TrueVerdict(panel) ==
  panel.payment # "" => /\ panel.value # "fail"
                        /\ panel.value = "pass" => payment[panel.payment].status \in Terminal

TrueLedger(panel, entries) ==
  panel.payment # "" =>
    /\ panel.value = "entries" => /\ payment[panel.payment].status = "settled"
                                  /\ entries = ledger[panel.payment].entries
                                  /\ Len(entries) = 2
    /\ panel.value = "no entries" => /\ payment[panel.payment].status \in Terminal
                                     /\ ledger[panel.payment] = NoLedger

\* Page p is one that PanelsTrue may be said of.
TruePage(p) ==
  /\ p \in PageRow /\ TrueState(p.status) /\ TrueState(p.log)
  /\ TrueVerdict(p.reconciliation) /\ TrueLedger(p.ledger, p.entries)

\* The parts of TruePage are those of PanelsTrue.
LEMMA PanelsOf == TruePage(page) => PanelsTrue
BY DEF TruePage, TrueState, TrueVerdict, TrueLedger, PanelsTrue

\* Every panel of the page has its type, and the panels of an empty page say nothing.
LEMMA EmptyPage ==
  /\ Blank \in Panel /\ NoPage \in PageRow /\ TruePage(NoPage)
  /\ NoPage.asked = "" /\ ~NoPage.mixed /\ ~NoPage.error
  /\ NoPage.status.payment = "" /\ NoPage.log.payment = ""
  /\ NoPage.reconciliation.payment = "" /\ NoPage.ledger.payment = ""
  /\ Blank.payment = "" /\ TrueState(Blank) /\ TrueVerdict(Blank)
  /\ \A entries : TrueLedger(Blank, entries)
<1>1. Blank \in Panel /\ Blank.payment = ""
  BY DEF Blank, Panel
<1>2. /\ NoPage.asked = "" /\ ~NoPage.mixed /\ ~NoPage.error
      /\ NoPage.status = Blank /\ NoPage.log = Blank /\ NoPage.reconciliation = Blank
      /\ NoPage.ledger = Blank
  BY DEF NoPage
<1>3. << >> \in Seq(Entry)
  OBVIOUS
<1>4. NoPage \in PageRow
  BY <1>1, <1>3 DEF NoPage, PageRow
<1>5. TrueState(Blank) /\ TrueVerdict(Blank) /\ \A entries : TrueLedger(Blank, entries)
  BY <1>1 DEF TrueState, TrueVerdict, TrueLedger
<1> QED
  BY <1>1, <1>2, <1>4, <1>5 DEF TruePage

\* What is shown of a payment is a panel.
LEMMA PanelType ==
  ASSUME NEW r \in Requests,
         NEW value \in PaymentState \cup {"", "pass", "pending", "error", "entries",
                                          "no entries", "not yet"}
  PROVE  Shows(r, value) \in Panel /\ Shows(r, value).payment = r
         /\ Shows(r, value).value = value
BY DEF Shows, Panel

\* What a panel says stays true whatever the rail does.
LEMMA PageStays ==
  ASSUME RailInvariant, [Next]_vars, NEW p, TruePage(p)
  PROVE  TruePage(p)'
<1>1. RailInvariant'
  BY RailStep
<1>2. ASSUME NEW panel \in Panel, panel.payment # ""
      PROVE  /\ panel.payment \in Requests
             /\ payment[panel.payment].status \in Terminal =>
                  payment'[panel.payment] = payment[panel.payment]
  <2>1. panel.payment \in Requests
    BY <1>2 DEF Panel
  <2> QED
    BY <2>1, RailStep
<1>3. ASSUME NEW panel \in Panel, TrueState(panel)
      PROVE  TrueState(panel)'
  <2>1. SUFFICES ASSUME panel.payment # ""
                 PROVE  Reached(panel.payment, panel.value)'
    BY DEF TrueState
  <2>2. panel.payment \in Requests /\ Reached(panel.payment, panel.value)
    BY <1>2, <1>3, <2>1 DEF TrueState
  <2> QED
    BY <2>2, ReachedStays
<1>4. ASSUME NEW panel \in Panel, TrueVerdict(panel)
      PROVE  TrueVerdict(panel)'
  BY <1>2, <1>4 DEF TrueVerdict
<1>5. ASSUME NEW panel \in Panel, NEW entries, TrueLedger(panel, entries)
      PROVE  TrueLedger(panel, entries)'
  <2> DEFINE r == panel.payment
  <2>1. SUFFICES ASSUME panel.payment # ""
                 PROVE  TrueLedger(panel, entries)'
    BY DEF TrueLedger
  <2>2. /\ r \in Requests
        /\ payment[r].status \in Terminal => payment'[r] = payment[r]
    BY <1>2, <2>1
  <2>3. /\ ledger[r] = IF payment[r].status = "settled" THEN LedgerOf(r) ELSE NoLedger
        /\ ledger'[r] = IF payment'[r].status = "settled" THEN LedgerOf(r) ELSE NoLedger
    <3>1. (\A q \in Requests :
            ledger[q] = IF payment[q].status = "settled" THEN LedgerOf(q) ELSE NoLedger)'
      BY <1>1 DEF RailInvariant, SettledLedger
    <3> QED
      BY <2>2, <3>1 DEF RailInvariant, SettledLedger
  <2>4. payment[r].status \in Terminal => payment'[r] = payment[r] /\ ledger'[r] = ledger[r]
    BY <2>2, <2>3
  <2>5. "settled" \in Terminal
    BY DEF Terminal
  <2> QED
    BY <1>5, <2>1, <2>4, <2>5 DEF TrueLedger
<1>6. /\ p.status \in Panel /\ p.log \in Panel /\ p.reconciliation \in Panel
      /\ p.ledger \in Panel
  BY DEF TruePage, PageRow
<1>7. /\ TrueState(p.status)' /\ TrueState(p.log)' /\ TrueVerdict(p.reconciliation)'
      /\ TrueLedger(p.ledger, p.entries)'
  BY <1>3, <1>4, <1>5, <1>6 DEF TruePage
<1> QED
  BY <1>7 DEF TruePage

-----------------------------------------------------------------------------
(* What a handler knows                                                     *)

\* A handler that runs, or none.
TaskRow ==
  [kind : {"none", "submit", "lookup"}, payment : Requests \cup {""},
   at : {"idle", "posting", "looking", "answered", "polling", "first look", "inspecting",
         "ledger", "entries"},
   status : PaymentState \cup {""}, attempts : Nat, loads : SUBSET Loads]

\* A handler that has had an answer and goes on with it.
HasAnswer(t) ==
  t.at \in {"answered", "polling", "first look", "inspecting", "ledger", "entries"}

\* The status that a handler goes on with was seen, it inspects only what has ended, asks
\* for the entries only of what was settled, and what was in flight when it was abandoned
\* is about a payment that is there.
TrueTask(t) ==
  /\ t \in TaskRow
  /\ t.at \in {"posting", "looking"} => t.payment \in Requests
  /\ HasAnswer(t) => Seen(t.payment, t.status)
  /\ t.loads # {} => t.payment \in Stored
  /\ t.loads # {} => t.at \in {"first look", "inspecting", "idle"}
  /\ t.at \in {"inspecting", "ledger", "entries"} => t.status \in Terminal
  /\ t.at \in {"ledger", "entries"} => t.status = "settled"

\* A client's request for a report is its handler's, and made after the payment's end if
\* the handler inspects it.
Asks(t, request) ==
  request.answer # "none" =>
    /\ "reconciliation" \in t.loads /\ request.payment = t.payment
    /\ t.at = "inspecting" => request.status \in Terminal

\* What was seen stays true whatever the rail does.
LEMMA TaskStays ==
  ASSUME RailInvariant, [Next]_vars, NEW t, TrueTask(t)
  PROVE  TrueTask(t)'
<1>1. /\ HasAnswer(t) => t.payment \in Requests /\ Seen(t.payment, t.status)
      /\ t.loads # {} => t.payment \in Requests /\ t.payment \in Stored
  BY DEF TrueTask, Seen, Stored
<1>2. /\ HasAnswer(t) => Seen(t.payment, t.status)'
      /\ t.loads # {} => t.payment \in Stored'
  BY <1>1, RailStep
<1> QED
  BY <1>2 DEF TrueTask

\* What is true of reports, handlers and the page together.
ConsoleTruth ==
  /\ RailInvariant /\ ReportsTrue
  /\ task \in [Clients -> TaskRow]
  /\ \A c \in Clients : TrueTask(task[c]) /\ Asks(task[c], report[c])
  /\ TruePage(page)

\* A step of client c's handler keeps all that, if it is true of what it leaves of the
\* handler, its request and the page.
LEMMA TruthAfter ==
  ASSUME ConsoleTruth, [Next]_vars, NEW c \in Clients, NEW t, NEW request, NEW p,
         task' = [task EXCEPT ![c] = t], report' = [report EXCEPT ![c] = request],
         page' = p, TrueTask(t)', TrueReport(request), Asks(t, request), TruePage(p)'
  PROVE  ConsoleTruth'
<1>1. RailInvariant' /\ ReportsTrue'
  BY RailStep, OneReport DEF ConsoleTruth
<1>2. task' \in [Clients -> TaskRow]
  BY DEF ConsoleTruth, TrueTask
<1>3. ASSUME NEW d \in Clients, NEW u, u = task'[d]
      PROVE  TrueTask(u)'
  <2>1. CASE d = c
    BY <1>3, <2>1 DEF ConsoleTruth
  <2>2. CASE d # c
    <3>1. TrueTask(u)
      BY <1>3, <2>2 DEF ConsoleTruth
    <3> QED
      BY <3>1, TaskStays DEF ConsoleTruth
  <2> QED
    BY <2>1, <2>2
<1>4. \A d \in Clients : TrueTask(task[d])'
  BY <1>3
<1>5. \A d \in Clients : Asks(task'[d], report'[d])
  BY DEF ConsoleTruth, ReportsTrue
<1>6. (\A d \in Clients : Asks(task[d], report[d]))'
  BY <1>5
<1>7. TruePage(page)'
  <2>1. ASSUME NEW q, q = page'
        PROVE  TruePage(q)'
    BY <2>1
  <2> QED
    BY <2>1
<1> QED
  BY <1>1, <1>2, <1>4, <1>6, <1>7 DEF ConsoleTruth

-----------------------------------------------------------------------------
(* A handler alone on the page                                              *)

\* What handler t has put on page p: from the moment it inspects the payment's end, its
\* status, and the log and the report as soon as they are there.
Inspected(t, p) ==
  /\ t.at # "idle"
  /\ t.at \in {"inspecting", "ledger", "entries"} =>
       /\ p.status = Shows(t.payment, t.status)
       /\ "log" \notin t.loads => p.log = Shows(t.payment, t.status)
       /\ "reconciliation" \notin t.loads =>
            p.reconciliation \in {Shows(t.payment, "pass"), Shows(t.payment, "error")}

\* A handler that began alone is alone, and unless a request failed it has put on the page
\* all that its place says.
SoleHandler ==
  ~page.mixed => \A c \in Clients : Busy(c) =>
    /\ task[c].payment = page.asked
    /\ \A d \in Clients : Busy(d) => d = c
    /\ ~page.error => Inspected(task[c], page)

\* The payments that the panels of page p name.
Names(p) == {p.status.payment, p.log.payment, p.reconciliation.payment, p.ledger.payment}

\* What InspectionAgrees says of a page p that is done.
Agreed(p) ==
  /\ payment[p.asked].status \in Terminal
  /\ p.status = Shows(p.asked, payment[p.asked].status)
  /\ p.log = Shows(p.asked, payment[p.asked].status)
  /\ p.reconciliation \in {Shows(p.asked, "pass"), Shows(p.asked, "error")}
  /\ p.ledger = Shows(p.asked, IF payment[p.asked].status = "settled" THEN "entries"
                               ELSE "no entries")

\* A step of a handler leaves it alone if it was; if it ends there, the page must agree.
LEMMA AloneAfter ==
  ASSUME task \in [Clients -> TaskRow], SoleHandler, NEW c \in Clients, Busy(c),
         NEW t, NEW p, task' = [task EXCEPT ![c] = t], page' = p,
         p.mixed <=> page.mixed, p.asked = page.asked, page.error => p.error,
         Names(p) \subseteq Names(page) \cup {"", task[c].payment},
         t # NoTask => t.payment = task[c].payment,
         /\ ~p.error /\ Inspected(task[c], page)
            => IF t # NoTask THEN Inspected(t, p)
               ELSE task[c].payment = p.asked => Agreed(p)'
  PROVE  SoleHandler' /\ InspectionAgrees'
         /\ (NoForeignPanel => NoForeignPanel')
<1>1. \A d \in Clients : task'[d] = IF d = c THEN t ELSE task[d]
  OBVIOUS
<1>2. CASE page.mixed
  <2>1. page'.mixed
    BY <1>2
  <2> QED
    BY <2>1 DEF SoleHandler, InspectionAgrees, NoForeignPanel
<1>3. CASE ~page.mixed
  <2>1. /\ task[c].payment = page.asked
        /\ \A d \in Clients : task[d] # NoTask => d = c
        /\ ~page.error => Inspected(task[c], page)
    BY <1>3 DEF SoleHandler, Busy
  <2>2. \A d \in Clients : task'[d] # NoTask => d = c /\ t # NoTask
    BY <1>1, <2>1
  <2>3. ASSUME t # NoTask PROVE SoleHandler' /\ InspectionAgrees'
    <3>1. ~InspectionAgrees' => FALSE
      BY <1>1, <2>3 DEF InspectionAgrees, Busy
    <3>2. task'[c] = t /\ task'[c].payment = page'.asked
      BY <1>1, <2>1, <2>3
    <3>3. ~page'.error => Inspected(task'[c], page')
      BY <2>1, <2>3, <3>2
    <3>4. \A d \in Clients : task'[d] # NoTask =>
            /\ task'[d].payment = page'.asked
            /\ \A e \in Clients : task'[e] # NoTask => e = d
            /\ ~page'.error => Inspected(task'[d], page')
      BY <2>2, <3>2, <3>3
    <3>5. SoleHandler'
      BY <3>4 DEF SoleHandler, Busy, Inspected
    <3> QED
      BY <3>1, <3>5
  <2>4. ASSUME t = NoTask PROVE SoleHandler' /\ InspectionAgrees'
    <3>1. SoleHandler'
      BY <2>2, <2>4 DEF SoleHandler, Busy
    <3>2. ~p.error => Agreed(p)'
      BY <2>1, <2>4
    <3>3. InspectionAgrees'
      BY <3>2 DEF InspectionAgrees, Agreed
    <3> QED
      BY <3>1, <3>3
  <2>5. ASSUME NoForeignPanel PROVE NoForeignPanel'
    <3>1. Names(page) \subseteq {"", page.asked}
      BY <1>3, <2>5 DEF NoForeignPanel, Names
    <3>2. Names(page') \subseteq {"", page'.asked}
      BY <2>1, <3>1
    <3> QED
      BY <3>2 DEF NoForeignPanel, Names
  <2> QED
    BY <2>3, <2>4, <2>5
<1> QED
  BY <1>2, <1>3

\* The inductive invariant of the console.  That the panels are true needs what each
\* handler still knows of its payment; that they agree needs in addition what a handler
\* that is alone has put on the page so far.
ConsoleInvariant == ConsoleTruth /\ SoleHandler /\ InspectionAgrees /\ NoForeignPanel

\* A step of the rail under the page.
LEMMA RailUnderPage ==
  ASSUME ConsoleInvariant, [Next]_vars, UNCHANGED <<report, task, page>>
  PROVE  ConsoleInvariant'
<1>1. RailInvariant' /\ ReportsTrue'
  BY RailStep, SameReports DEF ConsoleInvariant, ConsoleTruth
<1>2. ASSUME NEW d \in Clients, NEW u, u = task'[d]
      PROVE  TrueTask(u)'
  <2>1. TrueTask(u)
    BY <1>2 DEF ConsoleInvariant, ConsoleTruth
  <2> QED
    BY <2>1, TaskStays DEF ConsoleInvariant, ConsoleTruth
<1>3. (\A d \in Clients : Asks(task[d], report[d]))'
  BY DEF ConsoleInvariant, ConsoleTruth, Asks
<1>4. ASSUME NEW p, p = page'
      PROVE  TruePage(p)'
  BY <1>4, PageStays DEF ConsoleInvariant, ConsoleTruth
<1>5. ConsoleTruth'
  <2>1. \A d \in Clients : TrueTask(task[d])'
    BY <1>2
  <2>2. TruePage(page)'
    BY <1>4
  <2>3. task' \in [Clients -> TaskRow]
    BY DEF ConsoleInvariant, ConsoleTruth
  <2> QED
    BY <1>1, <1>3, <2>1, <2>2, <2>3 DEF ConsoleTruth
<1>6. SoleHandler'
  BY DEF ConsoleInvariant, SoleHandler, Busy, Inspected
<1>7. InspectionAgrees'
  <2>1. CASE page.asked \in Requests /\ payment[page.asked].status \in Terminal
    <3>1. payment'[page.asked] = payment[page.asked]
      BY <2>1, RailStep DEF ConsoleInvariant, ConsoleTruth
    <3> QED
      BY <3>1 DEF ConsoleInvariant, InspectionAgrees, Busy
  <2>2. CASE page.asked = ""
    BY <2>2 DEF InspectionAgrees
  <2>3. page.asked \in Requests \cup {""}
    BY DEF ConsoleInvariant, ConsoleTruth, TruePage, PageRow
  <2>4. CASE ~(payment[page.asked].status \in Terminal)
    BY <2>4 DEF ConsoleInvariant, InspectionAgrees, Busy
  <2> QED
    BY <2>1, <2>2, <2>3, <2>4
<1>8. NoForeignPanel'
  BY DEF ConsoleInvariant, NoForeignPanel
<1> QED
  BY <1>5, <1>6, <1>7, <1>8 DEF ConsoleInvariant

-----------------------------------------------------------------------------
(* The steps of a handler                                                   *)

\* A step of client c's handler that leaves t of it, a request and page p, all of them
\* true before the rail's own part of the step.
LEMMA HandlerAfter ==
  ASSUME ConsoleInvariant, [Next]_vars, NEW c \in Clients, Busy(c),
         NEW t, NEW request, NEW p,
         task' = [task EXCEPT ![c] = t], report' = [report EXCEPT ![c] = request],
         page' = p, TrueTask(t), TrueReport(request), Asks(t, request), TruePage(p),
         p.mixed <=> page.mixed, p.asked = page.asked, page.error => p.error,
         Names(p) \subseteq Names(page) \cup {"", task[c].payment},
         t # NoTask => t.payment = task[c].payment,
         /\ ~p.error /\ Inspected(task[c], page)
            => IF t # NoTask THEN Inspected(t, p)
               ELSE task[c].payment = p.asked => Agreed(p)'
  PROVE  ConsoleInvariant'
<1>1. /\ ConsoleTruth /\ RailInvariant /\ task \in [Clients -> TaskRow] /\ SoleHandler
      /\ NoForeignPanel
  BY DEF ConsoleInvariant, ConsoleTruth
<1>2. TrueTask(t)' /\ TruePage(p)'
  BY <1>1, TaskStays, PageStays
<1>3. ConsoleTruth'
  BY <1>1, <1>2, TruthAfter
<1>4. SoleHandler' /\ InspectionAgrees' /\ NoForeignPanel'
  BY <1>1, AloneAfter
<1> QED
  BY <1>3, <1>4 DEF ConsoleInvariant

\* What is known of client c before a step of its handler.
LEMMA Before ==
  ASSUME ConsoleInvariant, NEW c \in Clients
  PROVE  /\ RailInvariant /\ HistoryInvariant /\ ReportsTrue
         /\ task \in [Clients -> TaskRow] /\ task[c] \in TaskRow /\ TrueTask(task[c])
         /\ report \in [Clients -> ReportRow] /\ TrueReport(report[c])
         /\ Asks(task[c], report[c])
         /\ TruePage(page) /\ page \in PageRow
         /\ report = [report EXCEPT ![c] = report[c]]
         /\ task = [task EXCEPT ![c] = task[c]]
         /\ task[c].at # "idle" \/ task[c].loads # {} => Busy(c)
<1>1. /\ RailInvariant /\ HistoryInvariant /\ ReportsTrue
      /\ task \in [Clients -> TaskRow] /\ TrueTask(task[c])
      /\ report \in [Clients -> ReportRow] /\ TrueReport(report[c])
      /\ Asks(task[c], report[c])
      /\ TruePage(page) /\ page \in PageRow
  BY DEF ConsoleInvariant, ConsoleTruth, RailInvariant, ReportsTrue, TruePage
<1>2. NoTask.at = "idle" /\ NoTask.loads = {}
  BY DEF NoTask
<1> QED
  BY <1>1, <1>2 DEF Busy

\* No handler.
LEMMA NoTaskTrue ==
  /\ NoTask \in TaskRow /\ TrueTask(NoTask)
  /\ NoTask.at = "idle" /\ NoTask.loads = {} /\ NoTask.payment = ""
<1>1. /\ NoTask.at = "idle" /\ NoTask.loads = {} /\ NoTask.payment = ""
      /\ NoTask \in TaskRow
  BY DEF NoTask, TaskRow
<1> QED
  BY <1>1 DEF TrueTask, HasAnswer

\* A load that returns: its handler goes on without it, or was abandoned and may be over.
LEMMA ReturnedTask ==
  ASSUME ConsoleInvariant, NEW c \in Clients, NEW load \in task[c].loads, Returned(c, load)
  PROVE  \E t :
           /\ task' = [task EXCEPT ![c] = t] /\ TrueTask(t)
           /\ t # NoTask => t.payment = task[c].payment
           /\ \A request : /\ Asks(task[c], request)
                           /\ load = "reconciliation" => request.answer = "none"
                          => Asks(t, request)
           /\ task[c].at # "idle" => /\ t # NoTask /\ t.payment = task[c].payment
                                     /\ t.at = task[c].at /\ t.status = task[c].status
                                     /\ t.loads = task[c].loads \ {load}
<1> DEFINE old == task[c]
<1>1. PICK rest : rest = [old EXCEPT !.loads = @ \ {load}]
  OBVIOUS
<1>2. PICK t : t = IF rest.at = "idle" /\ rest.loads = {} THEN NoTask ELSE rest
  OBVIOUS
<1>3. old \in TaskRow /\ TrueTask(old)
  BY Before
<1>4. /\ rest \in TaskRow /\ rest.payment = old.payment /\ rest.at = old.at
      /\ rest.status = old.status /\ rest.loads = old.loads \ {load}
  BY <1>1, <1>3 DEF TaskRow
<1>5. task' = [task EXCEPT ![c] = t]
  BY <1>1, <1>2 DEF Returned
<1>6. old.payment \in Stored /\ old.at \in {"first look", "inspecting", "idle"}
  BY <1>3 DEF TrueTask
<1>7. TrueTask(rest)
  BY <1>3, <1>4, <1>6 DEF TrueTask, HasAnswer
<1>8. TrueTask(t) /\ (t # NoTask => t.payment = old.payment)
  BY <1>2, <1>4, <1>7, NoTaskTrue
<1>9. ASSUME NEW request, Asks(old, request),
             load = "reconciliation" => request.answer = "none"
      PROVE  Asks(t, request)
  <2>1. CASE rest.at = "idle" /\ rest.loads = {}
    <3>1. request.answer = "none"
      BY <1>4, <1>9, <2>1 DEF Asks
    <3> QED
      BY <3>1 DEF Asks
  <2>2. CASE ~(rest.at = "idle" /\ rest.loads = {})
    <3>1. t = rest
      BY <1>2, <2>2
    <3> QED
      BY <1>4, <1>9, <3>1 DEF Asks
  <2> QED
    BY <2>1, <2>2
<1>10. old.at # "idle" => /\ t # NoTask /\ t.payment = old.payment /\ t.at = old.at
                          /\ t.status = old.status /\ t.loads = old.loads \ {load}
  BY <1>2, <1>4, NoTaskTrue
<1> QED
  BY <1>5, <1>8, <1>9, <1>10

\* LoadLog, whose panel shows the state that the payment is in.
LEMMA LoadLogStep ==
  ASSUME ConsoleInvariant, NEW c \in Clients, LoadLog(c)
  PROVE  ConsoleInvariant'
<1> DEFINE old == task[c]
           r == old.payment
<1>1. PICK p : p = [page EXCEPT !.log = Shows(r, payment[r].status)]
  OBVIOUS
<1>2. "log" \in old.loads /\ Returned(c, "log") /\ UNCHANGED reconVars
  BY DEF LoadLog
<1>3. PICK t : /\ task' = [task EXCEPT ![c] = t] /\ TrueTask(t)
               /\ t # NoTask => t.payment = r
               /\ Asks(t, report[c])
               /\ old.at # "idle" => /\ t # NoTask /\ t.payment = r /\ t.at = old.at
                                     /\ t.status = old.status
                                     /\ t.loads = old.loads \ {"log"}
  <2>1. Asks(old, report[c]) /\ "log" # "reconciliation"
    BY Before
  <2> QED
    BY <1>2, <2>1, ReturnedTask
<1>4. r \in Stored /\ r \in Requests
  BY <1>2, Before DEF TrueTask, Stored
<1>5. /\ payment[r].log[Len(payment[r].log)].to_state = payment[r].status
      /\ payment[r].status \in PaymentState /\ Reached(r, payment[r].status)
  BY <1>4, Before, StatusReached
<1>6. page' = p
  BY <1>1, <1>5 DEF LoadLog
<1>7. old \in TaskRow /\ page \in PageRow /\ TrueTask(old) /\ TruePage(page) /\ Busy(c)
  BY <1>2, Before
<1>8. Shows(r, payment[r].status) \in Panel /\ TrueState(Shows(r, payment[r].status))
  BY <1>4, <1>5, PanelType DEF TrueState
<1>9. /\ p \in PageRow /\ p.log = Shows(r, payment[r].status)
      /\ p.mixed = page.mixed /\ p.asked = page.asked /\ p.error = page.error
      /\ p.status = page.status /\ p.reconciliation = page.reconciliation
      /\ p.ledger = page.ledger /\ p.entries = page.entries
  BY <1>1, <1>7, <1>8 DEF PageRow
<1>10. TruePage(p)
  BY <1>7, <1>8, <1>9 DEF TruePage
<1>11. Inspected(old, page) => t # NoTask /\ Inspected(t, p)
  <2>1. SUFFICES ASSUME Inspected(old, page) PROVE t # NoTask /\ Inspected(t, p)
    OBVIOUS
  <2>2. old.at # "idle"
    BY <2>1 DEF Inspected
  <2>3. old.at \in {"inspecting", "ledger", "entries"} => payment[r].status = old.status
    BY <1>7 DEF TrueTask, HasAnswer, Seen
  <2> QED
    BY <1>3, <1>9, <2>1, <2>2, <2>3 DEF Inspected
<1>12. [Next]_vars /\ report' = [report EXCEPT ![c] = report[c]] /\ TrueReport(report[c])
  BY <1>2, Before DEF reconVars
<1>13. Names(p) \subseteq Names(page) \cup {"", r}
  <2>1. Shows(r, payment[r].status).payment = r
    BY <1>4, <1>5, PanelType
  <2> QED
    BY <1>9, <2>1 DEF Names
<1> QED
  BY <1>3, <1>6, <1>7, <1>9, <1>10, <1>11, <1>12, <1>13, HandlerAfter

\* Ask, which sees the status that the payment is in.
LEMMA AskStep ==
  ASSUME ConsoleInvariant, NEW c \in Clients, Ask(c)
  PROVE  ConsoleInvariant'
<1> DEFINE old == task[c]
           r == old.payment
<1>1. PICK t : /\ task' = [task EXCEPT ![c] = t]
               /\ \/ t = [old EXCEPT !.at = "answered", !.status = payment[r].status]
                  \/ t = [old EXCEPT !.at = "answered", !.status = payment[r].status,
                                     !.attempts = @ + 1]
  <2>1. CASE task' = [task EXCEPT ![c].at = "answered", ![c].status = payment[r].status]
    <3>1. task' = [task EXCEPT ![c] =
                     [old EXCEPT !.at = "answered", !.status = payment[r].status]]
      BY <2>1
    <3> QED
      BY <3>1
  <2>2. CASE task' = [task EXCEPT ![c].at = "answered", ![c].status = payment[r].status,
                                  ![c].attempts = @ + 1]
    <3>1. task' = [task EXCEPT ![c] =
                     [old EXCEPT !.at = "answered", !.status = payment[r].status,
                                 !.attempts = @ + 1]]
      BY <2>2
    <3> QED
      BY <3>1
  <2> QED
    BY <2>1, <2>2 DEF Ask, Answered
<1>2. /\ old.at \in {"looking", "polling"} /\ r \in Stored
      /\ UNCHANGED <<reconVars, page>>
  BY DEF Ask
<1>3. r \in Requests /\ Seen(r, payment[r].status) /\ payment[r].status \in PaymentState
  BY <1>2, Before, StatusReached DEF Stored
<1>4. old \in TaskRow /\ TrueTask(old) /\ TruePage(page) /\ Busy(c)
  BY <1>2, Before
<1>5. t \in TaskRow /\ t.payment = r /\ t.at = "answered" /\ t.loads = old.loads
      /\ t.status = payment[r].status
  <2> DEFINE status == payment[r].status
  <2>1. status \in PaymentState
    BY <1>3
  <2> HIDE DEF status
  <2>2. \/ t = [old EXCEPT !.at = "answered", !.status = status]
        \/ t = [old EXCEPT !.at = "answered", !.status = status, !.attempts = @ + 1]
    BY <1>1 DEF status
  <2>3. old.attempts + 1 \in Nat
    <3>1. old.attempts \in Nat
      BY <1>4 DEF TaskRow
    <3> QED
      BY <3>1
  <2>4. t \in TaskRow /\ t.at = "answered" /\ t.status = status
    <3>1. CASE t = [old EXCEPT !.at = "answered", !.status = status]
      BY <1>4, <2>1, <3>1 DEF TaskRow
    <3>2. CASE t = [old EXCEPT !.at = "answered", !.status = status, !.attempts = @ + 1]
      <4> DEFINE attempts == old.attempts + 1
      <4>1. attempts \in Nat /\ t = [old EXCEPT !.at = "answered", !.status = status,
                                               !.attempts = attempts]
        BY <2>3, <3>2
      <4> HIDE DEF attempts
      <4> QED
        BY <1>4, <2>1, <4>1 DEF TaskRow
    <3> QED
      BY <2>2, <3>1, <3>2
  <2>5. t.payment = old.payment /\ t.loads = old.loads
    BY <1>4, <2>2 DEF TaskRow
  <2> QED
    BY <2>4, <2>5 DEF status
<1>6. old.loads = {}
  BY <1>2, <1>4 DEF TrueTask
<1>7. TrueTask(t)
  BY <1>3, <1>5, <1>6 DEF TrueTask
<1>8. Asks(t, report[c])
  BY <1>5, <1>2, Before DEF Asks
<1>9. t # NoTask /\ Inspected(t, page)
  BY <1>5, NoTaskTrue DEF Inspected
<1>10. [Next]_vars /\ report' = [report EXCEPT ![c] = report[c]] /\ TrueReport(report[c])
  BY <1>2, Before DEF reconVars
<1> QED
  BY <1>1, <1>2, <1>4, <1>5, <1>7, <1>8, <1>9, <1>10, HandlerAfter

\* Reconcile: a handler that inspects the payment's end asks for a report of an end.
LEMMA ReconcileStep ==
  ASSUME ConsoleInvariant, NEW c \in Clients, Reconcile(c)
  PROVE  ConsoleInvariant'
<1> DEFINE old == task[c]
<1>1. "reconciliation" \in old.loads /\ UNCHANGED <<vars, task, page>>
  BY DEF Reconcile, ReadPayment, ReadLedger
<1>2. /\ RailInvariant /\ ReportsTrue /\ old \in TaskRow /\ TrueTask(old) /\ TruePage(page)
      /\ Busy(c) /\ Asks(old, report[c])
  BY <1>1, Before
<1>3. old.payment \in Requests
  BY <1>1, <1>2 DEF TrueTask, Stored
<1>4. PICK request : /\ report' = [report EXCEPT ![c] = request] /\ TrueReport(request)
                     /\ Asks(old, request)
  <2>1. CASE ReadPayment(c, old.payment)
    <3> DEFINE new == [payment |-> old.payment, status |-> payment[old.payment].status,
                       answer |-> "reading"]
    <3>1. report' = [report EXCEPT ![c] = new] /\ TrueReport(new)
      BY <1>2, <1>3, <2>1, FirstRead
    <3>2. old.at = "inspecting" => payment[old.payment].status \in Terminal
      BY <1>2 DEF TrueTask, HasAnswer, Seen
    <3>3. Asks(old, new)
      BY <1>1, <3>2 DEF Asks
    <3> QED
      BY <3>1, <3>3
  <2>2. CASE ReadLedger(c)
    <3>1. PICK new : /\ report' = [report EXCEPT ![c] = new] /\ TrueReport(new)
                     /\ report[c].answer = "reading"
                     /\ new.payment = report[c].payment /\ new.status = report[c].status
      BY <1>2, <2>2, SecondRead
    <3>2. Asks(old, new)
      BY <1>2, <3>1 DEF Asks
    <3> QED
      BY <3>1, <3>2
  <2> QED
    BY <2>1, <2>2 DEF Reconcile
<1>5. Inspected(old, page) => old # NoTask
  BY NoTaskTrue DEF Inspected
<1>6. [Next]_vars /\ task' = [task EXCEPT ![c] = old] /\ page' = page
  BY <1>1, Before
<1> QED
  BY <1>2, <1>4, <1>5, <1>6, HandlerAfter

\* LoadLedger: the entries are those of a settled payment, and with them the handler ends.
LEMMA LoadLedgerStep ==
  ASSUME ConsoleInvariant, NEW c \in Clients, LoadLedger(c)
  PROVE  ConsoleInvariant'
<1> DEFINE old == task[c]
           r == old.payment
<1>1. old.at \in {"ledger", "entries"} /\ UNCHANGED reconVars
  BY DEF LoadLedger
<1>2. /\ RailInvariant /\ old \in TaskRow /\ TrueTask(old) /\ TruePage(page)
      /\ page \in PageRow /\ Busy(c) /\ Asks(old, report[c])
  BY <1>1, Before
<1>3. /\ Seen(r, old.status) /\ r \in Requests /\ old.status = "settled" /\ old.loads = {}
      /\ payment[r].status = "settled"
  BY <1>1, <1>2 DEF TrueTask, HasAnswer, Seen, Stored, Terminal
<1>4. [Next]_vars /\ report' = [report EXCEPT ![c] = report[c]] /\ TrueReport(report[c])
  BY <1>1, Before DEF reconVars
<1>5. ASSUME old.at = "ledger", UNCHANGED page,
             task' = [task EXCEPT ![c].at = "entries"]
      PROVE  ConsoleInvariant'
  <2>1. PICK t : t = [old EXCEPT !.at = "entries"]
    OBVIOUS
  <2>2. /\ t \in TaskRow /\ t.payment = r /\ t.at = "entries" /\ t.status = old.status
        /\ t.loads = {}
    BY <1>2, <1>3, <2>1 DEF TaskRow
  <2>3. task' = [task EXCEPT ![c] = t]
    BY <1>5, <2>1
  <2>4. TrueTask(t) /\ Asks(t, report[c]) /\ t # NoTask
    BY <1>2, <1>3, <2>2, NoTaskTrue DEF TrueTask, Asks, Terminal
  <2>5. Inspected(old, page) => Inspected(t, page)
    BY <1>3, <1>5, <2>2 DEF Inspected
  <2> QED
    BY <1>2, <1>4, <1>5, <2>2, <2>3, <2>4, <2>5, HandlerAfter
<1>6. ASSUME old.at = "entries", task' = [task EXCEPT ![c] = NoTask],
             page' = [page EXCEPT !.ledger = Shows(r, "entries"), !.entries = ledger[r].entries]
      PROVE  ConsoleInvariant'
  <2>1. PICK p : p = page'
    OBVIOUS
  <2>2. Shows(r, "entries") \in Panel /\ Shows(r, "entries").payment = r
        /\ Shows(r, "entries").value = "entries"
    BY <1>3, PanelType
  <2>3. ledger[r].entries \in Seq(Entry) /\ Len(ledger[r].entries) = 2
    <3>1. ledger[r].entries \in Seq(Entry)
      BY <1>2, <1>3 DEF RailInvariant, HistoryInvariant, TypeOK
    <3>2. ledger[r] = LedgerOf(r)
      BY <1>2, <1>3 DEF RailInvariant, SettledLedger
    <3>3. Len(LedgerOf(r).entries) = 2
      BY DEF LedgerOf
    <3> QED
      BY <3>1, <3>2, <3>3
  <2>4. /\ p \in PageRow /\ p.log = page.log
        /\ p.mixed = page.mixed /\ p.asked = page.asked /\ p.error = page.error
        /\ p.status = page.status /\ p.reconciliation = page.reconciliation
        /\ p.ledger = Shows(r, "entries") /\ p.entries = ledger[r].entries
    BY <1>2, <1>6, <2>1, <2>2, <2>3 DEF PageRow
  <2>5. TrueLedger(p.ledger, p.entries)
    BY <1>3, <2>2, <2>3, <2>4 DEF TrueLedger
  <2>6. TruePage(p)
    BY <1>2, <2>4, <2>5 DEF TruePage
  <2>7. Asks(NoTask, report[c])
    BY <1>2, <1>3 DEF Asks
  <2>8. Inspected(old, page) => (r = p.asked => Agreed(p)')
    <3>1. Inspected(old, page) => (r = p.asked => Agreed(p))
      BY <1>3, <1>6, <2>4 DEF Inspected, Agreed, Terminal
    <3>2. Agreed(p) => Agreed(p)'
      BY <1>1 DEF Agreed, reconVars, vars
    <3> QED
      BY <3>1, <3>2
  <2>9. Names(p) \subseteq Names(page) \cup {"", r}
    BY <2>2, <2>4 DEF Names
  <2> QED
    BY <1>2, <1>4, <1>6, <2>1, <2>4, <2>6, <2>7, <2>8, <2>9, NoTaskTrue, HandlerAfter
<1> QED
  BY <1>5, <1>6 DEF LoadLedger

\* ShowStatus: where the handler goes next, it knows what it has to.
LEMMA ShowStatusStep ==
  ASSUME ConsoleInvariant, NEW c \in Clients, ShowStatus(c)
  PROVE  ConsoleInvariant'
<1> DEFINE old == task[c]
           r == old.payment
<1>1. PICK next : next = CASE old.status \in Terminal                 -> "inspecting"
                           [] old.status \notin Terminal
                              /\ old.kind = "lookup" /\ old.attempts = 0 -> "first look"
                           [] OTHER                                  -> "polling"
  OBVIOUS
<1>2. /\ next \in {"inspecting", "first look", "polling"}
      /\ next = "inspecting" => old.status \in Terminal
  BY <1>1
<1>3. PICK loads : loads = IF next = "polling" THEN {} ELSE Loads
  OBVIOUS
<1>4. PICK t : t = [old EXCEPT !.at = next, !.loads = loads]
  OBVIOUS
<1>5. PICK p : p = page'
  OBVIOUS
<1>6. old.at = "answered" /\ UNCHANGED reconVars
  BY DEF ShowStatus
<1>7. task' = [task EXCEPT ![c] = t]
  <2>1. task' = [task EXCEPT ![c].at = next, ![c].loads = loads]
    BY <1>1, <1>3 DEF ShowStatus
  <2> QED
    BY <1>4, <2>1
<1>8. \/ p = [page EXCEPT !.status = Shows(r, old.status)]
      \/ p = [page EXCEPT !.status = Shows(r, old.status), !.reconciliation = Blank]
  BY <1>5 DEF ShowStatus
<1>9. /\ old \in TaskRow /\ TrueTask(old) /\ TruePage(page)
      /\ page \in PageRow /\ Busy(c) /\ Asks(old, report[c])
  BY <1>6, Before
<1>10. Seen(r, old.status) /\ r \in Requests /\ old.loads = {}
  BY <1>6, <1>9 DEF TrueTask, HasAnswer, Seen, Stored
<1>11. /\ t \in TaskRow /\ t.payment = r /\ t.at = next /\ t.status = old.status
       /\ t.loads = loads
  <2>1. loads \in SUBSET Loads
    BY <1>3
  <2> QED
    BY <1>2, <1>4, <1>9, <2>1 DEF TaskRow
<1>12. TrueTask(t) /\ t # NoTask
  BY <1>2, <1>3, <1>10, <1>11, NoTaskTrue DEF TrueTask, Seen
<1>13. Asks(t, report[c])
  BY <1>9, <1>10 DEF Asks
<1>14. /\ Shows(r, old.status) \in Panel /\ Shows(r, old.status).payment = r
       /\ Shows(r, old.status).value = old.status
  BY <1>10, PanelType DEF Seen
<1>15. /\ p \in PageRow /\ p.log = page.log
       /\ p.mixed = page.mixed /\ p.asked = page.asked /\ p.error = page.error
       /\ p.status = Shows(r, old.status) /\ p.reconciliation \in {page.reconciliation, Blank}
       /\ p.ledger = page.ledger /\ p.entries = page.entries
  <2>1. CASE p = [page EXCEPT !.status = Shows(r, old.status)]
    BY <1>9, <1>14, <2>1 DEF PageRow
  <2>2. CASE p = [page EXCEPT !.status = Shows(r, old.status), !.reconciliation = Blank]
    BY <1>9, <1>14, <2>2, EmptyPage DEF PageRow
  <2> QED
    BY <1>8, <2>1, <2>2
<1>16. TruePage(p)
  <2>1. TrueState(p.status)
    BY <1>10, <1>14, <1>15 DEF TrueState, Seen
  <2>2. TrueVerdict(p.reconciliation)
    BY <1>9, <1>15, EmptyPage DEF TruePage
  <2> QED
    BY <1>9, <1>15, <2>1, <2>2 DEF TruePage
<1>17. Inspected(t, p)
  BY <1>2, <1>3, <1>11, <1>15 DEF Inspected, Loads
<1>18. [Next]_vars /\ report' = [report EXCEPT ![c] = report[c]] /\ TrueReport(report[c])
  BY <1>6, Before DEF reconVars
<1>19. Names(p) \subseteq Names(page) \cup {"", r}
  BY <1>14, <1>15, EmptyPage DEF Names
<1> QED
  BY <1>5, <1>7, <1>9, <1>11, <1>12, <1>13, <1>15, <1>16, <1>17, <1>18, <1>19, HandlerAfter

\* ShowReconciliation: a handler that inspects the payment's end shows a pass or an error.
LEMMA ShowReconciliationStep ==
  ASSUME ConsoleInvariant, NEW c \in Clients, ShowReconciliation(c)
  PROVE  ConsoleInvariant'
<1> DEFINE old == task[c]
           r == old.payment
<1>1. PICK answer \in {report[c].answer, "error"} \ {"none", "reading"} :
        page' = [page EXCEPT !.reconciliation = Shows(r, answer)]
  BY DEF ShowReconciliation
<1>3. PICK p : p = page'
  OBVIOUS
<1>4. /\ "reconciliation" \in old.loads /\ UNCHANGED vars
      /\ report' = [report EXCEPT ![c] = NoReport]
  BY DEF ShowReconciliation
<1>5. /\ RailInvariant /\ old \in TaskRow /\ TrueTask(old) /\ TruePage(page)
      /\ page \in PageRow /\ Busy(c) /\ Asks(old, report[c]) /\ TrueReport(report[c])
      /\ report[c] \in ReportRow
  BY <1>4, Before
<1>6. r \in Requests
  BY <1>4, <1>5 DEF TrueTask, Stored
<1>9. answer \in {"pass", "pending", "error"}
  BY <1>1, <1>5 DEF ReportRow
<1>10. answer # "error" => answer = report[c].answer /\ report[c].answer # "none"
  BY <1>1, <1>9
<1>11. answer = "pass" => payment[r].status \in Terminal
  BY <1>5, <1>10 DEF Asks, TrueReport, Seen
<1>12. old.at = "inspecting" => answer \in {"pass", "error"}
  BY <1>5, <1>9, <1>10 DEF Asks, TrueReport
<1>13. /\ Shows(r, answer) \in Panel /\ Shows(r, answer).payment = r
       /\ Shows(r, answer).value = answer
  <2>1. answer \in PaymentState \cup {"", "pass", "pending", "error", "entries",
                                     "no entries", "not yet"}
    BY <1>9
  <2> QED
    BY <1>6, <2>1, PanelType
<1>14. /\ p \in PageRow /\ p.log = page.log
       /\ p.mixed = page.mixed /\ p.asked = page.asked /\ p.error = page.error
       /\ p.status = page.status /\ p.reconciliation = Shows(r, answer)
       /\ p.ledger = page.ledger /\ p.entries = page.entries
  BY <1>1, <1>3, <1>5, <1>13 DEF PageRow
<1>15. TruePage(p)
  <2>1. TrueVerdict(p.reconciliation)
    BY <1>9, <1>11, <1>13, <1>14 DEF TrueVerdict
  <2> QED
    BY <1>5, <1>14, <2>1 DEF TruePage
<1>16. NoReport.answer = "none" /\ NoReport \in ReportRow
  BY DEF NoReport, ReportRow
<1>17. TrueReport(NoReport) /\ Asks(old, NoReport)
  BY <1>16 DEF TrueReport, Asks
<1>18. PICK t : /\ task' = [task EXCEPT ![c] = t] /\ TrueTask(t)
                /\ t # NoTask => t.payment = r
                /\ Asks(t, NoReport)
                /\ old.at # "idle" => /\ t # NoTask /\ t.payment = r /\ t.at = old.at
                                      /\ t.status = old.status
                                      /\ t.loads = old.loads \ {"reconciliation"}
  <2>1. Returned(c, "reconciliation")
    BY DEF ShowReconciliation
  <2> QED
    BY <1>4, <1>16, <1>17, <2>1, ReturnedTask
<1>19. Inspected(old, page) => t # NoTask /\ Inspected(t, p)
  <2>1. SUFFICES ASSUME Inspected(old, page) PROVE t # NoTask /\ Inspected(t, p)
    OBVIOUS
  <2>2. old.at \in {"first look", "inspecting"}
    BY <1>4, <1>5, <2>1 DEF TrueTask, Inspected
  <2> QED
    BY <1>12, <1>14, <1>18, <2>1, <2>2 DEF Inspected
<1>20. [Next]_vars
  BY <1>4
<1>21. Names(p) \subseteq Names(page) \cup {"", r}
  BY <1>13, <1>14 DEF Names
<1> QED
  BY <1>3, <1>4, <1>5, <1>14, <1>15, <1>17, <1>18, <1>19, <1>20, <1>21, HandlerAfter

\* Loaded: "no entries" is said of a payment that will never have any, and with it the
\* handler ends.
LEMMA LoadedStep ==
  ASSUME ConsoleInvariant, NEW c \in Clients, Loaded(c)
  PROVE  ConsoleInvariant'
<1> DEFINE old == task[c]
           r == old.payment
<1>1. old.at \in {"first look", "inspecting"} /\ old.loads = {} /\ UNCHANGED reconVars
  BY DEF Loaded
<1>2. /\ RailInvariant /\ old \in TaskRow /\ TrueTask(old) /\ TruePage(page)
      /\ page \in PageRow /\ Busy(c) /\ Asks(old, report[c])
  BY <1>1, Before
<1>3. Seen(r, old.status) /\ r \in Requests
  BY <1>1, <1>2 DEF TrueTask, HasAnswer, Seen, Stored
<1>4. [Next]_vars /\ report' = [report EXCEPT ![c] = report[c]] /\ TrueReport(report[c])
  BY <1>1, Before DEF reconVars
<1>5. ASSUME NEW text \in {"not yet", "no entries"},
             page' = [page EXCEPT !.ledger = Shows(r, text)],
             text = "no entries" => /\ payment[r].status \in Terminal
                                    /\ ledger[r] = NoLedger
      PROVE  \E p : /\ page' = p /\ TruePage(p) /\ p.ledger = Shows(r, text)
                    /\ p.mixed = page.mixed /\ p.asked = page.asked
                    /\ p.error = page.error /\ p.status = page.status /\ p.log = page.log
                    /\ p.reconciliation = page.reconciliation
                    /\ Names(p) \subseteq Names(page) \cup {"", r}
  <2>1. PICK p : p = page'
    OBVIOUS
  <2>2. text \in PaymentState \cup {"", "pass", "pending", "error", "entries",
                                    "no entries", "not yet"}
    OBVIOUS
  <2>3. Shows(r, text) \in Panel /\ Shows(r, text).payment = r /\ Shows(r, text).value = text
    BY <1>3, <2>2, PanelType
  <2>4. /\ p \in PageRow /\ p.log = page.log
        /\ p.mixed = page.mixed /\ p.asked = page.asked /\ p.error = page.error
        /\ p.status = page.status /\ p.reconciliation = page.reconciliation
        /\ p.ledger = Shows(r, text) /\ p.entries = page.entries
    BY <1>2, <1>5, <2>1, <2>3 DEF PageRow
  <2>5. TrueLedger(p.ledger, p.entries)
    BY <1>5, <2>3, <2>4 DEF TrueLedger
  <2>6. TruePage(p)
    BY <1>2, <2>4, <2>5 DEF TruePage
  <2>7. Names(p) \subseteq Names(page) \cup {"", r}
    BY <2>3, <2>4 DEF Names
  <2> QED
    BY <2>1, <2>4, <2>6, <2>7
<1>6. ASSUME old.at = "first look", task' = [task EXCEPT ![c].at = "polling"],
             page' = [page EXCEPT !.ledger = Shows(r, "not yet")]
      PROVE  ConsoleInvariant'
  <2>1. PICK p : /\ page' = p /\ TruePage(p)
                 /\ p.mixed = page.mixed /\ p.asked = page.asked /\ p.error = page.error
                 /\ Names(p) \subseteq Names(page) \cup {"", r}
    BY <1>5, <1>6
  <2>2. PICK t : t = [old EXCEPT !.at = "polling"]
    OBVIOUS
  <2>3. /\ t \in TaskRow /\ t.payment = r /\ t.at = "polling" /\ t.status = old.status
        /\ t.loads = {}
    BY <1>1, <1>2, <2>2 DEF TaskRow
  <2>4. task' = [task EXCEPT ![c] = t]
    BY <1>6, <2>2
  <2>5. TrueTask(t) /\ Asks(t, report[c]) /\ t # NoTask
    BY <1>1, <1>2, <1>3, <2>3, NoTaskTrue DEF TrueTask, Asks
  <2>6. Inspected(t, p)
    BY <2>3 DEF Inspected
  <2> QED
    BY <1>2, <1>4, <2>1, <2>3, <2>4, <2>5, <2>6, HandlerAfter
<1>7. ASSUME old.at = "inspecting", old.status = "settled", UNCHANGED page,
             task' = [task EXCEPT ![c].at = "ledger"]
      PROVE  ConsoleInvariant'
  <2>1. PICK t : t = [old EXCEPT !.at = "ledger"]
    OBVIOUS
  <2>2. /\ t \in TaskRow /\ t.payment = r /\ t.at = "ledger" /\ t.status = old.status
        /\ t.loads = {}
    BY <1>1, <1>2, <2>1 DEF TaskRow
  <2>3. task' = [task EXCEPT ![c] = t]
    BY <1>7, <2>1
  <2>4. TrueTask(t) /\ Asks(t, report[c]) /\ t # NoTask
    BY <1>1, <1>2, <1>3, <1>7, <2>2, NoTaskTrue DEF TrueTask, Asks, Terminal
  <2>5. Inspected(old, page) => Inspected(t, page)
    BY <1>1, <1>7, <2>2 DEF Inspected
  <2> QED
    BY <1>2, <1>4, <1>7, <2>2, <2>3, <2>4, <2>5, HandlerAfter
<1>8. ASSUME old.at = "inspecting", old.status # "settled",
             task' = [task EXCEPT ![c] = NoTask],
             page' = [page EXCEPT !.ledger = Shows(r, "no entries")]
      PROVE  ConsoleInvariant'
  <2>1. payment[r].status = old.status /\ old.status \in Terminal
    BY <1>2, <1>3, <1>8 DEF TrueTask, Seen
  <2>2. ledger[r] = NoLedger
    BY <1>2, <1>3, <1>8, <2>1 DEF RailInvariant, SettledLedger
  <2>3. PICK p : /\ page' = p /\ TruePage(p) /\ p.ledger = Shows(r, "no entries")
                 /\ p.mixed = page.mixed /\ p.asked = page.asked /\ p.error = page.error
                 /\ p.status = page.status /\ p.log = page.log
                 /\ p.reconciliation = page.reconciliation
                 /\ Names(p) \subseteq Names(page) \cup {"", r}
    BY <1>5, <1>8, <2>1, <2>2
  <2>4. Asks(NoTask, report[c])
    BY <1>1, <1>2 DEF Asks
  <2>5. Inspected(old, page) => (r = p.asked => Agreed(p)')
    <3>1. Inspected(old, page) => (r = p.asked => Agreed(p))
      BY <1>1, <1>8, <2>1, <2>3 DEF Inspected, Agreed
    <3>2. Agreed(p) => Agreed(p)'
      BY <1>1 DEF Agreed, reconVars, vars
    <3> QED
      BY <3>1, <3>2
  <2> QED
    BY <1>2, <1>4, <1>8, <2>3, <2>4, <2>5, NoTaskTrue, HandlerAfter
<1> QED
  BY <1>1, <1>6, <1>7, <1>8 DEF Loaded

\* A handler's catch, whatever the request that failed did to the rail, with the loads that
\* it leaves in flight and the request for a report that one of them goes on with.
LEMMA CatchStep ==
  ASSUME ConsoleInvariant, [Next]_vars, NEW c \in Clients, Busy(c),
         NEW left \in SUBSET task[c].loads, Catch(c, left),
         NEW request, report' = [report EXCEPT ![c] = request], TrueReport(request),
         request.answer # "none" => /\ "reconciliation" \in left
                                    /\ request.payment = task[c].payment
  PROVE  ConsoleInvariant'
<1> DEFINE old == task[c]
           r == old.payment
<1>1. old \in TaskRow /\ TrueTask(old) /\ TruePage(page) /\ page \in PageRow
  BY Before
<1>2. PICK t : t = IF left = {} THEN NoTask ELSE [NoTask EXCEPT !.payment = r, !.loads = left]
  OBVIOUS
<1>3. PICK p : p = page'
  OBVIOUS
<1>4. task' = [task EXCEPT ![c] = t]
  BY <1>2 DEF Catch
<1>5. /\ \/ p = [page EXCEPT !.error = TRUE]
         \/ p = [NoPage EXCEPT !.asked = page.asked, !.mixed = page.mixed, !.error = TRUE]
      /\ page.asked \in Requests \cup {""} /\ page.mixed \in BOOLEAN
  BY <1>1, <1>3 DEF Catch, PageRow
<1>6. /\ p \in PageRow /\ p.error /\ p.asked = page.asked
      /\ p.mixed <=> page.mixed
      /\ TruePage(p) /\ Names(p) \subseteq Names(page) \cup {""}
  <2>1. CASE p = [page EXCEPT !.error = TRUE]
    <3>1. /\ p \in PageRow /\ p.error /\ p.asked = page.asked /\ p.mixed = page.mixed
          /\ p.status = page.status /\ p.log = page.log /\ p.ledger = page.ledger
          /\ p.reconciliation = page.reconciliation /\ p.entries = page.entries
      BY <1>1, <2>1 DEF PageRow
    <3> QED
      BY <1>1, <3>1 DEF TruePage, Names
  <2>2. CASE p = [NoPage EXCEPT !.asked = page.asked, !.mixed = page.mixed, !.error = TRUE]
    <3>1. /\ p \in PageRow /\ p.error /\ p.asked = page.asked /\ p.mixed = page.mixed
          /\ p.status = NoPage.status /\ p.log = NoPage.log /\ p.ledger = NoPage.ledger
          /\ p.reconciliation = NoPage.reconciliation /\ p.entries = NoPage.entries
      BY <1>5, <2>2, EmptyPage DEF PageRow
    <3> QED
      BY <3>1, EmptyPage DEF TruePage, Names
  <2> QED
    BY <1>5, <2>1, <2>2
<1>7. TrueTask(t) /\ Asks(t, request) /\ (t # NoTask => t.payment = r)
  <2>1. CASE left = {}
    BY <1>2, <2>1, NoTaskTrue DEF Asks
  <2>2. CASE left # {}
    <3>1. r \in Stored /\ r \in Requests
      BY <1>1, <2>2 DEF TrueTask, Stored
    <3>2. left \in SUBSET Loads
      BY <1>1 DEF TaskRow
    <3>3. t \in TaskRow /\ t.payment = r /\ t.at = "idle" /\ t.loads = left
      BY <1>2, <2>2, <3>1, <3>2, NoTaskTrue DEF TaskRow
    <3> QED
      BY <3>1, <3>3 DEF TrueTask, HasAnswer, Asks
  <2> QED
    BY <2>1, <2>2
<1> QED
  BY <1>1, <1>3, <1>4, <1>6, <1>7, HandlerAfter

\* FailLoad: the account cards', or one whose handler was abandoned before, or the first.
LEMMA FailLoadStep ==
  ASSUME ConsoleInvariant, NEW c \in Clients, FailLoad(c), UNCHANGED vars
  PROVE  ConsoleInvariant'
<1> DEFINE old == task[c]
<1>1. /\ TrueTask(old) /\ TruePage(page) /\ Asks(old, report[c]) /\ TrueReport(report[c])
      /\ report = [report EXCEPT ![c] = report[c]]
      /\ (old.at # "idle" \/ old.loads # {} => Busy(c))
  BY Before
<1>2. [Next]_vars
  OBVIOUS
<1>3. report[c].answer # "none" => /\ "reconciliation" \in old.loads
                                   /\ report[c].payment = old.payment
  BY <1>1 DEF Asks
<1>4. CASE old.at \in {"first look", "inspecting"} /\ Catch(c, old.loads) /\ UNCHANGED report
  <2>1. Busy(c) /\ report' = [report EXCEPT ![c] = report[c]]
    BY <1>1, <1>4
  <2> QED
    BY <1>1, <1>2, <1>3, <1>4, <2>1, CatchStep
<1>5. ASSUME NEW load \in old.loads,
             \/ old.at # "idle" /\ Catch(c, old.loads \ {load})
             \/ old.at = "idle" /\ Returned(c, load) /\ UNCHANGED page,
             report' = IF load = "reconciliation" THEN [report EXCEPT ![c] = NoReport] ELSE report
      PROVE  ConsoleInvariant'
  <2>1. PICK request : request = IF load = "reconciliation" THEN NoReport ELSE report[c]
    OBVIOUS
  <2>2. Busy(c) /\ report' = [report EXCEPT ![c] = request]
    BY <1>1, <1>5, <2>1
  <2>3. NoReport.answer = "none" /\ NoReport \in ReportRow
    BY DEF NoReport, ReportRow
  <2>4. /\ TrueReport(request) /\ Asks(old, request)
        /\ load = "reconciliation" => request.answer = "none"
    BY <1>1, <2>1, <2>3 DEF TrueReport, Asks
  <2>5. CASE old.at # "idle" /\ Catch(c, old.loads \ {load})
    <3>1. request.answer # "none" => /\ "reconciliation" \in old.loads \ {load}
                                     /\ request.payment = old.payment
      BY <2>4 DEF Asks
    <3>2. old.loads \ {load} \in SUBSET old.loads
      OBVIOUS
    <3> QED
      BY <1>2, <2>2, <2>4, <2>5, <3>1, <3>2, CatchStep
  <2>6. CASE old.at = "idle" /\ Returned(c, load) /\ UNCHANGED page
    <3>1. PICK t : /\ task' = [task EXCEPT ![c] = t] /\ TrueTask(t)
                   /\ t # NoTask => t.payment = old.payment
                   /\ Asks(t, request)
      BY <2>4, <2>6, ReturnedTask
    <3>2. ~Inspected(old, page) /\ page' = page
      BY <2>6 DEF Inspected
    <3> QED
      BY <1>1, <1>2, <2>2, <2>4, <3>1, <3>2, HandlerAfter
  <2> QED
    BY <1>5, <2>5, <2>6
<1> QED
  BY <1>4, <1>5 DEF FailLoad

\* Fail.
LEMMA FailStep ==
  ASSUME ConsoleInvariant, NEW c \in Clients, Fail(c)
  PROVE  ConsoleInvariant'
<1>1. /\ TrueTask(task[c]) /\ Asks(task[c], report[c]) /\ TrueReport(report[c])
      /\ report = [report EXCEPT ![c] = report[c]]
      /\ (task[c].at # "idle" => Busy(c))
  BY Before
<1>2. CASE FailLoad(c) /\ UNCHANGED vars
  BY <1>2, FailLoadStep
<1>3. ASSUME task[c].at \in {"looking", "polling", "ledger", "entries", "posting"},
             Catch(c, {}), UNCHANGED report, [Next]_vars
      PROVE  ConsoleInvariant'
  <2>1. report[c].answer = "none"
    BY <1>1, <1>3 DEF TrueTask, Asks
  <2>2. Busy(c) /\ report' = [report EXCEPT ![c] = report[c]]
    BY <1>1, <1>3
  <2>3. {} \in SUBSET task[c].loads
    OBVIOUS
  <2> QED
    BY <1>1, <1>3, <2>1, <2>2, <2>3, CatchStep
<1>4. CASE FailAwaited(c) /\ UNCHANGED vars
  BY <1>3, <1>4 DEF FailAwaited
<1>5. CASE /\ task[c].at = "posting" /\ Catch(c, {}) /\ UNCHANGED report
           /\ SubmitPayment(task[c].payment) \/ UNCHANGED vars
  <2>1. task[c].payment \in Requests
    BY <1>1, <1>5 DEF TrueTask
  <2>2. [Next]_vars
    BY <1>5, <2>1 DEF Next
  <2> QED
    BY <1>3, <1>5, <2>2
<1> QED
  BY <1>2, <1>4, <1>5 DEF Fail

\* The status that a payment is stored in can be seen from then on.
LEMMA StoredIsSeen ==
  ASSUME HistoryInvariant, NEW r \in Requests, StorePayment(r),
         NEW status, status = payment'[r].status
  PROVE  Seen(r, status)'
<1>1. Records(r, ValidatedRow(r), {ValidatedRow(r).status})
  BY StoreRecords
<1>2. payment'[r] = ValidatedRow(r)
  BY <1>1, NewRow DEF Records
<1>3. ValidatedRow(r).status \in {"validated", "rejected"}
  BY ValidatedRowType
<1>4. status \in PaymentState /\ payment'[r] # NoRow
  <2>1. NoRow.status = "none"
    BY DEF NoRow
  <2> QED
    BY <1>2, <1>3, <2>1 DEF PaymentState
<1>5. Reached(r, status)'
  <2>1. \A state : (\E i \in DOMAIN ValidatedRow(r).log :
                      ValidatedRow(r).log[i].to_state = state)
          <=> \/ \E i \in DOMAIN payment[r].log : payment[r].log[i].to_state = state
              \/ state \in {ValidatedRow(r).status}
    BY <1>1 DEF Records, GoesOn, Extends
  <2>2. \E i \in DOMAIN payment'[r].log : payment'[r].log[i].to_state = status
    BY <1>2, <2>1
  <2> QED
    BY <2>2 DEF Reached
<1>6. r \in Stored'
  BY <1>4 DEF Stored
<1> QED
  BY <1>4, <1>5, <1>6 DEF Seen

\* PostForm, which is answered with the status that the payment was stored in.
LEMMA PostFormStep ==
  ASSUME ConsoleInvariant, NEW c \in Clients, PostForm(c)
  PROVE  ConsoleInvariant'
<1> DEFINE old == task[c]
<1>1. PICK r : r = old.payment
  OBVIOUS
<1>2. PICK status : status = payment'[r].status
  OBVIOUS
<1>3. PICK t : t = [old EXCEPT !.at = "answered", !.status = status]
  OBVIOUS
<1>4. PICK p : p = page
  OBVIOUS
<1>5. /\ old.at = "posting" /\ StorePayment(r) /\ Answer(r, Verdict(r))
      /\ Answered(c, status) /\ UNCHANGED <<report, page>>
  BY <1>1, <1>2 DEF PostForm
<1>6. /\ ConsoleTruth /\ SoleHandler /\ RailInvariant /\ HistoryInvariant
      /\ task \in [Clients -> TaskRow] /\ old \in TaskRow /\ TrueTask(old) /\ TruePage(page)
      /\ Busy(c) /\ Asks(old, report[c]) /\ TrueReport(report[c])
      /\ report = [report EXCEPT ![c] = report[c]]
  BY <1>5, Before DEF ConsoleInvariant
<1>7. r \in Requests /\ old.loads = {}
  BY <1>1, <1>5, <1>6 DEF TrueTask
<1>8. [Next]_vars
  BY <1>5, <1>7 DEF Next, SubmitPayment, StoreRequest
<1>9. Seen(r, status)' /\ status \in PaymentState
  <2>1. Seen(r, status)'
    BY <1>2, <1>5, <1>6, <1>7, StoredIsSeen
  <2> QED
    BY <2>1 DEF Seen
<1>10. task' = [task EXCEPT ![c] = t]
  <2>1. task' = [task EXCEPT ![c].at = "answered", ![c].status = status]
    BY <1>5 DEF Answered
  <2> QED
    BY <1>3, <2>1
<1>11. t \in TaskRow /\ t.payment = r /\ t.at = "answered" /\ t.status = status
       /\ t.loads = {}
  BY <1>1, <1>3, <1>6, <1>7, <1>9 DEF TaskRow
<1>12. TrueTask(t)'
  <2>1. Seen(t.payment, t.status)'
    BY <1>9, <1>11
  <2> QED
    BY <1>11, <2>1 DEF TrueTask
<1>13. Asks(t, report[c])
  BY <1>6, <1>7 DEF Asks
<1>14. TruePage(p)' /\ page' = p
  BY <1>4, <1>5, <1>6, <1>8, PageStays
<1>15. ConsoleTruth'
  BY <1>5, <1>6, <1>8, <1>10, <1>12, <1>13, <1>14, TruthAfter
<1>16. SoleHandler' /\ InspectionAgrees' /\ NoForeignPanel'
  <2>1. t # NoTask /\ Inspected(t, p)
    BY <1>11, NoTaskTrue DEF Inspected
  <2>2. Names(p) \subseteq Names(page) /\ NoForeignPanel
    BY <1>4 DEF ConsoleInvariant
  <2> QED
    BY <1>1, <1>4, <1>6, <1>10, <1>11, <1>14, <2>1, <2>2, AloneAfter
<1> QED
  BY <1>15, <1>16 DEF ConsoleInvariant

\* The beginning of a handler: it is alone on the page exactly if no other one runs.
LEMMA BeginStep ==
  ASSUME ConsoleInvariant, NEW c \in Clients, NEW r \in Requests,
         NEW kind \in {"lookup", "submit"}, Begin(c, kind, r)
  PROVE  ConsoleInvariant'
<1>1. /\ ConsoleTruth /\ RailInvariant /\ task \in [Clients -> TaskRow]
      /\ Asks(task[c], report[c]) /\ TrueReport(report[c])
      /\ report = [report EXCEPT ![c] = report[c]]
  BY Before DEF ConsoleInvariant
<1>2. PICK at : at = IF kind = "submit" THEN "posting" ELSE "looking"
  OBVIOUS
<1>3. PICK t : t = [NoTask EXCEPT !.kind = kind, !.payment = r, !.at = at]
  OBVIOUS
<1>4. PICK mixed \in BOOLEAN : mixed <=> \E d \in Clients : Busy(d)
  OBVIOUS
<1>5. PICK p : p = page'
  OBVIOUS
<1>6. task[c] = NoTask /\ task' = [task EXCEPT ![c] = t] /\ UNCHANGED reconVars
  BY <1>2, <1>3 DEF Begin, Busy
<1>7. p = [NoPage EXCEPT !.asked = r, !.mixed = mixed]
  BY <1>4, <1>5 DEF Begin
<1>8. /\ t \in TaskRow /\ t.payment = r /\ t.at \in {"posting", "looking"} /\ t.loads = {}
  BY <1>2, <1>3, NoTaskTrue DEF TaskRow
<1>9. TrueTask(t) /\ t # NoTask
  BY <1>8, NoTaskTrue DEF TrueTask, HasAnswer
<1>10. Asks(t, report[c])
  BY <1>1, <1>6, NoTaskTrue DEF Asks
<1>11. /\ p \in PageRow /\ p.asked = r /\ p.mixed = mixed
       /\ p.status = NoPage.status /\ p.log = NoPage.log /\ p.ledger = NoPage.ledger
       /\ p.reconciliation = NoPage.reconciliation /\ p.entries = NoPage.entries
  BY <1>7, EmptyPage DEF PageRow
<1>12. TruePage(p)
  BY <1>11, EmptyPage DEF TruePage
<1>13. [Next]_vars
  BY <1>6 DEF reconVars
<1>14. ConsoleTruth'
  <2>1. TrueTask(t)' /\ TruePage(p)'
    BY <1>1, <1>9, <1>12, <1>13, TaskStays, PageStays
  <2>2. report' = [report EXCEPT ![c] = report[c]]
    BY <1>1, <1>6 DEF reconVars
  <2> QED
    BY <1>1, <1>5, <1>6, <1>10, <1>13, <2>1, <2>2, TruthAfter
<1>15. \A d \in Clients : task'[d] = IF d = c THEN t ELSE task[d]
  BY <1>1, <1>6
<1>16. SoleHandler'
  <2>1. SUFFICES ASSUME ~page'.mixed, NEW d \in Clients, task'[d] # NoTask
                 PROVE  /\ task'[d].payment = page'.asked
                        /\ \A e \in Clients : task'[e] # NoTask => e = d
                        /\ Inspected(task'[d], page')
    BY DEF SoleHandler, Busy, Inspected
  <2>2. \A e \in Clients : task[e] = NoTask
    BY <1>4, <1>5, <1>11, <2>1 DEF Busy
  <2>3. d = c
    BY <1>15, <2>1, <2>2
  <2>4. Inspected(t, page')
    BY <1>8 DEF Inspected
  <2> QED
    BY <1>5, <1>8, <1>11, <1>15, <2>2, <2>3, <2>4
<1>17. InspectionAgrees'
  BY <1>9, <1>15 DEF InspectionAgrees, Busy
<1>18. NoForeignPanel'
  BY <1>5, <1>11, EmptyPage DEF NoForeignPanel
<1> QED
  BY <1>14, <1>16, <1>17, <1>18 DEF ConsoleInvariant

-----------------------------------------------------------------------------
(* Theorems                                                                 *)

\* At the start nobody asks for anything and the page is empty.
LEMMA ConsoleStart == ConsoleInit => ConsoleInvariant
<1> SUFFICES ASSUME ConsoleInit PROVE ConsoleInvariant
  OBVIOUS
<1>1. RailInvariant /\ ReportsTrue
  BY ReconStart DEF ConsoleInit, ReconInvariant
<1>2. task \in [Clients -> TaskRow] /\ \A c \in Clients : task[c] = NoTask
  BY NoTaskTrue DEF ConsoleInit
<1>3. \A c \in Clients : report[c].answer = "none"
  BY DEF ConsoleInit, ReconInit, NoReport
<1>4. ConsoleTruth
  BY <1>1, <1>2, <1>3, NoTaskTrue, EmptyPage DEF ConsoleInit, ConsoleTruth, Asks
<1>5. SoleHandler
  BY <1>2 DEF SoleHandler, Busy
<1>6. InspectionAgrees
  BY EmptyPage DEF ConsoleInit, InspectionAgrees
<1>7. NoForeignPanel
  BY EmptyPage DEF ConsoleInit, NoForeignPanel
<1> QED
  BY <1>4, <1>5, <1>6, <1>7 DEF ConsoleInvariant

\* Every step of the rail, of a request and of a handler keeps the invariant.
LEMMA ConsoleStep == ConsoleInvariant /\ [ConsoleNext]_consoleVars => ConsoleInvariant'
<1> SUFFICES ASSUME ConsoleInvariant, [ConsoleNext]_consoleVars PROVE ConsoleInvariant'
  OBVIOUS
<1>1. CASE Next /\ UNCHANGED <<report, task, page>>
  BY <1>1, RailUnderPage
<1>2. CASE UNCHANGED consoleVars
  <2>1. [Next]_vars /\ UNCHANGED <<report, task, page>>
    BY <1>2 DEF consoleVars, reconVars
  <2> QED
    BY <2>1, RailUnderPage
<1>3. ASSUME NEW c \in Clients, NEW r \in Requests, Lookup(c, r) \/ SubmitForm(c, r)
      PROVE  ConsoleInvariant'
  <2>1. Begin(c, "lookup", r) \/ Begin(c, "submit", r)
    BY <1>3 DEF Lookup, SubmitForm
  <2> QED
    BY <2>1, BeginStep
<1>4. ASSUME NEW c \in Clients, Step(c)
      PROVE  ConsoleInvariant'
  BY <1>4, PostFormStep, AskStep, LoadLogStep, ReconcileStep, LoadLedgerStep,
     ShowStatusStep, ShowReconciliationStep, LoadedStep, FailStep DEF Step
<1> QED
  BY <1>1, <1>2, <1>3, <1>4 DEF ConsoleNext

\* The invariant holds under the console, whatever requests fail.
LEMMA ConsoleInvariantHolds == ConsoleSpec => []ConsoleInvariant
<1>1. ConsoleInit => ConsoleInvariant
  BY ConsoleStart
<1>2. ConsoleInvariant /\ [ConsoleNext]_consoleVars => ConsoleInvariant'
  BY ConsoleStep
<1> QED
  BY <1>1, <1>2, PTL DEF ConsoleSpec

\* Nobody who asks for a report, by the console or by the API alone, ever gets a failure
\* from a rail that works, though reconcilePayment reads the payment and its ledger in two
\* statements between which anything may happen.
THEOREM ReconciliationNeverFails ==
  (ReconSpec => []NoFalseAlarm) /\ (ConsoleSpec => []NoFalseAlarm)
<1>1. ReconInit => ReconInvariant
  BY ReconStart
<1>2. ReconInvariant /\ [ReconNext]_reconVars => ReconInvariant'
  BY ReconStep
<1>3. ReconInvariant => NoFalseAlarm
  BY ReconPromises DEF ReconInvariant
<1>4. ConsoleInvariant => NoFalseAlarm
  BY ReconPromises DEF ConsoleInvariant, ConsoleTruth
<1>5. ReconSpec => []NoFalseAlarm
  BY <1>1, <1>2, <1>3, PTL DEF ReconSpec
<1>6. ConsoleSpec => []NoFalseAlarm
  BY <1>4, ConsoleInvariantHolds, PTL
<1> QED
  BY <1>5, <1>6

\* A report that passes stays true for ever: the payment is over in the status that was
\* read, and it has a ledger exactly if it was settled.
THEOREM PassesAreFinal == (ReconSpec => []PassIsFinal) /\ (ConsoleSpec => []PassIsFinal)
<1>1. ReconInit => ReconInvariant
  BY ReconStart
<1>2. ReconInvariant /\ [ReconNext]_reconVars => ReconInvariant'
  BY ReconStep
<1>3. ReconInvariant => PassIsFinal
  BY ReconPromises DEF ReconInvariant
<1>4. ConsoleInvariant => PassIsFinal
  BY ReconPromises DEF ConsoleInvariant, ConsoleTruth
<1>5. ReconSpec => []PassIsFinal
  BY <1>1, <1>2, <1>3, PTL DEF ReconSpec
<1>6. ConsoleSpec => []PassIsFinal
  BY <1>4, ConsoleInvariantHolds, PTL
<1> QED
  BY <1>5, <1>6

\* Every panel of index.html says something true of the payment it names, with any number
\* of overlapping handlers and whatever requests fail.
THEOREM PanelsAreTrue == ConsoleSpec => []PanelsTrue
<1>1. ConsoleInvariant => PanelsTrue
  BY PanelsOf DEF ConsoleInvariant, ConsoleTruth
<1> QED
  BY <1>1, ConsoleInvariantHolds, PTL

\* A handler that began alone and ended without an error leaves panels that agree with one
\* another and with the rail for good.
THEOREM InspectionsAgree == ConsoleSpec => []InspectionAgrees
<1>1. ConsoleInvariant => InspectionAgrees
  BY DEF ConsoleInvariant
<1> QED
  BY <1>1, ConsoleInvariantHolds, PTL

\* What a failed Promise.all of index.html leaves in flight never reaches the panels of a
\* handler that began when nothing was in flight any more.
THEOREM PanelsAreOwn == ConsoleSpec => []NoForeignPanel
<1>1. ConsoleInvariant => NoForeignPanel
  BY DEF ConsoleInvariant
<1> QED
  BY <1>1, ConsoleInvariantHolds, PTL

\* What the page does to the database is what the rail's operations do, so whatever is
\* proved of the rail is true with the console in front of it.
THEOREM ConsoleImplementsRail == ConsoleSpec => Spec
<1>1. ConsoleInit => Init
  BY DEF ConsoleInit, ReconInit
<1>2. ConsoleInvariant /\ [ConsoleNext]_consoleVars => [Next]_vars
  <2>1. SUFFICES ASSUME ConsoleInvariant, [ConsoleNext]_consoleVars PROVE [Next]_vars
    OBVIOUS
  <2>2. CASE UNCHANGED consoleVars
    BY <2>2 DEF consoleVars, reconVars
  <2>3. ASSUME NEW c \in Clients, NEW r \in Requests, Lookup(c, r) \/ SubmitForm(c, r)
        PROVE  [Next]_vars
    BY <2>3 DEF Lookup, SubmitForm, Begin, reconVars
  <2>4. ASSUME NEW c \in Clients, Step(c)
        PROVE  [Next]_vars
    <3>1. task[c].at = "posting" => task[c].payment \in Requests
      BY <2>1, Before DEF TrueTask
    <3>2. CASE PostForm(c)
      BY <3>1, <3>2 DEF PostForm, Next, SubmitPayment, StoreRequest
    <3>3. CASE Fail(c)
      BY <3>1, <3>3 DEF Fail, Next
    <3>4. CASE Ask(c) \/ LoadLog(c) \/ LoadLedger(c) \/ ShowStatus(c) \/ Loaded(c)
      BY <3>4 DEF Ask, LoadLog, LoadLedger, ShowStatus, Loaded, reconVars
    <3>5. CASE Reconcile(c) \/ ShowReconciliation(c)
      BY <3>5 DEF Reconcile, ReadPayment, ReadLedger, ShowReconciliation
    <3> QED
      BY <2>4, <3>2, <3>3, <3>4, <3>5 DEF Step
  <2> QED
    BY <2>1, <2>2, <2>3, <2>4 DEF ConsoleNext
<1> QED
  BY <1>1, <1>2, ConsoleInvariantHolds, PTL DEF ConsoleSpec, Spec
=============================================================================
