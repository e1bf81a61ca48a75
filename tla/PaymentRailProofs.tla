------------------------- MODULE PaymentRailProofs -------------------------
(***************************************************************************)
(* Theorems about PaymentRail, for any finite set of requests and any        *)
(* accounts: types, and the safety of reserved money.                        *)
(***************************************************************************)
EXTENDS PaymentRail, TotalsProofs, SequenceTheorems

\* A row in the middle of a transaction.
WorkingRow == [status : PaymentState \cup {"none"}, reject_reason : ReasonText,
               log : Seq(TransitionRow)]

-----------------------------------------------------------------------------
(* Rows                                                                     *)

\* applyPaymentEventTx takes a row to the state the machine says, with one more row in
\* its log.
LEMMA ApplyEvent ==
  ASSUME NEW row \in WorkingRow, row.status \in PaymentState,
         NEW event \in PaymentEvent, NEW reason \in ReasonText,
         NextPaymentState(row.status, event) \in PaymentState
  PROVE  /\ applyPaymentEvent(row, event, reason) \in WorkingRow
         /\ applyPaymentEvent(row, event, reason).status = NextPaymentState(row.status, event)
<1> DEFINE next == NextPaymentState(row.status, event)
           entry == [from_state |-> row.status, to_state |-> next,
                     event_type |-> event, reason |-> reason]
<1>1. entry \in TransitionRow
  BY DEF TransitionRow
<1>2. Append(row.log, entry) \in Seq(TransitionRow)
  BY <1>1, AppendProperties DEF WorkingRow
<1> HIDE DEF entry
<1>3. applyPaymentEvent(row, event, reason)
        = [status |-> next, reject_reason |-> reason, log |-> Append(row.log, entry)]
  BY DEF applyPaymentEvent, entry
<1> QED
  BY <1>2, <1>3 DEF WorkingRow

\* The table of statemachine.go, at the events the operations apply.
LEMMA Machine ==
  /\ NextPaymentState("received", "validation_passed") = "validated"
  /\ NextPaymentState("received", "validation_failed") = "rejected"
  /\ NextPaymentState("validated", "clearing_started") = "clearing"
  /\ NextPaymentState("clearing", "clearing_passed") = "awaiting_response"
  /\ NextPaymentState("clearing", "clearing_failed") = "failed"
  /\ NextPaymentState("awaiting_response", "receiver_accepted") = "accepted"
  /\ NextPaymentState("awaiting_response", "receiver_rejected") = "failed"
  /\ NextPaymentState("accepted", "settlement_started") = "settling"
  /\ NextPaymentState("settling", "settlement_completed") = "settled"
BY DEF NextPaymentState

\* validatePayment returns one of its texts, and "" only for a positive value.
LEMMA Validation ==
  ASSUME NEW r \in Requests
  PROVE  /\ validatePayment(Doc[r]) \in ReasonText
         /\ validatePayment(Doc[r]) = "" => Doc[r].Value > 0
<1> DEFINE failed == {i \in 1..8 : ~Checks(Doc[r])[i][1]}
           first == CHOOSE i \in failed : \A j \in failed : i <= j
<1>1. \A i \in 1..8 : Checks(Doc[r])[i][2] \in ReasonText \ {""}
  <2> DEFINE Good(i) == Checks(Doc[r])[i][2] \in ReasonText \ {""}
  <2>1. Good(1) /\ Good(2) /\ Good(3) /\ Good(4)
    BY DEF Checks, ReasonText
  <2>2. Good(5) /\ Good(6) /\ Good(7) /\ Good(8)
    BY DEF Checks, ReasonText
  <2> HIDE DEF Good
  <2>3. \A i \in 1..8 : Good(i)
    BY <2>1, <2>2
  <2> QED
    BY <2>3 DEF Good
<1>2. Checks(Doc[r])[3][1] = (Doc[r].Value > 0)
  BY DEF Checks
<1>3. CASE failed = {}
  <2>1. validatePayment(Doc[r]) = ""
    BY <1>3 DEF validatePayment
  <2>2. Checks(Doc[r])[3][1]
    BY <1>3
  <2> QED
    BY <1>2, <2>1, <2>2 DEF ReasonText
<1>4. CASE failed # {}
  <2>1. \E i \in failed : \A j \in failed : i <= j
    <3>1. PICK k \in failed : TRUE
      BY <1>4
    <3> QED
      BY <3>1
  <2>2. first \in failed
    BY <2>1
  <2>3. validatePayment(Doc[r]) = Checks(Doc[r])[first][2]
    BY <1>4 DEF validatePayment
  <2> QED
    BY <1>1, <2>2, <2>3
<1> QED
  BY <1>3, <1>4

\* The amount of a positive value is not negative; it may be 0.
LEMMA AmountType ==
  ASSUME NEW r \in Requests
  PROVE  /\ Amount(r) \in Int /\ -Amount(r) \in Int
         /\ Doc[r].Value > 0 => Amount(r) >= 0
BY DocAssumption DEF Amount, ToCents

-----------------------------------------------------------------------------
(* What each operation does to its payment's row                            *)

\* A committed row is a row between two transitions, with a status a transaction may leave.
LEMMA RowTypes ==
  /\ CommittedRow \subseteq WorkingRow
  /\ \A row \in WorkingRow :
       row.status \notin {"received", "clearing", "settling"} => row \in CommittedRow
BY DEF CommittedRow, WorkingRow

\* The events and states the operations use are the machine's.
LEMMA EventTypes ==
  /\ {"validation_passed", "validation_failed", "clearing_started", "clearing_passed",
      "clearing_failed", "receiver_accepted", "receiver_rejected",
      "settlement_started", "settlement_completed"} \subseteq PaymentEvent
  /\ {"received", "validated", "rejected", "clearing", "awaiting_response", "failed",
      "accepted", "settling", "settled"} \subseteq PaymentState
BY DEF PaymentEvent, PaymentState

\* The row that POST /payments inserts.
LEMMA ReceivedRowType == ReceivedRow \in WorkingRow /\ ReceivedRow.status = "received"
BY EventTypes, EmptySeq DEF ReceivedRow, NoRow, WorkingRow, ReasonText

\* POST /payments leaves a row validated or rejected; validated only with a positive value.
LEMMA ValidatedRowType ==
  ASSUME NEW r \in Requests
  PROVE  /\ ValidatedRow(r) \in CommittedRow
         /\ ValidatedRow(r).status \in {"validated", "rejected"}
         /\ ValidatedRow(r).status = "validated" => Amount(r) >= 0
<1> DEFINE reason == validatePayment(Doc[r])
           event == IF reason = "" THEN "validation_passed" ELSE "validation_failed"
<1>1. ValidatedRow(r) = applyPaymentEvent(ReceivedRow, event, reason)
  BY DEF ValidatedRow
<1>2. reason \in ReasonText /\ (reason = "" => Doc[r].Value > 0)
  BY Validation
<1>3. event \in PaymentEvent
  BY EventTypes
<1>4. NextPaymentState("received", event) = IF reason = "" THEN "validated" ELSE "rejected"
  BY Machine
<1> HIDE DEF reason, event
<1>5. /\ ValidatedRow(r) \in WorkingRow
      /\ ValidatedRow(r).status = NextPaymentState("received", event)
  <2>1. /\ ReceivedRow.status \in PaymentState
        /\ NextPaymentState(ReceivedRow.status, event) \in PaymentState
    BY <1>4, ReceivedRowType, EventTypes
  <2> QED
    BY <1>1, <1>2, <1>3, <2>1, ReceivedRowType, ApplyEvent
<1> QED
  BY <1>2, <1>4, <1>5, RowTypes, AmountType

\* clearPayment's two transitions.
LEMMA ClearedRowType ==
  ASSUME TypeOK, NEW r \in Requests, payment[r].status = "validated",
         NEW event \in {"clearing_passed", "clearing_failed"}, NEW reason \in ReasonText
  PROVE  /\ Cleared(r, event, reason) \in CommittedRow
         /\ Cleared(r, event, reason).status
              = IF event = "clearing_passed" THEN "awaiting_response" ELSE "failed"
<1> DEFINE started == applyPaymentEvent(payment[r], "clearing_started", "")
<1>1. payment[r] \in WorkingRow
  BY RowTypes DEF TypeOK
<1>2. "" \in ReasonText
  BY DEF ReasonText
<1>3. started \in WorkingRow /\ started.status = "clearing"
  <2>1. /\ payment[r].status \in PaymentState /\ "clearing_started" \in PaymentEvent
        /\ NextPaymentState(payment[r].status, "clearing_started") = "clearing"
        /\ "clearing" \in PaymentState
    BY Machine, EventTypes
  <2> QED
    BY <1>1, <1>2, <2>1, ApplyEvent
<1>4. Cleared(r, event, reason) = applyPaymentEvent(started, event, reason)
  BY DEF Cleared
<1> HIDE DEF started
<1>5. event \in PaymentEvent
  BY EventTypes
<1>6. NextPaymentState("clearing", event)
        = IF event = "clearing_passed" THEN "awaiting_response" ELSE "failed"
  BY Machine
<1>7. /\ Cleared(r, event, reason) \in WorkingRow
      /\ Cleared(r, event, reason).status = NextPaymentState("clearing", event)
  BY <1>3, <1>4, <1>5, <1>6, EventTypes, ApplyEvent
<1> QED
  BY <1>6, <1>7, RowTypes

\* respondToPayment's transition.
LEMMA AnsweredRowType ==
  ASSUME TypeOK, NEW r \in Requests, payment[r].status = "awaiting_response",
         NEW event \in {"receiver_accepted", "receiver_rejected"}, NEW reason \in ReasonText
  PROVE  /\ applyPaymentEvent(payment[r], event, reason) \in CommittedRow
         /\ applyPaymentEvent(payment[r], event, reason).status
              = IF event = "receiver_accepted" THEN "accepted" ELSE "failed"
<1>1. payment[r] \in WorkingRow
  BY RowTypes DEF TypeOK
<1>2. event \in PaymentEvent
  BY EventTypes
<1>3. NextPaymentState("awaiting_response", event)
        = IF event = "receiver_accepted" THEN "accepted" ELSE "failed"
  BY Machine
<1>4. /\ applyPaymentEvent(payment[r], event, reason) \in WorkingRow
      /\ applyPaymentEvent(payment[r], event, reason).status
           = NextPaymentState("awaiting_response", event)
  BY <1>1, <1>2, <1>3, EventTypes, ApplyEvent
<1> QED
  BY <1>3, <1>4, RowTypes

\* settlePayment's two transitions.
LEMMA SettledRowType ==
  ASSUME TypeOK, NEW r \in Requests, payment[r].status = "accepted"
  PROVE  LET row == applyPaymentEvent(
                      applyPaymentEvent(payment[r], "settlement_started", ""),
                      "settlement_completed", "")
         IN row \in CommittedRow /\ row.status = "settled"
<1> DEFINE started == applyPaymentEvent(payment[r], "settlement_started", "")
<1>1. payment[r] \in WorkingRow
  BY RowTypes DEF TypeOK
<1>2. "" \in ReasonText
  BY DEF ReasonText
<1>3. started \in WorkingRow /\ started.status = "settling"
  <2>1. /\ payment[r].status \in PaymentState /\ "settlement_started" \in PaymentEvent
        /\ NextPaymentState(payment[r].status, "settlement_started") = "settling"
        /\ "settling" \in PaymentState
    BY Machine, EventTypes
  <2> QED
    BY <1>1, <1>2, <2>1, ApplyEvent
<1> HIDE DEF started
<1>4. /\ applyPaymentEvent(started, "settlement_completed", "") \in WorkingRow
      /\ applyPaymentEvent(started, "settlement_completed", "").status = "settled"
  <2>1. /\ started.status \in PaymentState /\ "settlement_completed" \in PaymentEvent
        /\ NextPaymentState(started.status, "settlement_completed") = "settled"
        /\ "settled" \in PaymentState
    BY <1>3, Machine, EventTypes
  <2> QED
    BY <1>2, <1>3, <2>1, ApplyEvent
<1>5. applyPaymentEvent(started, "settlement_completed", "") \in CommittedRow
  BY <1>4, RowTypes
<1> QED
  BY <1>4, <1>5 DEF started

-----------------------------------------------------------------------------
(* What each operation does, without its transitions' details               *)

\* r's row becomes one with a status of the set given.
Becomes(r, statuses) ==
  \E row \in CommittedRow : /\ row.status \in statuses
                           /\ payment' = [payment EXCEPT ![r] = row]

\* StorePayment: a payment that was not there is validated or rejected.
LEMMA StoreEffect ==
  ASSUME TypeOK, NEW r \in Requests, StorePayment(r)
  PROVE  /\ payment[r].status \notin {"awaiting_response", "accepted"}
         /\ Becomes(r, {"validated", "rejected"})
         /\ payment'[r].status = "validated" => Amount(r) >= 0
         /\ outbox' \subseteq outbox \cup {<<r, "payment.validated">>}
         /\ UNCHANGED <<balance, reserved, active, ledger>>
<1>1. payment[r] = NoRow
  BY DEF StorePayment, UETRTaken, Stored
<1>2. payment' = [payment EXCEPT ![r] = ValidatedRow(r)]
  BY DEF StorePayment, Commit
<1>3. payment'[r] = ValidatedRow(r)
  BY <1>2 DEF TypeOK
<1>4. payment[r].status \notin {"awaiting_response", "accepted"}
  <2>1. NoRow.status = "none"
    BY DEF NoRow
  <2> QED
    BY <1>1, <2>1
<1>5. Becomes(r, {"validated", "rejected"})
  BY <1>2, ValidatedRowType DEF Becomes
<1>6. payment'[r].status = "validated" => Amount(r) >= 0
  BY <1>3, ValidatedRowType
<1>7. outbox' \subseteq outbox \cup {<<r, "payment.validated">>}
  BY DEF StorePayment
<1>8. UNCHANGED <<balance, reserved, active, ledger>>
  BY DEF StorePayment
<1> QED
  BY <1>4, <1>5, <1>6, <1>7, <1>8

\* ClearPayment: a validated payment fails, or waits for its receiver with its amount reserved.
LEMMA ClearEffect ==
  ASSUME TypeOK, NEW r \in Requests, ClearPayment(r)
  PROVE  /\ payment[r].status = "validated"
         /\ \/ /\ Becomes(r, {"failed"})
               /\ UNCHANGED <<reserved, outbox>>
            \/ /\ Becomes(r, {"awaiting_response"})
               /\ CreditorSeen(r)
               /\ Reservable(r) # {}
               /\ reserved' = Update(reserved, Reservable(r), Amount(r))
               /\ outbox' = outbox \cup {<<r, "payment.cleared">>}
         /\ UNCHANGED <<balance, active, ledger, reply>>
<1>1. payment[r].status = "validated" /\ UNCHANGED <<balance, active, ledger, reply>>
  BY DEF ClearPayment
<1>2. ASSUME NEW reason \in ReasonText, FailClearing(r, reason)
      PROVE  Becomes(r, {"failed"}) /\ UNCHANGED <<reserved, outbox>>
  <2>1. Cleared(r, "clearing_failed", reason) \in CommittedRow
    BY <1>1, ClearedRowType
  <2>2. Cleared(r, "clearing_failed", reason).status = "failed"
    BY <1>1, ClearedRowType
  <2> QED
    BY <1>2, <2>1, <2>2 DEF FailClearing, Commit, Becomes
<1>3. ASSUME PassClearing(r)
      PROVE  /\ Becomes(r, {"awaiting_response"})
             /\ CreditorSeen(r)
             /\ Reservable(r) # {}
             /\ reserved' = Update(reserved, Reservable(r), Amount(r))
             /\ outbox' = outbox \cup {<<r, "payment.cleared">>}
  <2>1. "" \in ReasonText
    BY DEF ReasonText
  <2>2. Cleared(r, "clearing_passed", "") \in CommittedRow
    BY <1>1, <2>1, ClearedRowType
  <2>3. Cleared(r, "clearing_passed", "").status = "awaiting_response"
    BY <1>1, <2>1, ClearedRowType
  <2> QED
    BY <1>3, <2>2, <2>3 DEF PassClearing, Commit, Becomes
<1>4. /\ "creditor account does not exist or is inactive" \in ReasonText
      /\ "debtor account has insufficient available funds or is inactive" \in ReasonText
  BY DEF ReasonText
<1> QED
  BY <1>1, <1>2, <1>3, <1>4 DEF ClearPayment

\* AcceptPayment: a payment that waits for its receiver is accepted.
LEMMA AcceptEffect ==
  ASSUME TypeOK, NEW r \in Requests, AcceptPayment(r)
  PROVE  /\ payment[r].status = "awaiting_response"
         /\ Becomes(r, {"accepted"})
         /\ outbox' = outbox \cup {<<r, "payment.accepted">>}
         /\ UNCHANGED <<balance, reserved, active, ledger, reply>>
<1>1. payment[r].status = "awaiting_response"
  BY DEF AcceptPayment
<1>2. "" \in ReasonText
  BY DEF ReasonText
<1>3. /\ applyPaymentEvent(payment[r], "receiver_accepted", "") \in CommittedRow
      /\ applyPaymentEvent(payment[r], "receiver_accepted", "").status = "accepted"
  BY <1>1, <1>2, AnsweredRowType
<1> QED
  BY <1>1, <1>3 DEF AcceptPayment, Commit, Becomes

\* RejectPayment: a payment that waits for its receiver fails and its amount is released.
LEMMA RejectEffect ==
  ASSUME TypeOK, NEW r \in Requests, NEW text \in Reasons, RejectPayment(r, text)
  PROVE  /\ payment[r].status = "awaiting_response"
         /\ Becomes(r, {"failed"})
         /\ Releasable(r) # {}
         /\ reserved' = Update(reserved, Releasable(r), -Amount(r))
         /\ UNCHANGED <<balance, active, ledger, outbox, reply>>
<1> DEFINE reason == IF text = "" THEN "receiver rejected payment" ELSE text
<1>1. payment[r].status = "awaiting_response"
  BY DEF RejectPayment
<1>2. reason \in ReasonText
  BY DEF ReasonText
<1>3. payment' = [payment EXCEPT ![r] = applyPaymentEvent(payment[r], "receiver_rejected", reason)]
  BY DEF RejectPayment, Commit
<1> HIDE DEF reason
<1>4. /\ applyPaymentEvent(payment[r], "receiver_rejected", reason) \in CommittedRow
      /\ applyPaymentEvent(payment[r], "receiver_rejected", reason).status = "failed"
  BY <1>1, <1>2, AnsweredRowType
<1>5. Becomes(r, {"failed"})
  BY <1>3, <1>4 DEF Becomes
<1> QED
  BY <1>1, <1>5 DEF RejectPayment

\* SettlePayment: an accepted payment is settled and its amount moves.
LEMMA SettleEffect ==
  ASSUME TypeOK, NEW r \in Requests, SettlePayment(r)
  PROVE  /\ payment[r].status = "accepted"
         /\ Becomes(r, {"settled"})
         /\ Amount(r) > 0
         /\ recordLedgerTransaction(r)
         /\ Debitable(r) # {} /\ Creditable(r) # {}
         /\ balance' = BalanceAfter(r) /\ reserved' = ReservedAfter(r)
         /\ UNCHANGED <<active, outbox, reply>>
<1>1. payment[r].status = "accepted"
  BY DEF SettlePayment
<1>2. Becomes(r, {"settled"})
  BY <1>1, SettledRowType DEF SettlePayment, Commit, Becomes
<1> QED
  BY <1>1, <1>2 DEF SettlePayment, recordLedgerTransaction

-----------------------------------------------------------------------------
(* Type correctness                                                         *)

\* A row that becomes a committed row keeps the table's type.
LEMMA BecomesType ==
  ASSUME TypeOK, NEW r \in Requests, NEW statuses, Becomes(r, statuses)
  PROVE  payment' \in [Requests -> CommittedRow]
BY DEF TypeOK, Becomes

\* A new event of a payment keeps the outbox's type.
LEMMA OutboxType ==
  ASSUME TypeOK, NEW r \in Requests, NEW type \in EventType,
         outbox' \subseteq outbox \cup {<<r, type>>}
  PROVE  outbox' \subseteq Requests \X EventType
<1>1. <<r, type>> \in Requests \X EventType
  OBVIOUS
<1>2. outbox \subseteq Requests \X EventType
  BY DEF TypeOK
<1> QED
  BY <1>1, <1>2

\* The empty tables and the opening balances have their types.
LEMMA TypeInit == Init => TypeOK
<1> SUFFICES ASSUME Init PROVE TypeOK
  OBVIOUS
<1>1. NoRow \in CommittedRow
  BY EmptySeq DEF NoRow, CommittedRow, ReasonText
<1>2. NoLedger \in [currency : Currency, entries : Seq(Entry)]
  BY EmptySeq DEF NoLedger, Currency
<1> QED
  BY <1>1, <1>2, OpeningAssumption DEF Init, TypeOK

\* The ledger's two entries have their type.
LEMMA LedgerType ==
  ASSUME TypeOK, NEW r \in Requests, recordLedgerTransaction(r)
  PROVE  ledger' \in [Requests -> [currency : Currency, entries : Seq(Entry)]]
<1> DEFINE debit  == [account_id |-> Doc[r].DbtrAcct, entry_type |-> "debit",
                      amount |-> Amount(r)]
           credit == [account_id |-> Doc[r].CdtrAcct, entry_type |-> "credit",
                      amount |-> Amount(r)]
<1>1. debit \in Entry /\ credit \in Entry
  BY AmountType DEF recordLedgerTransaction, Entry
<1>2. ledger' = [ledger EXCEPT ![r] = [currency |-> Doc[r].Ccy, entries |-> <<debit, credit>>]]
  BY DEF recordLedgerTransaction
<1> HIDE DEF debit, credit
<1>3. <<debit, credit>> \in Seq(Entry)
  BY <1>1
<1>4. Doc[r].Ccy \in Currency
  BY DEF Currency
<1> QED
  BY <1>2, <1>3, <1>4 DEF TypeOK

\* Every operation keeps the types.
LEMMA TypeStep == TypeOK /\ [Next]_vars => TypeOK'
<1> SUFFICES ASSUME TypeOK, [Next]_vars PROVE TypeOK'
  OBVIOUS
<1>0. /\ "payment.validated" \in EventType /\ "payment.cleared" \in EventType
      /\ "payment.accepted" \in EventType
  BY DEF EventType
<1>1. ASSUME NEW r \in Requests, RefuseRequest(r) PROVE TypeOK'
  BY <1>1 DEF RefuseRequest, Answer, TypeOK
<1>2. ASSUME NEW r \in Requests, StoreRequest(r) PROVE TypeOK'
  <2>1. StorePayment(r)
    BY <1>2 DEF StoreRequest
  <2>2. payment' \in [Requests -> CommittedRow]
    BY <2>1, StoreEffect, BecomesType
  <2>3. outbox' \subseteq Requests \X EventType
    BY <1>0, <2>1, StoreEffect, OutboxType
  <2>4. reply' \in [Requests -> {"none", "201", "422", "500",
                               "409 same UETR", "409 database error"}]
    BY <1>2 DEF StoreRequest, Answer, Verdict, TypeOK
  <2> QED
    BY <2>1, <2>2, <2>3, <2>4, StoreEffect DEF TypeOK
<1>3. ASSUME NEW r \in Requests, LoseRequest(r) PROVE TypeOK'
  BY <1>3 DEF LoseRequest, Answer, TypeOK
<1>4. ASSUME NEW r \in Requests, ClearPayment(r) PROVE TypeOK'
  <2>1. payment' \in [Requests -> CommittedRow]
    BY <1>4, ClearEffect, BecomesType
  <2>2. reserved' \in [Accounts -> Int]
    <3>1. reserved \in [Accounts -> Int] /\ Amount(r) \in Int
      BY AmountType DEF TypeOK
    <3>2. Update(reserved, Reservable(r), Amount(r)) \in [Accounts -> Int]
      BY <3>1 DEF Update
    <3> QED
      BY <1>4, <3>1, <3>2, ClearEffect
  <2>3. outbox' \subseteq Requests \X EventType
    <3>1. outbox' \subseteq outbox \cup {<<r, "payment.cleared">>}
      BY <1>4, ClearEffect
    <3> QED
      BY <1>0, <3>1, OutboxType
  <2> QED
    BY <1>4, <2>1, <2>2, <2>3, ClearEffect DEF TypeOK
<1>5. ASSUME NEW r \in Requests, AcceptPayment(r) PROVE TypeOK'
  <2>1. payment' \in [Requests -> CommittedRow]
    BY <1>5, AcceptEffect, BecomesType
  <2>2. outbox' \subseteq Requests \X EventType
    <3>1. outbox' \subseteq outbox \cup {<<r, "payment.accepted">>}
      BY <1>5, AcceptEffect
    <3> QED
      BY <1>0, <3>1, OutboxType
  <2> QED
    BY <1>5, <2>1, <2>2, AcceptEffect DEF TypeOK
<1>6. ASSUME NEW r \in Requests, NEW text \in Reasons, RejectPayment(r, text) PROVE TypeOK'
  <2>1. payment' \in [Requests -> CommittedRow]
    BY <1>6, RejectEffect, BecomesType
  <2>2. reserved' \in [Accounts -> Int]
    <3>1. reserved \in [Accounts -> Int] /\ -Amount(r) \in Int
      BY AmountType DEF TypeOK
    <3>2. Update(reserved, Releasable(r), -Amount(r)) \in [Accounts -> Int]
      BY <3>1 DEF Update
    <3> QED
      BY <1>6, <3>2, RejectEffect
  <2> QED
    BY <1>6, <2>1, <2>2, RejectEffect DEF TypeOK
<1>7. ASSUME NEW r \in Requests, SettlePayment(r) PROVE TypeOK'
  <2>1. payment' \in [Requests -> CommittedRow]
    BY <1>7, SettleEffect, BecomesType
  <2>2. /\ Amount(r) \in Int /\ -Amount(r) \in Int
        /\ reserved \in [Accounts -> Int] /\ balance \in [Accounts -> Int]
    BY AmountType DEF TypeOK
  <2>3. ReservedAfter(r) \in [Accounts -> Int]
    BY <2>2 DEF ReservedAfter, Update
  <2>4. BalanceAfter(r) \in [Accounts -> Int]
    BY <2>2 DEF BalanceAfter, Update
  <2>5. ledger' \in [Requests -> [currency : Currency, entries : Seq(Entry)]]
    BY <1>7, SettleEffect, LedgerType
  <2> QED
    BY <1>7, <2>1, <2>3, <2>4, <2>5, SettleEffect DEF TypeOK
<1>8. ASSUME NEW a \in Suspendable, SetAccountStatus(a) PROVE TypeOK'
  BY <1>8, SuspendableAssumption DEF SetAccountStatus, TypeOK
<1>9. CASE UNCHANGED vars
  BY <1>9 DEF vars, TypeOK
<1> QED
  BY <1>1, <1>2, <1>3, <1>4, <1>5, <1>6, <1>7, <1>8, <1>9 DEF Next, SubmitPayment

\* Every reachable state has its types, and no committed payment is left in the middle
\* of a transaction's transitions.
THEOREM TypeCorrect == Spec => []TypeOK
BY TypeInit, TypeStep, PTL DEF Spec
=============================================================================
