---------------------------- MODULE HistoryProofs ----------------------------
(***************************************************************************)
(* What the rail records, for any finite set of requests and any accounts:  *)
(* the log tells the payment's story, no record is ever changed, the outbox *)
(* announces what was reached, and the answers of POST stay true.           *)
(***************************************************************************)
EXTENDS PaymentRailProofs

\* A row, in the middle of a transaction or committed, whose log leads to its status.
Told(row) ==
  /\ row.log = << >> => row.status = "received"
  /\ row.log # << >> => /\ row.log[1].from_state = "received"
                        /\ row.log[Len(row.log)].to_state = row.status
                        /\ row.log[Len(row.log)].reason = row.reject_reason
  /\ \A i \in DOMAIN row.log :
       /\ row.log[i].to_state = NextPaymentState(row.log[i].from_state, row.log[i].event_type)
       /\ i > 1 => row.log[i].from_state = row.log[i - 1].to_state

\* new's log is row's with further rows, which lead through the states given.
Extends(new, row, states) ==
  /\ Len(row.log) < Len(new.log)
  /\ \A i \in DOMAIN row.log : new.log[i] = row.log[i]
  /\ \A state : (\E i \in DOMAIN new.log : new.log[i].to_state = state)
                  <=> \/ \E i \in DOMAIN row.log : row.log[i].to_state = state
                      \/ state \in states

\* A payment has a reason exactly if it ended badly.
Reasoned(row) == row.status \in {"failed", "rejected"} <=> row.reject_reason # ""

\* The inductive invariant: that each step extends the log of a row that is told needs
\* the type of its rows.
HistoryInvariant == TypeOK /\ AuditTrail

-----------------------------------------------------------------------------
(* Transitions                                                              *)

\* A transition adds its row to the log, which goes on telling the story.
LEMMA OneMore ==
  ASSUME NEW row \in WorkingRow, Told(row), row.status \in PaymentState,
         NEW event \in PaymentEvent, NEW reason \in ReasonText,
         NextPaymentState(row.status, event) \in PaymentState
  PROVE  LET new == applyPaymentEvent(row, event, reason)
         IN /\ Told(new) /\ Extends(new, row, {new.status})
            /\ new.reject_reason = reason
<1> DEFINE next == NextPaymentState(row.status, event)
           entry == [from_state |-> row.status, to_state |-> next,
                     event_type |-> event, reason |-> reason]
           new == applyPaymentEvent(row, event, reason)
           n == Len(row.log)
<1>1. /\ new.status = next /\ new.reject_reason = reason /\ new.log = Append(row.log, entry)
  BY DEF applyPaymentEvent
<1>2. /\ entry \in TransitionRow
      /\ entry.from_state = row.status /\ entry.to_state = next
      /\ entry.event_type = event /\ entry.reason = reason
  BY DEF TransitionRow
<1>3. next = NextPaymentState(row.status, event)
  OBVIOUS
<1> HIDE DEF entry, new, next
<1>4. row.log \in Seq(TransitionRow)
  BY DEF WorkingRow
<1>5. n \in Nat /\ DOMAIN row.log = 1..n /\ (n = 0 <=> row.log = << >>)
  BY <1>4, LenProperties, EmptySeq
<1>6. /\ new.log \in Seq(TransitionRow) /\ new.log # << >>
      /\ Len(new.log) = n + 1 /\ DOMAIN new.log = 1..(n + 1)
      /\ \A i \in 1..n : new.log[i] = row.log[i]
      /\ new.log[n + 1] = entry
  BY <1>1, <1>2, <1>4, AppendProperties, LenProperties
<1> HIDE DEF n
<1>7. Told(new)
  <2>1. new.log[1].from_state = "received"
    <3>1. CASE n = 0
      BY <1>2, <1>5, <1>6, <3>1 DEF Told
    <3>2. CASE n # 0
      <4>1. 1 \in 1..n /\ row.log # << >>
        BY <1>5, <3>2
      <4> QED
        BY <1>6, <4>1 DEF Told
    <3> QED
      BY <3>1, <3>2
  <2>2. ASSUME NEW i \in 1..(n + 1)
        PROVE  /\ new.log[i].to_state
                    = NextPaymentState(new.log[i].from_state, new.log[i].event_type)
               /\ i > 1 => new.log[i].from_state = new.log[i - 1].to_state
    <3>1. CASE i \in 1..n
      <4>1. new.log[i] = row.log[i] /\ (i > 1 => new.log[i - 1] = row.log[i - 1])
        BY <1>5, <1>6, <3>1
      <4> QED
        BY <1>5, <3>1, <4>1 DEF Told
    <3>2. CASE i = n + 1
      <4>1. new.log[i] = entry
        BY <1>6, <3>2
      <4>2. ASSUME i > 1 PROVE row.status = new.log[i - 1].to_state
        <5>1. n \in 1..n /\ i - 1 = n /\ row.log # << >>
          BY <1>5, <3>2, <4>2
        <5>2. new.log[i - 1] = row.log[n]
          BY <1>6, <5>1
        <5> QED
          BY <5>1, <5>2 DEF Told, n
      <4> QED
        BY <1>2, <1>3, <4>1, <4>2
    <3> QED
      BY <1>5, <3>1, <3>2
  <2> QED
    BY <1>1, <1>2, <1>6, <2>1, <2>2 DEF Told
<1>8. Extends(new, row, {new.status})
  <2>1. ASSUME NEW state
        PROVE  (\E i \in DOMAIN new.log : new.log[i].to_state = state)
                 <=> \/ \E i \in DOMAIN row.log : row.log[i].to_state = state
                     \/ state \in {new.status}
    <3>1. (\E i \in 1..(n + 1) : new.log[i].to_state = state)
            <=> (\E i \in 1..n : new.log[i].to_state = state) \/ new.log[n + 1].to_state = state
      BY <1>5
    <3>2. (\E i \in 1..n : new.log[i].to_state = state)
            <=> (\E i \in 1..n : row.log[i].to_state = state)
      BY <1>6
    <3>3. new.log[n + 1].to_state = new.status
      BY <1>1, <1>2, <1>6
    <3> QED
      BY <1>5, <1>6, <3>1, <3>2, <3>3
  <2>2. Len(row.log) < Len(new.log)
    BY <1>5, <1>6 DEF n
  <2> QED
    BY <1>5, <1>6, <2>1, <2>2 DEF Extends
<1> QED
  BY <1>1, <1>7, <1>8 DEF new

\* Two transitions in one transaction.
LEMMA TwoMore ==
  ASSUME NEW a \in WorkingRow, NEW b \in WorkingRow, NEW c \in WorkingRow,
         NEW S, NEW T, Extends(b, a, S), Extends(c, b, T)
  PROVE  Extends(c, a, S \cup T)
<1>1. /\ a.log \in Seq(TransitionRow) /\ b.log \in Seq(TransitionRow)
      /\ c.log \in Seq(TransitionRow)
  BY DEF WorkingRow
<1>2. /\ Len(a.log) \in Nat /\ DOMAIN a.log = 1..Len(a.log)
      /\ Len(b.log) \in Nat /\ DOMAIN b.log = 1..Len(b.log)
      /\ Len(c.log) \in Nat
  BY <1>1, LenProperties
<1>3. Len(a.log) < Len(c.log)
  BY <1>2 DEF Extends
<1>4. ASSUME NEW i \in DOMAIN a.log PROVE c.log[i] = a.log[i]
  <2>1. i \in DOMAIN b.log
    BY <1>2 DEF Extends
  <2> QED
    BY <2>1 DEF Extends
<1> QED
  BY <1>3, <1>4 DEF Extends

-----------------------------------------------------------------------------
(* What each operation does to its payment's log                            *)

\* r's row becomes one that goes on with its story through the states given.
GoesOn(r, row, states) ==
  /\ row \in CommittedRow /\ Told(row) /\ Reasoned(row)
  /\ Extends(row, payment[r], states)
  /\ payment' = [payment EXCEPT ![r] = row]

\* A stored payment's row is told; one that is not stored has no log.
LEMMA StoredTold ==
  ASSUME HistoryInvariant, NEW r \in Requests
  PROVE  /\ payment[r] \in CommittedRow
         /\ payment[r].status # "none" => r \in Stored /\ Told(payment[r])
<1>1. payment[r] \in CommittedRow
  BY DEF HistoryInvariant, TypeOK
<1>2. NoRow.status = "none"
  BY DEF NoRow
<1>3. r \in Stored => Told(payment[r])
  BY DEF HistoryInvariant, AuditTrail, Told
<1> QED
  BY <1>1, <1>2, <1>3 DEF Stored

\* POST /payments: from nothing to validated or rejected.
LEMMA StoreGoesOn ==
  ASSUME HistoryInvariant, NEW r \in Requests, StorePayment(r)
  PROVE  /\ payment[r] = NoRow
         /\ ValidatedRow(r).status \in {"validated", "rejected"}
         /\ GoesOn(r, ValidatedRow(r), {ValidatedRow(r).status})
<1> DEFINE reason == validatePayment(Doc[r])
           event == IF reason = "" THEN "validation_passed" ELSE "validation_failed"
           new == applyPaymentEvent(ReceivedRow, event, reason)
<1>1. payment[r] = NoRow /\ payment' = [payment EXCEPT ![r] = ValidatedRow(r)]
  BY DEF StorePayment, UETRTaken, Stored, Commit
<1>2. ValidatedRow(r) = new
  BY DEF ValidatedRow
<1>3. reason \in ReasonText
  BY Validation
<1>4. event \in PaymentEvent
  BY EventTypes
<1>5. NextPaymentState("received", event) = IF reason = "" THEN "validated" ELSE "rejected"
  BY Machine
<1> HIDE DEF reason, event
<1>6. Told(ReceivedRow) /\ ReceivedRow.log = NoRow.log /\ NoRow.log = << >>
  BY DEF Told, ReceivedRow, NoRow
<1>0. /\ ReceivedRow.status \in PaymentState
      /\ NextPaymentState(ReceivedRow.status, event) \in PaymentState
      /\ NextPaymentState(ReceivedRow.status, event)
           = IF reason = "" THEN "validated" ELSE "rejected"
  BY <1>5, ReceivedRowType, EventTypes
<1>7. Told(new) /\ Extends(new, ReceivedRow, {new.status}) /\ new.reject_reason = reason
  BY <1>0, <1>3, <1>4, <1>6, ReceivedRowType, OneMore
<1>8. new.status = IF reason = "" THEN "validated" ELSE "rejected"
  BY <1>0, <1>3, <1>4, ReceivedRowType, ApplyEvent
<1>9. Extends(new, NoRow, {new.status})
  BY <1>6, <1>7 DEF Extends
<1>10. Reasoned(new)
  BY <1>7, <1>8 DEF Reasoned
<1> QED
  BY <1>1, <1>2, <1>7, <1>8, <1>9, <1>10, ValidatedRowType DEF GoesOn

\* row is where two transitions lead r's payment, through one state to another.
Arrives(r, row, between, end, reason) ==
  /\ row \in CommittedRow /\ Told(row)
  /\ row.status = end /\ row.reject_reason = reason
  /\ Extends(row, payment[r], {between, end})

\* Two transitions of one transaction on a stored payment.
LEMMA TwoGoOn ==
  ASSUME HistoryInvariant, NEW r \in Requests, payment[r].status \in PaymentState,
         NEW first \in PaymentEvent, NEW second \in PaymentEvent, NEW reason \in ReasonText,
         NEW between \in PaymentState, NEW end \in {"awaiting_response", "failed", "settled"},
         NextPaymentState(payment[r].status, first) = between,
         NextPaymentState(between, second) = end
  PROVE  Arrives(r, applyPaymentEvent(applyPaymentEvent(payment[r], first, ""), second, reason),
                 between, end, reason)
<1> DEFINE started == applyPaymentEvent(payment[r], first, "")
           row == applyPaymentEvent(started, second, reason)
<1>1. payment[r] \in WorkingRow /\ Told(payment[r]) /\ "" \in ReasonText
  <2>1. "none" \notin PaymentState
    BY DEF PaymentState
  <2> QED
    BY <2>1, StoredTold, RowTypes DEF ReasonText
<1>2. /\ started \in WorkingRow /\ started.status = between
      /\ Told(started) /\ Extends(started, payment[r], {between})
  <2> DEFINE new == applyPaymentEvent(payment[r], first, "")
  <2>1. NextPaymentState(payment[r].status, first) \in PaymentState
    OBVIOUS
  <2>2. new \in WorkingRow /\ new.status = between
    BY <1>1, <2>1, ApplyEvent
  <2>3. Told(new) /\ Extends(new, payment[r], {new.status})
    BY <1>1, <2>1, OneMore
  <2> HIDE DEF new
  <2> QED
    BY <2>2, <2>3 DEF new
<1>3. row = applyPaymentEvent(started, second, reason)
  OBVIOUS
<1> HIDE DEF started, row
<1>4. /\ NextPaymentState(started.status, second) \in PaymentState
      /\ NextPaymentState(started.status, second) = end /\ started.status \in PaymentState
  BY <1>2, EventTypes
<1>5. row \in WorkingRow /\ row.status = end
  BY <1>2, <1>3, <1>4, ApplyEvent
<1>9. Told(row) /\ Extends(row, started, {row.status}) /\ row.reject_reason = reason
  <2> DEFINE new == applyPaymentEvent(started, second, reason)
  <2>1. Told(new) /\ Extends(new, started, {new.status}) /\ new.reject_reason = reason
    BY <1>2, <1>4, OneMore
  <2> QED
    BY <1>3, <2>1
<1>6. row \in CommittedRow
  BY <1>5, RowTypes
<1>7. Extends(row, payment[r], {between} \cup {end})
  BY <1>1, <1>2, <1>5, <1>9, TwoMore
<1>8. {between} \cup {end} = {between, end}
  OBVIOUS
<1> QED
  BY <1>5, <1>6, <1>7, <1>8, <1>9 DEF Arrives, row, started

\* clearPayment: through clearing to its outcome.
LEMMA ClearGoesOn ==
  ASSUME HistoryInvariant, NEW r \in Requests, ClearPayment(r)
  PROVE  /\ payment[r].status = "validated"
         /\ \E row :
              \/ /\ GoesOn(r, row, {"clearing", "failed"}) /\ row.status = "failed"
                 /\ UNCHANGED outbox
              \/ /\ GoesOn(r, row, {"clearing", "awaiting_response"})
                 /\ row.status = "awaiting_response"
                 /\ outbox' = outbox \cup {<<r, "payment.cleared">>}
         /\ UNCHANGED <<ledger, reply>>
<1>1. payment[r].status = "validated" /\ UNCHANGED <<ledger, reply>>
  BY DEF ClearPayment
<1>2. ASSUME NEW event \in {"clearing_passed", "clearing_failed"}, NEW reason \in ReasonText,
             reason = "" <=> event = "clearing_passed",
             payment' = [payment EXCEPT ![r] = Cleared(r, event, reason)],
             NEW end \in {"awaiting_response", "failed"},
             end = "failed" <=> event = "clearing_failed"
      PROVE  /\ Cleared(r, event, reason).status = end
             /\ GoesOn(r, Cleared(r, event, reason), {"clearing", end})
  <2> DEFINE row == Cleared(r, event, reason)
  <2>1. /\ payment[r].status \in PaymentState /\ "clearing" \in PaymentState
        /\ "clearing_started" \in PaymentEvent /\ event \in PaymentEvent
        /\ NextPaymentState(payment[r].status, "clearing_started") = "clearing"
        /\ NextPaymentState("clearing", event) = end
    BY <1>1, <1>2, Machine, EventTypes
  <2>2. Arrives(r, row, "clearing", end, reason)
    BY <2>1, TwoGoOn DEF Cleared
  <2>3. Reasoned(row)
    BY <1>2, <2>2 DEF Reasoned, Arrives
  <2> QED
    BY <1>2, <2>2, <2>3 DEF GoesOn, Arrives
<1>3. ASSUME NEW reason \in ReasonText, reason # "", FailClearing(r, reason)
      PROVE  \E row : /\ GoesOn(r, row, {"clearing", "failed"}) /\ row.status = "failed"
                      /\ UNCHANGED outbox
  <2>1. payment' = [payment EXCEPT ![r] = Cleared(r, "clearing_failed", reason)]
    BY <1>3 DEF FailClearing, Commit
  <2>2. /\ Cleared(r, "clearing_failed", reason).status = "failed"
        /\ GoesOn(r, Cleared(r, "clearing_failed", reason), {"clearing", "failed"})
    BY <1>2, <1>3, <2>1
  <2> QED
    BY <1>3, <2>2 DEF FailClearing
<1>4. ASSUME PassClearing(r)
      PROVE  \E row : /\ GoesOn(r, row, {"clearing", "awaiting_response"})
                      /\ row.status = "awaiting_response"
                      /\ outbox' = outbox \cup {<<r, "payment.cleared">>}
  <2>1. payment' = [payment EXCEPT ![r] = Cleared(r, "clearing_passed", "")]
    BY <1>4 DEF PassClearing, Commit
  <2>2. "" \in ReasonText
    BY DEF ReasonText
  <2>3. /\ Cleared(r, "clearing_passed", "").status = "awaiting_response"
        /\ GoesOn(r, Cleared(r, "clearing_passed", ""), {"clearing", "awaiting_response"})
    BY <1>2, <2>1, <2>2
  <2> QED
    BY <1>4, <2>3 DEF PassClearing
<1>5. /\ "creditor account does not exist or is inactive" \in ReasonText
      /\ "debtor account has insufficient available funds or is inactive" \in ReasonText
  BY DEF ReasonText
<1> QED
  BY <1>1, <1>3, <1>4, <1>5 DEF ClearPayment

\* respondToPayment: one transition to accepted or failed.
LEMMA AnswerGoesOn ==
  ASSUME HistoryInvariant, NEW r \in Requests, payment[r].status = "awaiting_response",
         NEW event \in {"receiver_accepted", "receiver_rejected"}, NEW reason \in ReasonText,
         reason = "" <=> event = "receiver_accepted",
         payment' = [payment EXCEPT ![r] = applyPaymentEvent(payment[r], event, reason)]
  PROVE  LET row == applyPaymentEvent(payment[r], event, reason)
         IN /\ row.status = IF event = "receiver_accepted" THEN "accepted" ELSE "failed"
            /\ GoesOn(r, row, {row.status})
<1> DEFINE row == applyPaymentEvent(payment[r], event, reason)
<1>1. payment[r] \in WorkingRow /\ Told(payment[r])
  BY StoredTold, RowTypes
<1>2. /\ payment[r].status \in PaymentState /\ event \in PaymentEvent
      /\ NextPaymentState(payment[r].status, event) \in PaymentState
      /\ NextPaymentState(payment[r].status, event)
           = IF event = "receiver_accepted" THEN "accepted" ELSE "failed"
  BY Machine, EventTypes
<1>3. /\ row \in WorkingRow /\ Told(row) /\ row.reject_reason = reason
      /\ row.status = IF event = "receiver_accepted" THEN "accepted" ELSE "failed"
      /\ Extends(row, payment[r], {row.status})
  BY <1>1, <1>2, ApplyEvent, OneMore
<1> HIDE DEF row
<1>4. row \in CommittedRow
  BY <1>3, RowTypes
<1>5. Reasoned(row)
  BY <1>3 DEF Reasoned
<1> QED
  BY <1>3, <1>4, <1>5 DEF GoesOn, row

\* The receiver accepts.
LEMMA AcceptGoesOn ==
  ASSUME HistoryInvariant, NEW r \in Requests, AcceptPayment(r)
  PROVE  /\ payment[r].status = "awaiting_response"
         /\ \E row : GoesOn(r, row, {"accepted"}) /\ row.status = "accepted"
         /\ outbox' = outbox \cup {<<r, "payment.accepted">>}
         /\ UNCHANGED <<ledger, reply>>
<1>1. /\ payment[r].status = "awaiting_response"
      /\ outbox' = outbox \cup {<<r, "payment.accepted">>}
      /\ UNCHANGED <<ledger, reply>>
      /\ payment' = [payment EXCEPT ![r] =
                       applyPaymentEvent(payment[r], "receiver_accepted", "")]
  BY DEF AcceptPayment, Commit
<1>2. "" \in ReasonText
  BY DEF ReasonText
<1>3. LET row == applyPaymentEvent(payment[r], "receiver_accepted", "")
      IN row.status = "accepted" /\ GoesOn(r, row, {row.status})
  BY <1>1, <1>2, AnswerGoesOn
<1> QED
  BY <1>1, <1>3

\* The receiver rejects, with a reason whether it gives one or not.
LEMMA RejectGoesOn ==
  ASSUME HistoryInvariant, NEW r \in Requests, NEW text \in Reasons, RejectPayment(r, text)
  PROVE  /\ payment[r].status = "awaiting_response"
         /\ \E row : GoesOn(r, row, {"failed"}) /\ row.status = "failed"
         /\ UNCHANGED <<ledger, outbox, reply>>
<1> DEFINE reason == IF text = "" THEN "receiver rejected payment" ELSE text
<1>1. /\ payment[r].status = "awaiting_response" /\ UNCHANGED <<ledger, outbox, reply>>
      /\ payment' = [payment EXCEPT ![r] =
                       applyPaymentEvent(payment[r], "receiver_rejected", reason)]
  BY DEF RejectPayment, Commit
<1>2. reason \in ReasonText /\ reason # ""
  BY DEF ReasonText
<1> HIDE DEF reason
<1>3. LET row == applyPaymentEvent(payment[r], "receiver_rejected", reason)
      IN row.status = "failed" /\ GoesOn(r, row, {row.status})
  BY <1>1, <1>2, AnswerGoesOn
<1> QED
  BY <1>1, <1>3

\* settlePayment: through settling to settled, with a ledger where there was none.
LEMMA SettleGoesOn ==
  ASSUME HistoryInvariant, NEW r \in Requests, SettlePayment(r)
  PROVE  /\ payment[r].status = "accepted"
         /\ \E row : GoesOn(r, row, {"settling", "settled"}) /\ row.status = "settled"
         /\ recordLedgerTransaction(r)
         /\ UNCHANGED <<outbox, reply>>
<1> DEFINE row == applyPaymentEvent(applyPaymentEvent(payment[r], "settlement_started", ""),
                                    "settlement_completed", "")
<1>1. /\ payment[r].status = "accepted" /\ recordLedgerTransaction(r)
      /\ UNCHANGED <<outbox, reply>>
      /\ payment' = [payment EXCEPT ![r] = row]
  BY DEF SettlePayment, Commit
<1>2. /\ payment[r].status \in PaymentState /\ "settling" \in PaymentState
      /\ "settlement_started" \in PaymentEvent /\ "settlement_completed" \in PaymentEvent
      /\ NextPaymentState(payment[r].status, "settlement_started") = "settling"
      /\ NextPaymentState("settling", "settlement_completed") = "settled"
      /\ "" \in ReasonText
  BY <1>1, Machine, EventTypes DEF ReasonText
<1>3. Arrives(r, row, "settling", "settled", "")
  BY <1>2, TwoGoOn
<1> HIDE DEF row
<1>4. Reasoned(row)
  BY <1>3 DEF Reasoned, Arrives
<1>5. GoesOn(r, row, {"settling", "settled"}) /\ row.status = "settled"
  BY <1>1, <1>3, <1>4 DEF GoesOn, Arrives
<1> QED
  BY <1>1, <1>5

-----------------------------------------------------------------------------
(* What a step does to what is recorded                                     *)

\* The events that announce a state of a set.
Announcing(states) == {type \in EventType : Announced(type) \in states}

\* An operation on r that has not ended: its row goes on, its ledger is written at most
\* where there was none, and exactly the states it went through are announced.
Records(r, row, states) ==
  /\ GoesOn(r, row, states) /\ row.status # "none"
  /\ payment[r].status \notin Terminal
  /\ UNCHANGED ledger \/ recordLedgerTransaction(r)
  /\ outbox' = outbox \cup {<<r, type>> : type \in Announcing(states)}

\* What the events announce.
LEMMA Announcements ==
  /\ Announcing({"validated"}) = {"payment.validated"}
  /\ Announcing({"rejected"}) = {}
  /\ Announcing({"clearing", "failed"}) = {}
  /\ Announcing({"clearing", "awaiting_response"}) = {"payment.cleared"}
  /\ Announcing({"accepted"}) = {"payment.accepted"}
  /\ Announcing({"failed"}) = {}
  /\ Announcing({"settling", "settled"}) = {}
<1>1. /\ Announced("payment.validated") = "validated"
      /\ Announced("payment.cleared") = "awaiting_response"
      /\ Announced("payment.accepted") = "accepted"
  BY DEF Announced
<1> QED
  BY <1>1 DEF Announcing, EventType

\* POST /payments announces what it stored as validated.
LEMMA StoreRecords ==
  ASSUME HistoryInvariant, NEW r \in Requests, StorePayment(r)
  PROVE  Records(r, ValidatedRow(r), {ValidatedRow(r).status})
<1>1. /\ payment[r] = NoRow /\ ValidatedRow(r).status \in {"validated", "rejected"}
      /\ GoesOn(r, ValidatedRow(r), {ValidatedRow(r).status})
  BY StoreGoesOn
<1>2. NoRow.status \notin Terminal
  BY DEF NoRow, Terminal
<1>3. outbox' = IF ValidatedRow(r).status = "validated"
               THEN outbox \cup {<<r, "payment.validated">>} ELSE outbox
  BY DEF StorePayment
<1>4. UNCHANGED ledger
  BY DEF StorePayment
<1>5. CASE ValidatedRow(r).status = "validated"
  <2>1. {<<r, type>> : type \in Announcing({"validated"})} = {<<r, "payment.validated">>}
    BY Announcements
  <2> QED
    BY <1>1, <1>2, <1>3, <1>4, <1>5, <2>1 DEF Records
<1>6. CASE ValidatedRow(r).status = "rejected"
  <2>1. {<<r, type>> : type \in Announcing({"rejected"})} = {}
    BY Announcements
  <2> QED
    BY <1>1, <1>2, <1>3, <1>4, <1>6, <2>1 DEF Records
<1> QED
  BY <1>1, <1>5, <1>6

\* Every step records something or leaves all records alone.
LEMMA StepRecords ==
  ASSUME HistoryInvariant, [Next]_vars
  PROVE  \/ UNCHANGED <<payment, ledger, outbox>>
         \/ \E r \in Requests : \E row, states : Records(r, row, states)
<1> DEFINE Recording(r) == \E row, states : Records(r, row, states)
<1>0. /\ "validated" \notin Terminal /\ "awaiting_response" \notin Terminal
      /\ "accepted" \notin Terminal
  BY DEF Terminal
<1>1. ASSUME NEW r \in Requests, ClearPayment(r) PROVE Recording(r)
  <2>1. payment[r].status \notin Terminal /\ UNCHANGED ledger
    BY <1>0, <1>1, ClearGoesOn
  <2>2. PICK row :
          \/ /\ GoesOn(r, row, {"clearing", "failed"}) /\ row.status = "failed"
             /\ UNCHANGED outbox
          \/ /\ GoesOn(r, row, {"clearing", "awaiting_response"})
             /\ row.status = "awaiting_response"
             /\ outbox' = outbox \cup {<<r, "payment.cleared">>}
    BY <1>1, ClearGoesOn
  <2>3. /\ {<<r, type>> : type \in Announcing({"clearing", "failed"})} = {}
        /\ {<<r, type>> : type \in Announcing({"clearing", "awaiting_response"})}
             = {<<r, "payment.cleared">>}
    BY Announcements
  <2>4. \/ Records(r, row, {"clearing", "failed"})
        \/ Records(r, row, {"clearing", "awaiting_response"})
    BY <2>1, <2>2, <2>3 DEF Records
  <2> QED
    BY <2>4
<1>2. ASSUME NEW r \in Requests, AcceptPayment(r) PROVE Recording(r)
  <2>1. PICK row : GoesOn(r, row, {"accepted"}) /\ row.status = "accepted"
    BY <1>2, AcceptGoesOn
  <2>2. /\ payment[r].status \notin Terminal /\ UNCHANGED ledger
        /\ outbox' = outbox \cup {<<r, "payment.accepted">>}
    BY <1>0, <1>2, AcceptGoesOn
  <2>3. {<<r, type>> : type \in Announcing({"accepted"})} = {<<r, "payment.accepted">>}
    BY Announcements
  <2>4. Records(r, row, {"accepted"})
    BY <2>1, <2>2, <2>3 DEF Records
  <2> QED
    BY <2>4
<1>3. ASSUME NEW r \in Requests, NEW text \in Reasons, RejectPayment(r, text)
      PROVE  Recording(r)
  <2>1. PICK row : GoesOn(r, row, {"failed"}) /\ row.status = "failed"
    BY <1>3, RejectGoesOn
  <2>2. payment[r].status \notin Terminal /\ UNCHANGED <<ledger, outbox>>
    BY <1>0, <1>3, RejectGoesOn
  <2>3. {<<r, type>> : type \in Announcing({"failed"})} = {}
    BY Announcements
  <2>4. Records(r, row, {"failed"})
    BY <2>1, <2>2, <2>3 DEF Records
  <2> QED
    BY <2>4
<1>4. ASSUME NEW r \in Requests, SettlePayment(r) PROVE Recording(r)
  <2>1. PICK row : GoesOn(r, row, {"settling", "settled"}) /\ row.status = "settled"
    BY <1>4, SettleGoesOn
  <2>2. /\ payment[r].status \notin Terminal /\ recordLedgerTransaction(r)
        /\ UNCHANGED outbox
    BY <1>0, <1>4, SettleGoesOn
  <2>3. {<<r, type>> : type \in Announcing({"settling", "settled"})} = {}
    BY Announcements
  <2>4. Records(r, row, {"settling", "settled"})
    BY <2>1, <2>2, <2>3 DEF Records
  <2> QED
    BY <2>4
<1>5. ASSUME NEW r \in Requests, SubmitPayment(r)
      PROVE  UNCHANGED <<payment, ledger, outbox>> \/ Recording(r)
  <2>1. RefuseRequest(r) \/ LoseRequest(r) => UNCHANGED <<payment, ledger, outbox>>
    BY DEF RefuseRequest, LoseRequest
  <2>2. StoreRequest(r) => Recording(r)
    BY StoreRecords DEF StoreRequest
  <2> QED
    BY <1>5, <2>1, <2>2 DEF SubmitPayment
<1>6. ASSUME NEW a \in Suspendable, SetAccountStatus(a)
      PROVE  UNCHANGED <<payment, ledger, outbox>>
  BY <1>6 DEF SetAccountStatus
<1>7. UNCHANGED vars => UNCHANGED <<payment, ledger, outbox>>
  BY DEF vars
<1> HIDE DEF Recording
<1>8. UNCHANGED <<payment, ledger, outbox>> \/ \E r \in Requests : Recording(r)
  BY <1>1, <1>2, <1>3, <1>4, <1>5, <1>6, <1>7 DEF Next
<1> QED
  BY <1>8 DEF Recording

\* The row of r is the new one and the others are as they were.
LEMMA NewRow ==
  ASSUME HistoryInvariant, NEW r \in Requests, NEW row, NEW states, GoesOn(r, row, states)
  PROVE  /\ payment'[r] = row
         /\ \A q \in Requests : q # r => payment'[q] = payment[q]
BY DEF HistoryInvariant, TypeOK, GoesOn

-----------------------------------------------------------------------------
(* The audit trail                                                          *)

\* A step leaves logs that tell their payments' stories.
LEMMA AuditStep == HistoryInvariant /\ [Next]_vars => AuditTrail'
<1> SUFFICES ASSUME HistoryInvariant, [Next]_vars PROVE AuditTrail'
  OBVIOUS
<1>1. CASE UNCHANGED <<payment, ledger, outbox>>
  BY <1>1 DEF HistoryInvariant, AuditTrail, Stored
<1>2. ASSUME NEW r \in Requests, NEW row, NEW states, Records(r, row, states)
      PROVE  AuditTrail'
  <2>1. GoesOn(r, row, states)
    BY <1>2 DEF Records
  <2>2. payment'[r] = row /\ \A q \in Requests : q # r => payment'[q] = payment[q]
    BY <2>1, NewRow
  <2>3. row.log # << >>
    <3>1. payment[r].log \in Seq(TransitionRow)
      BY DEF HistoryInvariant, TypeOK, CommittedRow
    <3>2. Len(payment[r].log) \in Nat /\ Len(<< >>) = 0
      BY <3>1, LenProperties
    <3> QED
      BY <2>1, <3>2 DEF GoesOn, Extends
  <2>4. ASSUME NEW q \in Stored'
        PROVE  /\ Told(payment'[q]) /\ payment'[q].log # << >> /\ Reasoned(payment'[q])
    <3>1. CASE q = r
      BY <2>1, <2>2, <2>3, <3>1 DEF GoesOn
    <3>2. CASE q # r
      <4>1. q \in Stored /\ payment'[q] = payment[q]
        BY <2>2, <2>4, <3>2 DEF Stored
      <4> QED
        BY <4>1 DEF HistoryInvariant, AuditTrail, Told, Reasoned
    <3> QED
      BY <3>1, <3>2
  <2> QED
    BY <2>4 DEF AuditTrail, Told, Reasoned
<1> QED
  BY <1>1, <1>2, StepRecords

\* The transition log is the payment's whole story, whoever calls what.
THEOREM AuditTrailHolds == Spec => []AuditTrail
<1>1. Init => AuditTrail
  BY DEF Init, AuditTrail, Stored
<1>2. HistoryInvariant /\ [Next]_vars => HistoryInvariant'
  BY AuditStep, TypeStep DEF HistoryInvariant
<1>3. Init => HistoryInvariant
  BY <1>1, TypeInit DEF HistoryInvariant
<1>4. HistoryInvariant => AuditTrail
  BY DEF HistoryInvariant
<1> QED
  BY <1>2, <1>3, <1>4, PTL DEF Spec

-----------------------------------------------------------------------------
(* Finality                                                                 *)

\* Every step keeps what is recorded.
LEMMA FinalStep == HistoryInvariant /\ [Next]_vars => KeepsHistory
<1> SUFFICES ASSUME HistoryInvariant, [Next]_vars PROVE KeepsHistory
  OBVIOUS
<1>1. \A r \in Requests : Len(payment[r].log) \in Nat
  <2>1. ASSUME NEW r \in Requests PROVE payment[r].log \in Seq(TransitionRow)
    BY DEF HistoryInvariant, TypeOK, CommittedRow
  <2> QED
    BY <2>1, LenProperties
<1>2. CASE UNCHANGED <<payment, ledger, outbox>>
  BY <1>1, <1>2 DEF KeepsHistory
<1>3. ASSUME NEW r \in Requests, NEW row, NEW states, Records(r, row, states)
      PROVE  KeepsHistory
  <2>1. payment'[r] = row /\ \A q \in Requests : q # r => payment'[q] = payment[q]
    BY <1>3, NewRow DEF Records
  <2>2. /\ Len(payment[r].log) < Len(row.log)
        /\ \A i \in DOMAIN payment[r].log : row.log[i] = payment[r].log[i]
        /\ payment[r].status \notin Terminal
        /\ outbox \subseteq outbox'
    BY <1>3 DEF Records, GoesOn, Extends
  <2>3. \A q \in Requests : ledger[q] # NoLedger => ledger'[q] = ledger[q]
    BY <1>3 DEF Records, recordLedgerTransaction, HistoryInvariant, TypeOK
  <2>4. row.log = payment'[r].log
    BY <2>1
  <2>5. Len(payment[r].log) <= Len(row.log)
    <3>1. row.log \in Seq(TransitionRow)
      BY <1>3 DEF Records, GoesOn, CommittedRow
    <3>2. Len(row.log) \in Nat
      BY <3>1, LenProperties
    <3> QED
      BY <1>1, <2>2, <3>2
  <2>6. ASSUME NEW q \in Requests
        PROVE  /\ Len(payment[q].log) <= Len(payment'[q].log)
               /\ \A i \in DOMAIN payment[q].log : payment'[q].log[i] = payment[q].log[i]
               /\ payment[q].status \in Terminal => payment'[q] = payment[q]
    <3>1. CASE q = r
      BY <2>2, <2>4, <2>5, <3>1
    <3>2. CASE q # r
      BY <1>1, <2>1, <3>2
    <3> QED
      BY <3>1, <3>2
  <2> QED
    BY <2>2, <2>3, <2>6 DEF KeepsHistory
<1> QED
  BY <1>2, <1>3, StepRecords

\* The records and a reachable state's types stay together.
LEMMA HistoryInvariantHolds == Spec => []HistoryInvariant
<1>1. []TypeOK /\ []AuditTrail => []HistoryInvariant
  <2>1. TypeOK /\ AuditTrail => HistoryInvariant
    BY DEF HistoryInvariant
  <2> QED
    BY <2>1, PTL
<1> QED
  BY <1>1, TypeCorrect, AuditTrailHolds, PTL

\* A payment's end is final, and log, ledger and outbox are only ever added to.
THEOREM RecordsAreFinal == Spec => HistoryIsFinal
BY HistoryInvariantHolds, FinalStep, PTL DEF Spec, HistoryIsFinal

-----------------------------------------------------------------------------
(* The outbox                                                               *)

\* What r has reached after an operation: what it had, and the states it went through.
LEMMA ReachedAfter ==
  ASSUME HistoryInvariant, NEW r \in Requests, NEW row, NEW states, Records(r, row, states)
  PROVE  /\ \A state : Reached(r, state)' <=> Reached(r, state) \/ state \in states
         /\ \A q \in Requests : q # r => \A state : Reached(q, state)' <=> Reached(q, state)
<1>1. payment'[r] = row /\ \A q \in Requests : q # r => payment'[q] = payment[q]
  BY NewRow DEF Records
<1>2. Extends(payment'[r], payment[r], states)
  BY <1>1 DEF Records, GoesOn
<1> QED
  BY <1>1, <1>2 DEF Extends, Reached

\* The events recorded are those of the states reached, before and after every step.
LEMMA OutboxStep ==
  HistoryInvariant /\ OutboxTellsStates /\ [Next]_vars => OutboxTellsStates'
<1> SUFFICES ASSUME HistoryInvariant, OutboxTellsStates, [Next]_vars
             PROVE  OutboxTellsStates'
  OBVIOUS
<1>1. CASE UNCHANGED <<payment, ledger, outbox>>
  BY <1>1 DEF OutboxTellsStates, Reached
<1>2. ASSUME NEW r \in Requests, NEW row, NEW states, Records(r, row, states)
      PROVE  OutboxTellsStates'
  <2>1. outbox' = outbox \cup {<<r, type>> : type \in Announcing(states)}
    BY <1>2 DEF Records
  <2>2. ASSUME NEW q \in Requests, NEW type \in EventType
        PROVE  <<q, type>> \in outbox' <=> Reached(q, Announced(type))'
    <3>1. <<q, type>> \in outbox <=> Reached(q, Announced(type))
      BY DEF OutboxTellsStates
    <3>2. CASE q = r
      <4>1. <<q, type>> \in outbox' <=> <<q, type>> \in outbox \/ Announced(type) \in states
        BY <2>1, <3>2 DEF Announcing
      <4>2. Reached(r, Announced(type))' <=> Reached(r, Announced(type)) \/ Announced(type) \in states
        BY <1>2, ReachedAfter
      <4> QED
        BY <3>1, <3>2, <4>1, <4>2
    <3>3. CASE q # r
      <4>1. <<q, type>> \in outbox' <=> <<q, type>> \in outbox
        BY <2>1, <3>3
      <4>2. Reached(q, Announced(type))' <=> Reached(q, Announced(type))
        BY <1>2, <3>3, ReachedAfter
      <4> QED
        BY <3>1, <4>1, <4>2
    <3> QED
      BY <3>2, <3>3
  <2>3. outbox' \subseteq Requests \X EventType
    <3>1. outbox \subseteq Requests \X EventType
      BY DEF HistoryInvariant, TypeOK
    <3> QED
      BY <2>1, <3>1 DEF Announcing
  <2>4. \A event \in Requests \X EventType :
          event \in outbox' <=> Reached(event[1], Announced(event[2]))'
    BY <2>2
  <2> QED
    BY <2>3, <2>4 DEF OutboxTellsStates
<1> QED
  BY <1>1, <1>2, StepRecords

\* An event is recorded exactly if its payment has reached the state that it announces.
THEOREM OutboxTellsTheStates == Spec => []OutboxTellsStates
<1>1. Init => OutboxTellsStates
  <2> SUFFICES ASSUME Init PROVE OutboxTellsStates
    OBVIOUS
  <2>1. \A r \in Requests : payment[r].log = << >>
    BY DEF Init, NoRow
  <2>2. \A r \in Requests : \A state : ~Reached(r, state)
    BY <2>1 DEF Reached
  <2> QED
    BY <2>2 DEF Init, OutboxTellsStates
<1> QED
  BY <1>1, HistoryInvariantHolds, OutboxStep, PTL DEF Spec

-----------------------------------------------------------------------------
(* The answers of POST                                                      *)

\* What was true of a payment when an answer said so is true after every step.
LEMMA AnswersStay ==
  ASSUME HistoryInvariant, [Next]_vars
  PROVE  /\ Stored \subseteq Stored'
         /\ \A r \in Requests :
              /\ Reached(r, "validated") => Reached(r, "validated")'
              /\ payment[r].status = "rejected" => payment'[r].status = "rejected"
<1>1. CASE UNCHANGED <<payment, ledger, outbox>>
  BY <1>1 DEF Stored, Reached
<1>2. ASSUME NEW r \in Requests, NEW row, NEW states, Records(r, row, states)
      PROVE  /\ Stored \subseteq Stored'
             /\ \A q \in Requests :
                  /\ Reached(q, "validated") => Reached(q, "validated")'
                  /\ payment[q].status = "rejected" => payment'[q].status = "rejected"
  <2>1. payment'[r] = row /\ \A q \in Requests : q # r => payment'[q] = payment[q]
    BY <1>2, NewRow DEF Records
  <2>2. row # NoRow /\ payment[r].status # "rejected"
    <3>1. row.status # "none" /\ payment[r].status \notin Terminal
      BY <1>2 DEF Records
    <3>2. NoRow.status = "none"
      BY DEF NoRow
    <3> QED
      BY <3>1, <3>2 DEF Terminal
  <2>3. \A q \in Requests : Reached(q, "validated") => Reached(q, "validated")'
    BY <1>2, ReachedAfter
  <2> QED
    BY <2>1, <2>2, <2>3 DEF Stored
<1> QED
  BY <1>1, <1>2, StepRecords

\* What the last POST of r was answered is true, in the words of TrueAnswers.
TrueAnswer(r) ==
  /\ reply[r] = "201" => r \in Stored /\ Reached(r, "validated")
  /\ reply[r] = "422" => r \in Stored /\ payment[r].status = "rejected"
  /\ reply[r] = "409 same UETR" => \E q \in Stored : Doc[q].UETR = Doc[r].UETR

\* A step that does not answer r leaves its answer true.
LEMMA OldAnswer ==
  ASSUME HistoryInvariant, [Next]_vars, NEW r \in Requests, TrueAnswer(r),
         reply'[r] = reply[r]
  PROVE  TrueAnswer(r)'
BY AnswersStay DEF TrueAnswer

\* The answer that a POST is given is true when it is given.
LEMMA NewAnswer ==
  ASSUME HistoryInvariant, NEW r \in Requests, SubmitPayment(r)
  PROVE  /\ TrueAnswer(r)'
         /\ \A q \in Requests : q # r => reply'[q] = reply[q]
<1>1. /\ reply \in [Requests -> {"none", "201", "422", "500",
                                "409 same UETR", "409 database error"}]
      /\ payment \in [Requests -> CommittedRow]
  BY DEF HistoryInvariant, TypeOK
<1>2. CASE RefuseRequest(r)
  <2>1. /\ \A q \in Requests : q # r => reply'[q] = reply[q]
        /\ \/ UETRTaken(r) /\ reply'[r] = "409 same UETR"
           \/ reply'[r] = "409 database error"
        /\ payment' = payment
    BY <1>1, <1>2 DEF RefuseRequest, Answer
  <2>2. UETRTaken(r) => (\E q \in Stored : Doc[q].UETR = Doc[r].UETR)'
    BY <2>1 DEF UETRTaken, Stored
  <2> QED
    BY <2>1, <2>2 DEF TrueAnswer
<1>3. CASE StoreRequest(r)
  <2>1. StorePayment(r)
    BY <1>3 DEF StoreRequest
  <2>2. /\ \A q \in Requests : q # r => reply'[q] = reply[q]
        /\ reply'[r] \in {Verdict(r), "500"}
    BY <1>1, <1>3 DEF StoreRequest, Answer
  <2>3. /\ Records(r, ValidatedRow(r), {ValidatedRow(r).status})
        /\ ValidatedRow(r).status \in {"validated", "rejected"}
    BY <2>1, StoreRecords, ValidatedRowType
  <2>4. payment'[r] = ValidatedRow(r)
    BY <2>3, NewRow DEF Records
  <2>5. (r \in Stored)'
    <3>1. NoRow.status = "none"
      BY DEF NoRow
    <3> QED
      BY <2>3, <2>4, <3>1 DEF Stored
  <2>6. ValidatedRow(r).status = "validated" => Reached(r, "validated")'
    BY <2>3, ReachedAfter
  <2> QED
    BY <2>2, <2>3, <2>4, <2>5, <2>6 DEF TrueAnswer, Verdict
<1>4. CASE LoseRequest(r)
  <2>1. /\ \A q \in Requests : q # r => reply'[q] = reply[q]
        /\ reply'[r] \in {"409 database error", "500"}
    BY <1>1, <1>4 DEF LoseRequest, Answer
  <2> QED
    BY <2>1 DEF TrueAnswer
<1> QED
  BY <1>2, <1>3, <1>4 DEF SubmitPayment

\* Answers are true after every step.
LEMMA AnswersStep == HistoryInvariant /\ TrueAnswers /\ [Next]_vars => TrueAnswers'
<1> SUFFICES ASSUME HistoryInvariant, TrueAnswers, [Next]_vars PROVE TrueAnswers'
  OBVIOUS
<1>1. \A q \in Requests : TrueAnswer(q)
  BY DEF TrueAnswers, TrueAnswer
<1>2. CASE reply' = reply
  <2>1. \A q \in Requests : TrueAnswer(q)'
    BY <1>1, <1>2, OldAnswer
  <2> QED
    BY <2>1 DEF TrueAnswers, TrueAnswer
<1>3. ASSUME NEW r \in Requests, SubmitPayment(r) PROVE TrueAnswers'
  <2>1. TrueAnswer(r)' /\ \A q \in Requests : q # r => reply'[q] = reply[q]
    BY <1>3, NewAnswer
  <2>2. \A q \in Requests : TrueAnswer(q)'
    <3>1. ASSUME NEW q \in Requests PROVE TrueAnswer(q)'
      <4>1. CASE q = r
        BY <2>1, <4>1
      <4>2. CASE q # r
        BY <1>1, <2>1, <4>2, OldAnswer
      <4> QED
        BY <4>1, <4>2
    <3> QED
      BY <3>1
  <2> QED
    BY <2>2 DEF TrueAnswers, TrueAnswer
<1>4. ASSUME [Next]_vars PROVE reply' = reply \/ \E r \in Requests : SubmitPayment(r)
  BY <1>4 DEF Next, vars, ClearPayment, AcceptPayment, RejectPayment, SettlePayment,
              SetAccountStatus
<1> QED
  BY <1>2, <1>3, <1>4

\* An answer that POST /payments gave is true for ever.
THEOREM AnswersAreTrue == Spec => []TrueAnswers
<1>1. Init => TrueAnswers
  BY DEF Init, TrueAnswers
<1> QED
  BY <1>1, HistoryInvariantHolds, AnswersStep, PTL DEF Spec
=============================================================================
