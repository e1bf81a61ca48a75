--------------------------- MODULE PaymentStates ---------------------------
(***************************************************************************)
(* The payment state machine of statemachine.go: its states, its events    *)
(* and NextPaymentState, a pure function that returns an error for a pair   *)
(* outside the table.  The error is the value NoState here.                *)
(***************************************************************************)

PaymentState ==
  { "received", "validated", "rejected", "clearing", "awaiting_response",
    "failed", "accepted", "settling", "settled" }

PaymentEvent ==
  { "validation_passed", "validation_failed",
    "clearing_started", "clearing_passed", "clearing_failed",
    "receiver_accepted", "receiver_rejected",
    "settlement_started", "settlement_completed", "settlement_failed" }

NoState == ""

\* A machine that lets a payment whose clearing failed go on to its receiver.
Bug_FailedClearingGoesOn(current, event) ==
  CASE current = "received"  /\ event = "validation_passed"  -> "validated"
    [] current = "received"  /\ event = "validation_failed"  -> "rejected"
    [] current = "validated" /\ event = "clearing_started"   -> "clearing"
    [] current = "clearing"  /\ event = "clearing_passed"    -> "awaiting_response"
    [] current = "clearing"  /\ event = "clearing_failed"    -> "awaiting_response"
    [] current = "awaiting_response" /\ event = "receiver_accepted" -> "accepted"
    [] current = "awaiting_response" /\ event = "receiver_rejected" -> "failed"
    [] current = "accepted"  /\ event = "settlement_started" -> "settling"
    [] current = "settling"  /\ event = "settlement_completed" -> "settled"
    [] OTHER -> NoState

\* NextPaymentState(current, event): the state after event, NoState for the
\* error of an event that the current state does not take.
NextPaymentState(current, event) ==
  CASE current = "received"  /\ event = "validation_passed"  -> "validated"
    [] current = "received"  /\ event = "validation_failed"  -> "rejected"
    [] current = "validated" /\ event = "clearing_started"   -> "clearing"
    [] current = "clearing"  /\ event = "clearing_passed"    -> "awaiting_response"
    [] current = "clearing"  /\ event = "clearing_failed"    -> "failed"
    [] current = "awaiting_response" /\ event = "receiver_accepted" -> "accepted"
    [] current = "awaiting_response" /\ event = "receiver_rejected" -> "failed"
    [] current = "accepted"  /\ event = "settlement_started" -> "settling"
    [] current = "settling"  /\ event = "settlement_completed" -> "settled"
    [] current = "settling"  /\ event = "settlement_failed"  -> "failed"
    [] OTHER -> NoState

\* The states no event leaves; index.html and reconcilePayment name the same.
Terminal == { "settled", "failed", "rejected" }
=============================================================================
