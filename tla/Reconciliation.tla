--------------------------- MODULE Reconciliation ---------------------------
(***************************************************************************)
(* GET /reconciliation/<payment>: reconcilePayment reads the payment's row   *)
(* and then, in a second statement and outside any transaction, aggregates   *)
(* its ledger, so the rail may move between the two reads.                   *)
(***************************************************************************)
EXTENDS PaymentRail

CONSTANT Clients    \* those who ask for reports

VARIABLE
  report    \* report[c]: c's request in hand or last answered: which payment, the status
            \*   its row had, and the answer

reconVars == <<vars, report>>

NoReport == [payment |-> "", status |-> "", answer |-> "none"]

ReconInit == Init /\ report = [c \in Clients |-> NoReport]

-----------------------------------------------------------------------------
(* What the aggregates of the second read say of the ledger l of payment r.  *)

OfType(l, type) == {i \in DOMAIN l.entries : l.entries[i].entry_type = type}

CountOf(l, type) == Cardinality(OfType(l, type))

CountFor(l, type, account) ==
  Cardinality({i \in OfType(l, type) : l.entries[i].account_id = account})

SumOf(l, type) == Total([i \in DOMAIN l.entries |-> l.entries[i].amount], OfType(l, type))

TransactionCount(l) == IF l = NoLedger THEN 0 ELSE 1

\* The ten checks of a settled payment.
SettledChecks(r, l) ==
  [single_ledger_transaction  |-> TransactionCount(l) = 1,
   exactly_two_ledger_entries |-> Len(l.entries) = 2,
   single_debit_entry         |-> CountOf(l, "debit") = 1,
   single_credit_entry        |-> CountOf(l, "credit") = 1,
   debit_matches_payment      |-> SumOf(l, "debit") = Amount(r),
   credit_matches_payment     |-> SumOf(l, "credit") = Amount(r),
   debits_equal_credits       |-> SumOf(l, "debit") = SumOf(l, "credit"),
   currency_matches           |-> TransactionCount(l) = 1 /\ l.currency = Doc[r].Ccy,
   debtor_was_debited         |-> CountFor(l, "debit", Doc[r].DbtrAcct) = 1,
   creditor_was_credited      |-> CountFor(l, "credit", Doc[r].CdtrAcct) = 1]

\* The two checks of a payment that must not have moved money.
UnsettledChecks(l) ==
  [no_ledger_transaction |-> TransactionCount(l) = 0,
   no_ledger_entries     |-> Len(l.entries) = 0]

Outcome(checks) == IF \A name \in DOMAIN checks : checks[name] THEN "pass" ELSE "fail"

\* A reconciliation that also expects no ledger of a payment still under way.
Bug_Judgement(r, status, l) ==
  IF status = "settled" THEN Outcome(SettledChecks(r, l)) ELSE Outcome(UnsettledChecks(l))

\* A reconciliation that takes any payment without a ledger for one that is over.
Bug_EagerJudgement(r, status, l) ==
  CASE status = "settled"               -> Outcome(SettledChecks(r, l))
    [] status \in {"failed", "rejected"} -> Outcome(UnsettledChecks(l))
    [] OTHER -> IF TransactionCount(l) = 0 THEN "pass" ELSE "pending"

\* reconciliation_status for a payment whose row had the status and whose ledger was l.
Judgement(r, status, l) ==
  CASE status = "settled"               -> Outcome(SettledChecks(r, l))
    [] status \in {"failed", "rejected"} -> Outcome(UnsettledChecks(l))
    [] OTHER                             -> "pending"

-----------------------------------------------------------------------------
\* The first statement; no row is answered 404.
ReadPayment(c, r) ==
  /\ report[c].answer # "reading" /\ r \in Stored
  /\ report' = [report EXCEPT ![c] =
                  [payment |-> r, status |-> payment[r].status, answer |-> "reading"]]
  /\ UNCHANGED vars

\* The second statement and the verdict.
ReadLedger(c) ==
  /\ report[c].answer = "reading"
  /\ report' = [report EXCEPT ![c].answer =
                  Judgement(report[c].payment, report[c].status, ledger[report[c].payment])]
  /\ UNCHANGED vars

ReconNext ==
  \/ Next /\ UNCHANGED report
  \/ \E c \in Clients :
       \/ \E r \in Requests : ReadPayment(c, r)
       \/ ReadLedger(c)

ReconSpec == ReconInit /\ [][ReconNext]_reconVars

-----------------------------------------------------------------------------
(* Properties                                                               *)

\* Reconciliation never cries wolf: though its two reads may see the payment before a
\* settlement and the ledger after it, or any other step in between, it never reports
\* a failure of a rail that works.
NoFalseAlarm == \A c \in Clients : report[c].answer # "fail"

\* A pass is final: the payment is over, and money moved exactly if it was settled.
PassIsFinal ==
  \A c \in Clients : report[c].answer = "pass" =>
    /\ payment[report[c].payment].status = report[c].status
    /\ report[c].status \in Terminal
    /\ ledger[report[c].payment] # NoLedger <=> report[c].status = "settled"
=============================================================================
