-------------------------- MODULE RowLocksProofs ---------------------------
(***************************************************************************)
(* Transactions under row locks implement PaymentRail, for any number of     *)
(* connections: a COMMIT is one operation of the rail and no other statement *)
(* shows.  What the rail is proved to do, the transactions do as they run.   *)
(***************************************************************************)
EXTENDS MoneyProofs, RowLocks

Statement == {"none", "insert", "payment", "creditor", "debit", "await debtor", "credit",
              "await creditor", "commit"}

Lock == {PaymentLock(r) : r \in Requests} \cup {AccountLock(a) : a \in Accounts}
          \cup {UETRLock(r) : r \in Requests}

Transaction == [op : Operations \cup {"none"}, payment : Requests \cup {""}, at : Statement,
                row : WorkingRow, funds : [Accounts -> Int], holds : [Accounts -> Int],
                locks : SUBSET Lock]

-----------------------------------------------------------------------------
(* What is true of a transaction between two of its statements              *)

Zero == [a \in Accounts |-> 0]

\* It has written to no account's row.
Untouched(t) == t.funds = Zero /\ t.holds = Zero

\* It has added delta to a's column and has locked the row.
Added(t, column, a, delta) == /\ column = [Zero EXCEPT ![a] = delta]
                              /\ AccountLock(a) \in t.locks

\* It has locked its payment's row, which is in the state that the operation is for.
HasPayment(t) ==
  /\ t.payment \in Requests /\ PaymentLock(t.payment) \in t.locks
  /\ t.op \in DOMAIN Precondition /\ payment[t.payment].status = Precondition[t.op]

\* All that it has locked is the row of its payment.
HasOnlyPayment(t) == HasPayment(t) /\ t.locks = {PaymentLock(t.payment)} /\ Untouched(t)

\* It waits for its first statement, or there is none.
Beginning(t) ==
  /\ t = [NoTx EXCEPT !.op = t.op, !.payment = t.payment, !.at = t.at]
  /\ \/ t = NoTx
     \/ /\ t.op \in Operations /\ t.payment \in Requests
        /\ t.at = IF t.op = "submit" THEN "insert" ELSE "payment"

\* It has inserted a payment with a UETR that no committed payment has.
HasInserted(t) ==
  /\ t.op = "submit" /\ t.at = "commit" /\ t.payment \in Requests
  /\ t.locks = {UETRLock(t.payment)} /\ Untouched(t)
  /\ Storable(t.payment) /\ ~UETRTaken(t.payment)
  /\ t.row = ValidatedRow(t.payment)

\* A clearing before it has touched the debtor.
InClearing(t) ==
  /\ t.op = "clear" /\ HasOnlyPayment(t)
  /\ t.row = applyPaymentEvent(payment[t.payment], "clearing_started", "")
  /\ \/ t.at = "creditor"
     \/ t.at \in {"debit", "await debtor"} /\ CreditorSeen(t.payment)

\* A clearing that has come to its end.
HasCleared(t) ==
  LET r == t.payment IN
  /\ t.op = "clear" /\ t.at = "commit" /\ HasPayment(t) /\ t.funds = Zero
  /\ \/ /\ CreditorMissed(r) /\ t.holds = Zero
        /\ t.row = Cleared(r, "clearing_failed",
                           "creditor account does not exist or is inactive")
     \/ /\ CreditorSeen(r) /\ DebtorMissed(r) /\ t.holds = Zero
        /\ t.row = Cleared(r, "clearing_failed",
                           "debtor account has insufficient available funds or is inactive")
     \/ /\ CreditorSeen(r)
        /\ \E a \in Reservable(r) : Added(t, t.holds, a, Amount(r))
        /\ t.row = Cleared(r, "clearing_passed", "")

\* An acceptance.
HasAccepted(t) ==
  /\ t.op = "accept" /\ t.at = "commit" /\ HasOnlyPayment(t)
  /\ t.row = applyPaymentEvent(payment[t.payment], "receiver_accepted", "")

\* A rejection before and after the release.
InRejection(t) ==
  LET r == t.payment IN
  /\ t.op = "reject"
  /\ \/ t.at \in {"debit", "await debtor"} /\ HasOnlyPayment(t)
     \/ /\ t.at = "commit" /\ HasPayment(t) /\ t.funds = Zero
        /\ \E a \in Releasable(r) : Added(t, t.holds, a, -Amount(r))
  /\ \E text \in Reasons :
       t.row = applyPaymentEvent(payment[r], "receiver_rejected",
                                 IF text = "" THEN "receiver rejected payment" ELSE text)

\* A settlement before the debit and between debit and credit.
InSettlement(t) ==
  LET r == t.payment IN
  /\ t.op = "settle" /\ Insertable(r)
  /\ t.row = applyPaymentEvent(payment[r], "settlement_started", "")
  /\ \/ t.at \in {"debit", "await debtor"} /\ HasOnlyPayment(t)
     \/ /\ t.at \in {"credit", "await creditor"} /\ HasPayment(t)
        /\ \E a \in Debitable(r) : /\ Added(t, t.funds, a, -Amount(r))
                                   /\ Added(t, t.holds, a, -Amount(r))

\* A settlement that has moved the money.
HasSettled(t) ==
  LET r == t.payment IN
  /\ t.op = "settle" /\ t.at = "commit" /\ HasPayment(t) /\ Insertable(r)
  /\ t.row = applyPaymentEvent(applyPaymentEvent(payment[r], "settlement_started", ""),
                               "settlement_completed", "")
  /\ \E a \in Debitable(r), c \in Creditable(r) :
       /\ Added(t, t.holds, a, -Amount(r))
       /\ AccountLock(c) \in t.locks
       /\ t.funds = [[Zero EXCEPT ![a] = -Amount(r)] EXCEPT ![c] = @ + Amount(r)]
       /\ balance[c] + t.funds[c] <= MaxCents

\* What a transaction has read under a lock is still so, and what it has written is what
\* its operation does to the database as it is committed now.
UpToDate(t) ==
  \/ Beginning(t) \/ HasInserted(t)
  \/ InClearing(t) \/ HasCleared(t)
  \/ HasAccepted(t) \/ InRejection(t)
  \/ InSettlement(t) \/ HasSettled(t)

\* A row of a payment that has been through validation has an amount that is not negative.
PastAmounts ==
  \A r \in Requests : payment[r].status \notin {"none", "rejected"} => Amount(r) >= 0

\* A lock has one holder.
Exclusive == \A s \in Sessions : \A lock \in tx[s].locks : Free(s, lock)

\* What holds of the transactions, whatever the database holds.
TransactionsOK ==
  tx \in [Sessions -> Transaction] /\ Exclusive /\ \A s \in Sessions : UpToDate(tx[s])

\* The inductive invariant.  MoneyInvariant and PastAmounts are there because a clearing
\* that found too little money may commit when there is more: that more came from payments
\* that ended meanwhile (DebtorMissed) is a matter of amounts.
LocksInvariant == MoneyInvariant /\ PastAmounts /\ TransactionsOK

-----------------------------------------------------------------------------
(* What goes on elsewhere leaves a transaction up to date                    *)

\* Locks of different kinds, or on different rows, are different.
LEMMA LocksDiffer ==
  /\ \A r, q \in Requests : PaymentLock(r) = PaymentLock(q) => r = q
  /\ \A a, b \in Accounts : AccountLock(a) = AccountLock(b) => a = b
  /\ \A r, q \in Requests : Doc[r].UETR = Doc[q].UETR => UETRLock(r) = UETRLock(q)
  /\ \A r, q \in Requests : PaymentLock(r) # UETRLock(q)
  /\ \A r \in Requests, a \in Accounts : /\ PaymentLock(r) # AccountLock(a)
                                         /\ UETRLock(r) # AccountLock(a)
BY DEF PaymentLock, AccountLock, UETRLock

\* The tables of an operation's state.
LEMMA Preconditions ==
  /\ DOMAIN Precondition = {"clear", "accept", "reject", "settle"}
  /\ Operations = {"submit", "clear", "accept", "reject", "settle"}
  /\ Precondition["clear"] = "validated" /\ Precondition["accept"] = "awaiting_response"
  /\ Precondition["reject"] = "awaiting_response" /\ Precondition["settle"] = "accepted"
BY DEF Precondition, Operations

\* What an account's row is asked for on behalf of a payment, when the row does not change.
LEMMA SameAccount ==
  ASSUME NEW r \in Requests, NEW a \in Accounts,
         balance'[a] = balance[a] /\ reserved'[a] = reserved[a] /\ active'[a] = active[a]
  PROVE  /\ a \in Reservable(r)' <=> a \in Reservable(r)
         /\ a \in Releasable(r)' <=> a \in Releasable(r)
         /\ a \in Debitable(r)' <=> a \in Debitable(r)
         /\ a \in Creditable(r)' <=> a \in Creditable(r)
BY DEF Reservable, Releasable, Debitable, Creditable, Debtor, Creditor, AccountRow, Amount

\* What a clearing may have seen of the creditor it may still have seen.
LEMMA SeenStays ==
  ASSUME NEW r \in Requests, \A a \in Accounts \ Suspendable : active'[a] = active[a]
  PROVE  /\ CreditorSeen(r) => CreditorSeen(r)'
         /\ CreditorMissed(r) => CreditorMissed(r)'
BY DEF CreditorSeen, CreditorMissed, Creditor, AccountRow

\* A transaction stays up to date as long as its payment's row, the accounts that it has
\* locked and the UETR that it has inserted stay as they are.
LEMMA StaysUpToDate ==
  ASSUME NEW t, UpToDate(t),
         HasPayment(t) => /\ payment'[t.payment] = payment[t.payment]
                          /\ ledger'[t.payment] = ledger[t.payment]
                          /\ DebtorMissed(t.payment) => DebtorMissed(t.payment)',
         HasInserted(t) => ~UETRTaken(t.payment)',
         \A a \in Accounts : AccountLock(a) \in t.locks =>
           balance'[a] = balance[a] /\ reserved'[a] = reserved[a] /\ active'[a] = active[a],
         \A a \in Accounts \ Suspendable : active'[a] = active[a]
  PROVE  UpToDate(t)'
<1> DEFINE r == t.payment
<1>1. CASE Beginning(t)
  <2>1. Beginning(t)'
    BY <1>1 DEF Beginning, NoTx, Operations, Precondition
  <2> QED
    BY <2>1 DEF UpToDate
<1>2. CASE HasInserted(t)
  <2>1. HasInserted(t)'
    BY <1>2 DEF HasInserted, Untouched, Zero, UETRLock, Storable, Amount, ValidatedRow
  <2> QED
    BY <2>1 DEF UpToDate
<1>3. ASSUME HasPayment(t)
      PROVE  /\ HasPayment(t)' /\ r \in Requests
             /\ payment'[r] = payment[r] /\ (Insertable(r) => Insertable(r)')
             /\ HasOnlyPayment(t) => HasOnlyPayment(t)'
  <2>1. HasPayment(t)' /\ r \in Requests /\ payment'[r] = payment[r]
    BY <1>3 DEF HasPayment, PaymentLock, Precondition
  <2>2. Insertable(r) => Insertable(r)'
    BY <1>3 DEF Insertable, NoLedger, Amount
  <2>3. HasOnlyPayment(t) => HasOnlyPayment(t)'
    BY <2>1 DEF HasOnlyPayment, Untouched, Zero, PaymentLock
  <2> QED
    BY <2>1, <2>2, <2>3
<1>4. CASE InClearing(t)
  <2>1. HasPayment(t)
    BY <1>4 DEF InClearing, HasOnlyPayment
  <2>2. InClearing(t)'
    BY <1>3, <1>4, <2>1, SeenStays DEF InClearing
  <2> QED
    BY <2>2 DEF UpToDate
<1>5. CASE HasCleared(t)
  <2>1. HasPayment(t)
    BY <1>5 DEF HasCleared
  <2>3. /\ CreditorSeen(r) => CreditorSeen(r)'
        /\ CreditorMissed(r) => CreditorMissed(r)'
        /\ DebtorMissed(r) => DebtorMissed(r)'
    BY <1>3, <2>1, SeenStays
  <2>4. ASSUME NEW a \in Reservable(r), Added(t, t.holds, a, Amount(r))
        PROVE  a \in Reservable(r)' /\ Added(t, t.holds, a, Amount(r))'
    <3>1. a \in Accounts /\ AccountLock(a) \in t.locks
      BY <2>4 DEF Added, Reservable, Debtor, AccountRow
    <3> QED
      BY <1>3, <2>1, <2>4, <3>1, SameAccount DEF Added
  <2>5. (\E a \in Reservable(r) : Added(t, t.holds, a, Amount(r)))
          => (\E a \in Reservable(r) : Added(t, t.holds, a, Amount(r)))'
    BY <2>4
  <2>6. ASSUME CreditorMissed(r), t.holds = Zero,
               t.row = Cleared(r, "clearing_failed",
                               "creditor account does not exist or is inactive")
        PROVE  HasCleared(t)'
    BY <1>3, <1>5, <2>1, <2>3, <2>6 DEF HasCleared, Cleared, Zero
  <2>7. ASSUME CreditorSeen(r), DebtorMissed(r), t.holds = Zero,
               t.row = Cleared(r, "clearing_failed",
                         "debtor account has insufficient available funds or is inactive")
        PROVE  HasCleared(t)'
    BY <1>3, <1>5, <2>1, <2>3, <2>7 DEF HasCleared, Cleared, Zero
  <2>8. ASSUME CreditorSeen(r), \E a \in Reservable(r) : Added(t, t.holds, a, Amount(r)),
               t.row = Cleared(r, "clearing_passed", "")
        PROVE  HasCleared(t)'
    BY <1>3, <1>5, <2>1, <2>3, <2>5, <2>8 DEF HasCleared, Cleared, Zero
  <2>9. HasCleared(t)'
    BY <1>5, <2>6, <2>7, <2>8 DEF HasCleared
  <2> QED
    BY <2>9 DEF UpToDate
<1>6. CASE HasAccepted(t)
  <2>1. HasPayment(t)
    BY <1>6 DEF HasAccepted, HasOnlyPayment
  <2>2. HasAccepted(t)'
    BY <1>3, <1>6, <2>1 DEF HasAccepted
  <2> QED
    BY <2>2 DEF UpToDate
<1>7. CASE InRejection(t)
  <2>1. HasPayment(t)
    BY <1>7 DEF InRejection, HasOnlyPayment
  <2>2. ASSUME NEW a \in Releasable(r), Added(t, t.holds, a, -Amount(r))
        PROVE  a \in Releasable(r)' /\ Added(t, t.holds, a, -Amount(r))'
    <3>1. a \in Accounts /\ AccountLock(a) \in t.locks
      BY <2>2 DEF Added, Releasable, Debtor, AccountRow
    <3> QED
      BY <1>3, <2>1, <2>2, <3>1, SameAccount DEF Added
  <2>3. (\E a \in Releasable(r) : Added(t, t.holds, a, -Amount(r)))
          => (\E a \in Releasable(r) : Added(t, t.holds, a, -Amount(r)))'
    BY <2>2
  <2>4. InRejection(t)'
    BY <1>3, <1>7, <2>1, <2>3 DEF InRejection, Zero
  <2> QED
    BY <2>4 DEF UpToDate
<1>8. ASSUME HasPayment(t), NEW a \in Debitable(r), AccountLock(a) \in t.locks
      PROVE  /\ a \in Debitable(r)'
             /\ \A column, delta : Added(t, column, a, delta)' <=> Added(t, column, a, delta)
  <2>1. a \in Accounts
    BY DEF Debitable, Debtor, AccountRow
  <2> QED
    BY <1>3, <1>8, <2>1, SameAccount DEF Added, Zero, AccountLock
<1>9. CASE InSettlement(t)
  <2>1. HasPayment(t)
    BY <1>9 DEF InSettlement, HasOnlyPayment
  <2>2. Amount(r)' = Amount(r)
    BY DEF Amount
  <2>3. InSettlement(t)'
    BY <1>3, <1>8, <1>9, <2>1, <2>2 DEF InSettlement, Added
  <2> QED
    BY <2>3 DEF UpToDate
<1>10. CASE HasSettled(t)
  <2>1. HasPayment(t)
    BY <1>10 DEF HasSettled
  <2>2. PICK a \in Debitable(r), c \in Creditable(r) :
          /\ Added(t, t.holds, a, -Amount(r))
          /\ AccountLock(c) \in t.locks
          /\ t.funds = [[Zero EXCEPT ![a] = -Amount(r)] EXCEPT ![c] = @ + Amount(r)]
          /\ balance[c] + t.funds[c] <= MaxCents
    BY <1>10 DEF HasSettled
  <2>3. c \in Accounts /\ balance'[c] = balance[c] /\ c \in Creditable(r)'
    BY <1>3, <2>1, <2>2, SameAccount DEF Creditable, Creditor, AccountRow
  <2>4. a \in Debitable(r)' /\ Added(t, t.holds, a, -Amount(r))'
    BY <1>8, <2>1, <2>2 DEF Added, Amount
  <2>5. HasSettled(t)'
    BY <1>3, <1>10, <2>1, <2>2, <2>3, <2>4 DEF HasSettled
  <2> QED
    BY <2>5 DEF UpToDate
<1> QED
  BY <1>1, <1>2, <1>4, <1>5, <1>6, <1>7, <1>9, <1>10 DEF UpToDate

-----------------------------------------------------------------------------
(* A clearing that missed its debtor keeps having missed it                  *)

\* What account a would have available without what payments that ended gave or brought it.
Room(a) == balance[a] - reserved[a] - Total(Amounts, CameTo(a))

\* Money that came to an account has a total.
LEMMA CameToTotal ==
  \A a : /\ CameTo(a) \in SUBSET Requests /\ IsFiniteSet(CameTo(a))
         /\ Total(Amounts, CameTo(a)) \in Int
<1> SUFFICES ASSUME NEW a
             PROVE  /\ CameTo(a) \in SUBSET Requests /\ IsFiniteSet(CameTo(a))
                    /\ Total(Amounts, CameTo(a)) \in Int
  OBVIOUS
<1>1. CameTo(a) \in SUBSET Requests
  BY DEF CameTo
<1>2. IsFiniteSet(CameTo(a))
  BY <1>1, RequestsAssumption, FS_Subset
<1>3. \A q \in CameTo(a) : Amounts[q] \in Int
  BY <1>1, AmountsType
<1>4. CameTo(a) \in SUBSET CameTo(a)
  OBVIOUS
<1>5. Total(Amounts, CameTo(a)) \in Int
  BY <1>2, <1>3, <1>4, TotalType
<1> QED
  BY <1>1, <1>2, <1>5

\* The same of the next state.
LEMMA CameToTotalNext ==
  \A a : Total(Amounts, CameTo(a)') \in Int
<1> SUFFICES ASSUME NEW a PROVE Total(Amounts, CameTo(a)') \in Int
  OBVIOUS
<1>1. CameTo(a)' \in SUBSET Requests
  BY DEF CameTo
<1>2. IsFiniteSet(CameTo(a)')
  BY <1>1, RequestsAssumption, FS_Subset
<1>3. \A q \in CameTo(a)' : Amounts[q] \in Int
  BY <1>1, AmountsType
<1>4. CameTo(a)' \in SUBSET CameTo(a)'
  OBVIOUS
<1> QED
  BY <1>2, <1>3, <1>4, TotalType

\* A payment that ends joins what came to an account, or does not.
LEMMA CameToGrows ==
  ASSUME TypeOK, NEW q \in Requests, NEW statuses, Becomes(q, statuses),
         payment[q].status \notin {"failed", "settled"}, NEW a \in Accounts
  PROVE  Total(Amounts, CameTo(a)') = Total(Amounts, CameTo(a))
           + IF \/ payment'[q].status = "failed" /\ a \in Debtor(q)
                \/ payment'[q].status = "settled" /\ a \in Creditor(q)
             THEN Amount(q) ELSE 0
<1>1. q \notin CameTo(a)
  BY DEF CameTo
<1>2. CameTo(a)' = IF \/ payment'[q].status = "failed" /\ a \in Debtor(q)
                      \/ payment'[q].status = "settled" /\ a \in Creditor(q)
                   THEN CameTo(a) \cup {q} ELSE CameTo(a)
  BY <1>1, OtherRows DEF CameTo, Debtor, Creditor, AccountRow
<1>3. Total(Amounts, CameTo(a) \cup {q}) = Total(Amounts, CameTo(a)) + Amounts[q]
  <2>1. IsFiniteSet(CameTo(a)) /\ \A y \in CameTo(a) \cup {q} : Amounts[y] \in Int
    BY CameToTotal, AmountsType
  <2> QED
    BY <1>1, <2>1, TotalAdd
<1> QED
  BY <1>2, <1>3, CameToTotal, AmountsType

\* Nothing makes more room on an account: what a payment gives back or brings when it
\* ends is money that came.
LEMMA RoomShrinks ==
  MoneyInvariant /\ PastAmounts /\ [Next]_vars => \A a \in Accounts : Room(a)' <= Room(a)
<1> SUFFICES ASSUME MoneyInvariant, PastAmounts, [Next]_vars, NEW a \in Accounts
             PROVE  Room(a)' <= Room(a)
  OBVIOUS
<1>1. TypeOK /\ balance[a] \in Int /\ reserved[a] \in Int /\ Total(Amounts, CameTo(a)) \in Int
  BY CameToTotal DEF MoneyInvariant, TypeOK
<1>2. Room(a)' = balance'[a] - reserved'[a] - Total(Amounts, CameTo(a)')
  BY DEF Room, Amounts, Amount
<1>3. ASSUME UNCHANGED <<payment, balance, reserved>> PROVE Room(a)' <= Room(a)
  <2>1. CameTo(a)' = CameTo(a)
    BY <1>3 DEF CameTo, Debtor, Creditor, AccountRow
  <2> QED
    BY <1>1, <1>2, <1>3, <2>1 DEF Room
<1>4. ASSUME NEW q \in Requests, StorePayment(q) PROVE Room(a)' <= Room(a)
  <2>1. payment[q].status = "none"
    <3>1. payment[q] = NoRow
      BY <1>4 DEF StorePayment, UETRTaken, Stored
    <3>2. NoRow.status = "none"
      BY DEF NoRow
    <3> QED
      BY <3>1, <3>2
  <2>2. Becomes(q, {"validated", "rejected"}) /\ UNCHANGED <<balance, reserved>>
    BY <1>1, <1>4, StoreEffect
  <2>3. payment'[q].status \in {"validated", "rejected"}
    BY <1>1, <2>2, OtherRows
  <2>4. Total(Amounts, CameTo(a)') = Total(Amounts, CameTo(a))
    BY <1>1, <2>1, <2>2, <2>3, CameToGrows
  <2> QED
    BY <1>1, <1>2, <2>2, <2>4 DEF Room
<1>5. ASSUME NEW q \in Requests, ClearPayment(q) PROVE Room(a)' <= Room(a)
  <2>1. payment[q].status = "validated" /\ UNCHANGED balance
    BY <1>1, <1>5, ClearEffect
  <2>2. Amount(q) \in Int /\ Amount(q) >= 0
    BY <2>1, AmountType DEF PastAmounts
  <2>3. CASE Becomes(q, {"failed"}) /\ UNCHANGED reserved
    <3>1. Total(Amounts, CameTo(a)') >= Total(Amounts, CameTo(a))
          /\ Total(Amounts, CameTo(a)') \in Int
      BY <1>1, <2>1, <2>2, <2>3, CameToGrows
    <3> QED
      BY <1>1, <1>2, <2>1, <2>3, <3>1 DEF Room
  <2>4. CASE /\ Becomes(q, {"awaiting_response"})
             /\ reserved' = Update(reserved, Reservable(q), Amount(q))
    <3>1. payment'[q].status = "awaiting_response"
      BY <1>1, <2>4, OtherRows
    <3>2. Total(Amounts, CameTo(a)') = Total(Amounts, CameTo(a))
      BY <1>1, <2>1, <2>4, <3>1, CameToGrows
    <3>3. reserved'[a] \in Int /\ reserved'[a] >= reserved[a]
      BY <1>1, <2>2, <2>4 DEF Update
    <3> QED
      BY <1>1, <1>2, <2>1, <3>2, <3>3 DEF Room
  <2> QED
    BY <1>1, <1>5, <2>3, <2>4, ClearEffect
<1>6. ASSUME NEW q \in Requests, AcceptPayment(q) PROVE Room(a)' <= Room(a)
  <2>1. /\ payment[q].status = "awaiting_response" /\ Becomes(q, {"accepted"})
        /\ UNCHANGED <<balance, reserved>>
    BY <1>1, <1>6, AcceptEffect
  <2>2. payment'[q].status = "accepted"
    BY <1>1, <2>1, OtherRows
  <2>3. Total(Amounts, CameTo(a)') = Total(Amounts, CameTo(a))
    BY <1>1, <2>1, <2>2, CameToGrows
  <2> QED
    BY <1>1, <1>2, <2>1, <2>3 DEF Room
<1>7. ASSUME NEW q \in Requests, NEW text \in Reasons, RejectPayment(q, text)
      PROVE  Room(a)' <= Room(a)
  <2>1. /\ payment[q].status = "awaiting_response" /\ Becomes(q, {"failed"})
        /\ UNCHANGED balance /\ Releasable(q) # {}
        /\ reserved' = Update(reserved, Releasable(q), -Amount(q))
    BY <1>1, <1>7, RejectEffect
  <2>2. payment'[q].status = "failed" /\ Amount(q) \in Int
    BY <1>1, <2>1, OtherRows, AmountType
  <2>3. Releasable(q) = Debtor(q)
    <3>1. Releasable(q) \in SUBSET Debtor(q)
      BY DEF Releasable
    <3> QED
      BY <2>1, <3>1, OneDebtor
  <2>4. Total(Amounts, CameTo(a)') = Total(Amounts, CameTo(a))
          + IF a \in Debtor(q) THEN Amount(q) ELSE 0
    BY <1>1, <2>1, <2>2, CameToGrows
  <2>5. reserved'[a] = reserved[a] - IF a \in Debtor(q) THEN Amount(q) ELSE 0
    BY <1>1, <2>1, <2>2, <2>3 DEF Update
  <2> QED
    BY <1>1, <1>2, <2>1, <2>2, <2>4, <2>5 DEF Room
<1>8. ASSUME NEW q \in Requests, SettlePayment(q) PROVE Room(a)' <= Room(a)
  <2>1. /\ payment[q].status = "accepted" /\ Becomes(q, {"settled"})
        /\ balance' = BalanceAfter(q) /\ reserved' = ReservedAfter(q)
    BY <1>1, <1>8, SettleEffect
  <2>2. payment'[q].status = "settled" /\ Amount(q) \in Int /\ Amount(q) >= 0
    BY <1>1, <2>1, OtherRows, AmountType DEF PastAmounts
  <2>3. Total(Amounts, CameTo(a)') = Total(Amounts, CameTo(a))
          + IF a \in Creditor(q) THEN Amount(q) ELSE 0
    BY <1>1, <2>1, <2>2, CameToGrows
  <2>4. /\ balance'[a] \in Int /\ reserved'[a] \in Int
        /\ balance'[a] - reserved'[a]
             <= balance[a] - reserved[a] + IF a \in Creditor(q) THEN Amount(q) ELSE 0
    BY <1>1, <2>1, <2>2 DEF BalanceAfter, ReservedAfter, Update, Creditable
  <2> QED
    BY <1>1, <1>2, <2>2, <2>3, <2>4 DEF Room
<1>9. ASSUME NEW b \in Suspendable, SetAccountStatus(b) PROVE Room(a)' <= Room(a)
  BY <1>3, <1>9 DEF SetAccountStatus
<1>10. CASE UNCHANGED vars
  BY <1>3, <1>10 DEF vars
<1> QED
  BY <1>3, <1>4, <1>5, <1>6, <1>7, <1>8, <1>9, <1>10
  DEF Next, SubmitPayment, RefuseRequest, LoseRequest, StoreRequest

\* Someone else changes the status of some accounts only.
LEMMA StatusStays ==
  MoneyInvariant /\ [Next]_vars => \A a \in Accounts \ Suspendable : active'[a] = active[a]
<1> SUFFICES ASSUME MoneyInvariant, [Next]_vars
             PROVE  \A a \in Accounts \ Suspendable : active'[a] = active[a]
  OBVIOUS
<1>1. ASSUME NEW b \in Suspendable, SetAccountStatus(b)
      PROVE  \A a \in Accounts \ Suspendable : active'[a] = active[a]
  BY <1>1 DEF SetAccountStatus, MoneyInvariant, TypeOK
<1> QED
  BY <1>1 DEF Next, SubmitPayment, RefuseRequest, LoseRequest, StoreRequest, StorePayment,
              ClearPayment, AcceptPayment, RejectPayment, SettlePayment, vars

\* What a clearing missed in its debtor's row it can still have missed at its COMMIT.
LEMMA MissedStays ==
  ASSUME MoneyInvariant, PastAmounts, [Next]_vars, NEW r \in Requests, DebtorMissed(r)
  PROVE  DebtorMissed(r)'
<1>1. MoneyInvariant'
  BY MoneyStep
<1>2. SUFFICES ASSUME NEW a \in Debtor(r)
               PROVE  \/ ~active'[a] \/ a \in Suspendable
                      \/ balance'[a] - reserved'[a] - Total(Amounts, CameTo(a)') < Amount(r)
  BY DEF DebtorMissed, Debtor, AccountRow, Amounts, Amount
<1>3. a \in Accounts
  BY DebtorAccount
<1>4. CASE a \in Suspendable
  BY <1>4
<1>5. CASE a \notin Suspendable /\ ~active[a]
  BY <1>3, <1>5, StatusStays
<1>6. CASE balance[a] - reserved[a] - Total(Amounts, CameTo(a)) < Amount(r)
  <2>1. Room(a)' <= Room(a)
    BY <1>3, RoomShrinks
  <2>2. Room(a)' = balance'[a] - reserved'[a] - Total(Amounts, CameTo(a)')
    BY DEF Room, Amounts, Amount
  <2>3. /\ Room(a) = balance[a] - reserved[a] - Total(Amounts, CameTo(a))
        /\ balance[a] \in Int /\ reserved[a] \in Int
        /\ balance'[a] \in Int /\ reserved'[a] \in Int
        /\ Amount(r) \in Int
    BY <1>1, <1>3, AmountType DEF Room, MoneyInvariant, TypeOK
  <2> QED
    BY <1>6, <2>1, <2>2, <2>3, CameToTotal, CameToTotalNext
<1> QED
  BY <1>4, <1>5, <1>6 DEF DebtorMissed

\* A debtor's row that an UPDATE does not find for want of money is one it has missed.
LEMMA NotReservable ==
  ASSUME MoneyInvariant, PastAmounts, NEW r \in Requests, Reservable(r) = {}
  PROVE  DebtorMissed(r)
<1> SUFFICES ASSUME NEW a \in Debtor(r), active[a]
             PROVE  balance[a] - reserved[a] - Total(Amounts, CameTo(a)) < Amount(r)
  BY DEF DebtorMissed
<1>1. a \in Accounts /\ balance[a] \in Int /\ reserved[a] \in Int /\ Amount(r) \in Int
  BY DebtorAccount, AmountType DEF MoneyInvariant, TypeOK
<1>2. balance[a] - reserved[a] < Amount(r)
  BY <1>1 DEF Reservable
<1>3. Total(Amounts, CameTo(a)) >= 0
  <2>1. \A q \in CameTo(a) : Amounts[q] \in Int /\ Amounts[q] >= 0
    BY AmountsType DEF CameTo, PastAmounts
  <2>2. CameTo(a) \in SUBSET CameTo(a)
    OBVIOUS
  <2> QED
    BY <2>1, <2>2, CameToTotal, TotalNonNegative
<1> QED
  BY <1>1, <1>2, <1>3, CameToTotal

\* A payment keeps an amount that is not negative.
LEMMA PastAmountsStep == MoneyInvariant /\ PastAmounts /\ [Next]_vars => PastAmounts'
<1> SUFFICES ASSUME MoneyInvariant, PastAmounts, [Next]_vars, NEW r \in Requests,
                    payment'[r].status \notin {"none", "rejected"}
             PROVE  Amount(r) >= 0
  BY DEF PastAmounts, Amount
<1>1. TypeOK
  BY DEF MoneyInvariant
<1>2. ASSUME NEW q \in Requests, NEW statuses, Becomes(q, statuses),
             payment[q].status \notin {"none", "rejected"}
      PROVE  Amount(r) >= 0
  BY <1>1, <1>2, OtherRows DEF PastAmounts
<1>3. ASSUME payment' = payment PROVE Amount(r) >= 0
  BY <1>3 DEF PastAmounts
<1>4. ASSUME NEW q \in Requests, StorePayment(q) PROVE Amount(r) >= 0
  <2>1. /\ Becomes(q, {"validated", "rejected"})
        /\ payment'[q].status = "validated" => Amount(q) >= 0
    BY <1>1, <1>4, StoreEffect
  <2> QED
    BY <1>1, <2>1, OtherRows DEF PastAmounts
<1>5. ASSUME NEW q \in Requests, ClearPayment(q) PROVE Amount(r) >= 0
  BY <1>1, <1>2, <1>5, ClearEffect
<1>6. ASSUME NEW q \in Requests, AcceptPayment(q) PROVE Amount(r) >= 0
  BY <1>1, <1>2, <1>6, AcceptEffect
<1>7. ASSUME NEW q \in Requests, NEW text \in Reasons, RejectPayment(q, text)
      PROVE  Amount(r) >= 0
  BY <1>1, <1>2, <1>7, RejectEffect
<1>8. ASSUME NEW q \in Requests, SettlePayment(q) PROVE Amount(r) >= 0
  BY <1>1, <1>2, <1>8, SettleEffect
<1>9. ASSUME NEW b \in Suspendable, SetAccountStatus(b) PROVE Amount(r) >= 0
  BY <1>3, <1>9 DEF SetAccountStatus
<1> QED
  BY <1>3, <1>4, <1>5, <1>6, <1>7, <1>8, <1>9
  DEF Next, SubmitPayment, RefuseRequest, LoseRequest, StoreRequest, vars

-----------------------------------------------------------------------------
(* Statements: what they see and what they leave                            *)

\* What may follow on s: a transaction of the right type, up to date, none of whose locks
\* another transaction holds.
Sound(s, new) ==
  /\ new \in Transaction /\ UpToDate(new)
  /\ \A lock \in new.locks : Free(s, lock)

\* A step that leaves the tables of an operation as they are leaves transactions up to date.
LEMMA QuietKeeps ==
  ASSUME UNCHANGED <<payment, balance, reserved, active, ledger>>, NEW t, UpToDate(t)
  PROVE  UpToDate(t)'
<1>1. DebtorMissed(t.payment) => DebtorMissed(t.payment)'
  BY DEF DebtorMissed, CameTo, Debtor, Creditor, AccountRow, Amounts, Amount
<1>2. UETRTaken(t.payment)' = UETRTaken(t.payment)
  BY DEF UETRTaken, Stored
<1>3. HasInserted(t) => ~UETRTaken(t.payment)'
  BY <1>2 DEF HasInserted
<1> QED
  BY <1>1, <1>3, StaysUpToDate

\* One transaction's statement: the others stay as they are.
LEMMA StatementKeeps ==
  ASSUME TransactionsOK, NEW s \in Sessions, NEW new, Sound(s, new), Set(s, new),
         UNCHANGED <<payment, balance, reserved, active, ledger>>
  PROVE  TransactionsOK'
<1>1. tx' \in [Sessions -> Transaction]
  BY DEF TransactionsOK, Sound, Set
<1>2. tx'[s] = new /\ \A u \in Sessions : u # s => tx'[u] = tx[u]
  BY DEF TransactionsOK, Set
<1>3. Exclusive'
  <2> SUFFICES ASSUME NEW u \in Sessions, NEW lock \in tx'[u].locks,
                      NEW v \in Sessions \ {u}
               PROVE  lock \notin tx'[v].locks
    BY DEF Exclusive, Free
  <2>1. CASE u = s
    BY <1>2, <2>1 DEF Sound, Free
  <2>2. CASE u # s /\ v = s
    BY <1>2, <2>2 DEF Sound, Free
  <2>3. CASE u # s /\ v # s
    BY <1>2, <2>3 DEF TransactionsOK, Exclusive, Free
  <2> QED
    BY <2>1, <2>2, <2>3
<1>4. ASSUME NEW u \in Sessions PROVE UpToDate(tx[u])'
  <2>1. \A t : UpToDate(t) => UpToDate(t)'
    BY QuietKeeps
  <2>2. UpToDate(tx'[u])
    BY <1>2 DEF TransactionsOK, Sound
  <2> QED
    BY <2>1, <2>2
<1> QED
  BY <1>1, <1>3, <1>4 DEF TransactionsOK

\* No transaction.
LEMMA NoTxSound ==
  ASSUME NEW s
  PROVE  Sound(s, NoTx) /\ NoTx \in Transaction /\ NoTx.locks = {}
<1>1. NoRow \in WorkingRow
  BY EmptySeq DEF NoRow, WorkingRow, ReasonText
<1>2. NoTx \in Transaction /\ NoTx.locks = {}
  BY <1>1 DEF NoTx, Transaction, Statement
<1>3. UpToDate(NoTx)
  BY DEF UpToDate, Beginning, NoTx
<1> QED
  BY <1>2, <1>3 DEF Sound

\* A transaction that is not NoTx and not at its first statement has locked its payment's
\* row, or has inserted it.
LEMMA OpenTx ==
  ASSUME TransactionsOK, NEW s \in Sessions
  PROVE  /\ tx[s] \in Transaction /\ UpToDate(tx[s])
         /\ \A lock \in tx[s].locks : Free(s, lock)
BY DEF TransactionsOK, Exclusive

\* What an UPDATE's WHERE finds, by operation, as long as the transaction has written to
\* no account; the credit's WHERE is not about money.
LEMMA FoundRows ==
  ASSUME TypeOK, NEW s \in Sessions
  PROVE  LET r == tx[s].payment IN
         /\ Crediting(s) => Found(s) = Creditable(r)
         /\ Debiting(s) /\ Untouched(tx[s]) =>
              /\ tx[s].op = "clear"  => Found(s) = Reservable(r)
              /\ tx[s].op = "reject" => Found(s) = Releasable(r)
              /\ tx[s].op = "settle" => Found(s) = Debitable(r)
<1> DEFINE r == tx[s].payment
<1>1. CASE Crediting(s)
  <2>1. Found(s) = Own(s)!Creditable(r) /\ ~Debiting(s)
    BY <1>1 DEF Found, Crediting, Debiting
  <2>2. Own(s)!Creditable(r) = Creditable(r)
    BY DEF Own!Creditable, Own!Creditor, Own!AccountRow, Creditable, Creditor, AccountRow
  <2> QED
    BY <2>1, <2>2
<1>2. CASE Debiting(s) /\ Untouched(tx[s])
  <2>1. ~Crediting(s)
    BY <1>2 DEF Crediting, Debiting
  <2>2. \A a \in Accounts : OwnBalance(s)[a] = balance[a] /\ OwnReserved(s)[a] = reserved[a]
    <3>1. \A a \in Accounts : balance[a] \in Int /\ reserved[a] \in Int
      BY DEF TypeOK
    <3>2. \A a \in Accounts : tx[s].funds[a] = 0 /\ tx[s].holds[a] = 0
      BY <1>2 DEF Untouched, Zero
    <3> QED
      BY <3>1, <3>2 DEF OwnBalance, OwnReserved
  <2>3. tx[s].op = "clear" => Found(s) = Reservable(r)
    <3>1. Own(s)!Reservable(r) = Reservable(r)
      BY <2>2 DEF Own!Reservable, Own!Debtor, Own!AccountRow, Own!Amount, Own!ToCents,
                  Reservable, Debtor, AccountRow, Amount, ToCents
    <3> QED
      BY <2>1, <3>1 DEF Found
  <2>4. tx[s].op = "reject" => Found(s) = Releasable(r)
    <3>1. Own(s)!Releasable(r) = Releasable(r)
      BY <2>2 DEF Own!Releasable, Own!Debtor, Own!AccountRow, Own!Amount, Own!ToCents,
                  Releasable, Debtor, AccountRow, Amount, ToCents
    <3> QED
      BY <2>1, <3>1 DEF Found
  <2>5. tx[s].op = "settle" => Found(s) = Debitable(r)
    <3>1. Own(s)!Debitable(r) = Debitable(r)
      BY <2>2 DEF Own!Debitable, Own!Debtor, Own!AccountRow, Own!Amount, Own!ToCents,
                  Debitable, Debtor, AccountRow, Amount, ToCents
    <3> QED
      BY <2>1, <3>1 DEF Found
  <2> QED
    BY <2>1, <2>3, <2>4, <2>5
<1> QED
  BY <1>1, <1>2

-----------------------------------------------------------------------------
(* Statements, one by one                                                   *)

\* What a transaction is about, by the statement that it is at.
LEMMA Stages ==
  ASSUME NEW t, UpToDate(t)
  PROVE  /\ t.at \in {"insert", "payment"} =>
              /\ t.payment \in Requests /\ t.op \in Operations
              /\ t.op = "submit" <=> t.at = "insert"
              /\ Untouched(t) /\ t.locks = {}
         /\ t.at = "creditor" => InClearing(t)
         /\ t.at \in {"debit", "await debtor"} =>
              /\ HasOnlyPayment(t) /\ t.op \in {"clear", "reject", "settle"}
              /\ t.op = "clear"  => InClearing(t)
              /\ t.op = "reject" => InRejection(t)
              /\ t.op = "settle" => InSettlement(t)
         /\ t.at \in {"credit", "await creditor"} => InSettlement(t)
         /\ t.at = "commit" => \/ HasInserted(t) \/ HasCleared(t) \/ HasAccepted(t)
                               \/ InRejection(t) \/ HasSettled(t)
<1>1. CASE Beginning(t)
  <2>1. /\ NoTx.funds = Zero /\ NoTx.holds = Zero /\ NoTx.locks = {} /\ NoTx.at = "none"
    BY DEF NoTx, Zero
  <2>2. t.funds = NoTx.funds /\ t.holds = NoTx.holds /\ t.locks = NoTx.locks
    BY <1>1 DEF Beginning, NoTx
  <2>3. \/ t.at = "none"
        \/ /\ t.op \in Operations /\ t.payment \in Requests
           /\ t.at = IF t.op = "submit" THEN "insert" ELSE "payment"
    BY <1>1, <2>1 DEF Beginning
  <2> QED
    BY <2>1, <2>2, <2>3 DEF Untouched
<1>2. CASE HasInserted(t)
  BY <1>2 DEF HasInserted
<1>3. CASE InClearing(t)
  BY <1>3 DEF InClearing
<1>4. CASE HasCleared(t)
  BY <1>4 DEF HasCleared
<1>5. CASE HasAccepted(t)
  BY <1>5 DEF HasAccepted
<1>6. CASE InRejection(t)
  BY <1>6 DEF InRejection
<1>7. CASE InSettlement(t)
  BY <1>7 DEF InSettlement
<1>8. CASE HasSettled(t)
  BY <1>8 DEF HasSettled
<1> QED
  BY <1>1, <1>2, <1>3, <1>4, <1>5, <1>6, <1>7, <1>8 DEF UpToDate

\* The row after the first transition of an operation.
LEMMA StartedRowType ==
  ASSUME TypeOK, NEW r \in Requests
  PROVE  /\ payment[r].status = "validated" =>
              applyPaymentEvent(payment[r], "clearing_started", "") \in WorkingRow
         /\ payment[r].status = "awaiting_response" =>
              \A event \in {"receiver_accepted", "receiver_rejected"}, reason \in ReasonText :
                applyPaymentEvent(payment[r], event, reason) \in WorkingRow
         /\ payment[r].status = "accepted" =>
              applyPaymentEvent(payment[r], "settlement_started", "") \in WorkingRow
<1>1. payment[r] \in WorkingRow /\ "" \in ReasonText
  BY RowTypes DEF TypeOK, ReasonText
<1>2. ASSUME NEW event \in PaymentEvent, NEW reason \in ReasonText,
             payment[r].status \in PaymentState,
             NextPaymentState(payment[r].status, event) \in PaymentState
      PROVE  applyPaymentEvent(payment[r], event, reason) \in WorkingRow
  BY <1>1, <1>2, ApplyEvent
<1>3. ASSUME payment[r].status = "validated"
      PROVE  applyPaymentEvent(payment[r], "clearing_started", "") \in WorkingRow
  BY <1>1, <1>2, <1>3, Machine, EventTypes
<1>4. ASSUME payment[r].status = "awaiting_response",
             NEW event \in {"receiver_accepted", "receiver_rejected"}, NEW reason \in ReasonText
      PROVE  applyPaymentEvent(payment[r], event, reason) \in WorkingRow
  BY <1>2, <1>4, Machine, EventTypes
<1>5. ASSUME payment[r].status = "accepted"
      PROVE  applyPaymentEvent(payment[r], "settlement_started", "") \in WorkingRow
  BY <1>1, <1>2, <1>5, Machine, EventTypes
<1> QED
  BY <1>3, <1>4, <1>5

\* The same transitions, by operation.
LEMMA StartedBy ==
  ASSUME NEW s, NEW row
  PROVE  /\ \A next \in Started(s, "clear", row) :
              next = [row |-> applyPaymentEvent(row, "clearing_started", ""),
                      at |-> "creditor"]
         /\ \A next \in Started(s, "accept", row) :
              next = [row |-> applyPaymentEvent(row, "receiver_accepted", ""),
                      at |-> "commit"]
         /\ \A next \in Started(s, "reject", row) : \E text \in Reasons :
              next = [row |-> applyPaymentEvent(row, "receiver_rejected",
                                IF text = "" THEN "receiver rejected payment" ELSE text),
                      at |-> "debit"]
         /\ \A next \in Started(s, "settle", row) :
              next = [row |-> applyPaymentEvent(row, "settlement_started", ""),
                      at |-> "debit"]
BY DEF Started

\* db.Begin.
LEMMA BeginSound ==
  ASSUME NEW s \in Sessions, NEW op \in Operations, NEW r \in Requests
  PROVE  Sound(s, [NoTx EXCEPT !.op = op, !.payment = r,
                               !.at = IF op = "submit" THEN "insert" ELSE "payment"])
<1> DEFINE new == [NoTx EXCEPT !.op = op, !.payment = r,
                               !.at = IF op = "submit" THEN "insert" ELSE "payment"]
<1>1. new \in Transaction
  BY NoTxSound DEF Transaction, Statement
<1>2. new.locks = {}
  BY DEF NoTx
<1>3. Beginning(new)
  BY DEF Beginning, NoTx
<1> QED
  BY <1>1, <1>2, <1>3 DEF Sound, UpToDate

\* The INSERT of a payment.
LEMMA InsertSound ==
  ASSUME TransactionsOK, NEW s \in Sessions, InsertPayment(s)
  PROVE  \E new : Sound(s, new) /\ Set(s, new)
<1> DEFINE t == tx[s]
           r == t.payment
           new == [t EXCEPT !.row = ValidatedRow(r), !.at = "commit", !.locks = {UETRLock(r)}]
<1>1. t \in Transaction /\ UpToDate(t)
  BY OpenTx
<1>2. r \in Requests /\ t.op = "submit" /\ Untouched(t)
  BY <1>1, Stages DEF InsertPayment
<1>3. ValidatedRow(r) \in WorkingRow
  BY <1>2, ValidatedRowType, RowTypes
<1>4. new \in Transaction
  BY <1>1, <1>2, <1>3 DEF Transaction, Statement, Lock
<1>5. HasInserted(new)
  BY <1>1, <1>2 DEF HasInserted, InsertPayment, Untouched, Transaction
<1>6. Set(s, new) /\ \A lock \in new.locks : Free(s, lock)
  BY <1>1 DEF InsertPayment, Transaction
<1> QED
  BY <1>4, <1>5, <1>6 DEF Sound, UpToDate

\* SELECT FOR UPDATE of the payment's row.
LEMMA LockSound ==
  ASSUME MoneyInvariant, TransactionsOK, NEW s \in Sessions, LockPayment(s)
  PROVE  \E new : Sound(s, new) /\ Set(s, new)
<1> DEFINE t == tx[s]
           r == t.payment
           after(next) == [t EXCEPT !.row = next.row, !.at = next.at,
                                    !.locks = {PaymentLock(r)}]
<1>1. t \in Transaction /\ UpToDate(t) /\ TypeOK
  BY OpenTx DEF MoneyInvariant
<1>2. r \in Requests /\ t.op \in DOMAIN Precondition /\ Untouched(t)
  BY <1>1, Stages, Preconditions DEF LockPayment
<1>3. PICK next \in Started(s, t.op, payment[r]) : Set(s, after(next))
  BY DEF LockPayment
<1>4. payment[r].status = Precondition[t.op] /\ Free(s, PaymentLock(r))
  BY DEF LockPayment
<1>5. ASSUME next.row \in WorkingRow, next.at \in Statement
      PROVE  /\ after(next) \in Transaction /\ HasOnlyPayment(after(next))
             /\ after(next).op = t.op /\ after(next).payment = r
             /\ after(next).row = next.row /\ after(next).at = next.at
             /\ \A lock \in after(next).locks : Free(s, lock)
  <2>1. after(next) \in Transaction
    BY <1>1, <1>2, <1>5 DEF Transaction, Lock
  <2>2. /\ after(next).op = t.op /\ after(next).payment = r
        /\ after(next).row = next.row /\ after(next).at = next.at
        /\ after(next).locks = {PaymentLock(r)}
        /\ after(next).funds = t.funds /\ after(next).holds = t.holds
    BY <1>1 DEF Transaction
  <2> HIDE DEF after
  <2>3. HasOnlyPayment(after(next))
    BY <1>2, <1>4, <2>2 DEF HasOnlyPayment, HasPayment, Untouched
  <2> QED
    BY <1>4, <2>1, <2>2, <2>3
<1> HIDE DEF after
<1>6. ASSUME next.row \in WorkingRow, next.at \in Statement, UpToDate(after(next))
      PROVE  \E new : Sound(s, new) /\ Set(s, new)
  BY <1>3, <1>5, <1>6 DEF Sound
<1>7. CASE t.op = "clear"
  <2>1. /\ next.row = applyPaymentEvent(payment[r], "clearing_started", "")
        /\ next.at = "creditor"
    <3>1. next \in Started(s, "clear", payment[r])
      BY <1>7
    <3>2. next = [row |-> applyPaymentEvent(payment[r], "clearing_started", ""), at |-> "creditor"]
      BY <3>1, StartedBy
    <3> QED
      BY <3>2
  <2>2. next.row \in WorkingRow /\ next.at \in Statement
    BY <1>1, <1>2, <1>4, <1>7, <2>1, StartedRowType, Preconditions DEF Statement
  <2>3. InClearing(after(next))
    BY <1>5, <1>7, <2>1, <2>2 DEF InClearing
  <2> QED
    BY <1>6, <2>2, <2>3 DEF UpToDate
<1>8. CASE t.op = "accept"
  <2>1. /\ next.row = applyPaymentEvent(payment[r], "receiver_accepted", "")
        /\ next.at = "commit" /\ "" \in ReasonText
    <3>1. next \in Started(s, "accept", payment[r])
      BY <1>8
    <3>2. next = [row |-> applyPaymentEvent(payment[r], "receiver_accepted", ""), at |-> "commit"]
      BY <3>1, StartedBy
    <3> QED
      BY <3>2 DEF ReasonText
  <2>2. next.row \in WorkingRow /\ next.at \in Statement
    BY <1>1, <1>2, <1>4, <1>8, <2>1, StartedRowType, Preconditions DEF Statement
  <2>3. HasAccepted(after(next))
    BY <1>5, <1>8, <2>1, <2>2 DEF HasAccepted
  <2> QED
    BY <1>6, <2>2, <2>3 DEF UpToDate
<1>9. CASE t.op = "reject"
  <2>1. PICK text \in Reasons :
          /\ next.row = applyPaymentEvent(payment[r], "receiver_rejected",
                          IF text = "" THEN "receiver rejected payment" ELSE text)
          /\ next.at = "debit"
    <3>1. next \in Started(s, "reject", payment[r])
      BY <1>9
    <3>2. PICK text \in Reasons :
            next = [row |-> applyPaymentEvent(payment[r], "receiver_rejected",
                              IF text = "" THEN "receiver rejected payment" ELSE text),
                    at |-> "debit"]
      BY <3>1, StartedBy
    <3> QED
      BY <3>2
  <2>2. (IF text = "" THEN "receiver rejected payment" ELSE text) \in ReasonText
    BY DEF ReasonText
  <2>3. next.row \in WorkingRow /\ next.at \in Statement
    BY <1>1, <1>2, <1>4, <1>9, <2>1, <2>2, StartedRowType, Preconditions DEF Statement
  <2>4. InRejection(after(next))
    BY <1>5, <1>9, <2>1, <2>3 DEF InRejection
  <2> QED
    BY <1>6, <2>3, <2>4 DEF UpToDate
<1>10. CASE t.op = "settle"
  <2>1. /\ next.row = applyPaymentEvent(payment[r], "settlement_started", "")
        /\ next.at = "debit"
    <3>1. next \in Started(s, "settle", payment[r])
      BY <1>10
    <3>2. next = [row |-> applyPaymentEvent(payment[r], "settlement_started", ""), at |-> "debit"]
      BY <3>1, StartedBy
    <3> QED
      BY <3>2
  <2>2. next.row \in WorkingRow /\ next.at \in Statement
    BY <1>1, <1>2, <1>4, <1>10, <2>1, StartedRowType, Preconditions DEF Statement
  <2>3. Insertable(r)
    BY <1>10 DEF LockPayment
  <2>4. InSettlement(after(next))
    BY <1>5, <1>10, <2>1, <2>2, <2>3 DEF InSettlement
  <2> QED
    BY <1>6, <2>2, <2>4 DEF UpToDate
<1> QED
  BY <1>2, <1>7, <1>8, <1>9, <1>10, Preconditions

\* The SELECT EXISTS about the creditor.
LEMMA CreditorSound ==
  ASSUME MoneyInvariant, TransactionsOK, NEW s \in Sessions, ReadCreditor(s)
  PROVE  \E new : Sound(s, new) /\ Set(s, new)
<1> DEFINE t == tx[s]
           r == t.payment
           text == "creditor account does not exist or is inactive"
<1>1. /\ t \in Transaction /\ UpToDate(t) /\ TypeOK
      /\ \A lock \in t.locks : Free(s, lock)
  BY OpenTx DEF MoneyInvariant
<1>2. InClearing(t)
  BY <1>1, Stages DEF ReadCreditor
<1>3. CASE CreditorExists(r) /\ Set(s, [t EXCEPT !.at = "debit"])
  <2> DEFINE new == [t EXCEPT !.at = "debit"]
  <2>1. new \in Transaction /\ new.locks = t.locks
    BY <1>1 DEF Transaction, Statement
  <2>2. CreditorSeen(r)
    BY <1>3 DEF CreditorExists, CreditorSeen
  <2>3. InClearing(new)
    BY <1>1, <1>2, <2>2 DEF InClearing, HasOnlyPayment, HasPayment, Untouched, Transaction
  <2> QED
    BY <1>1, <1>3, <2>1, <2>3 DEF Sound, UpToDate
<1>4. CASE ~CreditorExists(r) /\ Set(s, Concluded(t, "clearing_failed", text))
  <2> DEFINE new == Concluded(t, "clearing_failed", text)
  <2>1. new.row = Cleared(r, "clearing_failed", text)
    BY <1>1, <1>2 DEF InClearing, Cleared, Concluded, Transaction
  <2>2. payment[r].status = "validated" /\ r \in Requests
    BY <1>2, Preconditions DEF InClearing, HasOnlyPayment, HasPayment
  <2>3. new.row \in WorkingRow
    BY <1>1, <2>1, <2>2, ClearedRowType, RowTypes DEF ReasonText
  <2>4. new.locks = t.locks
    BY <1>1 DEF Concluded, Transaction
  <2>5. new \in Transaction
    BY <1>1, <2>3 DEF Concluded, Transaction, Statement
  <2>6. CreditorMissed(r)
    BY <1>4 DEF CreditorExists, CreditorMissed
  <2>7. HasCleared(new)
    <3>1. /\ new.op = t.op /\ new.payment = t.payment /\ new.at = "commit"
          /\ new.funds = t.funds /\ new.holds = t.holds
      BY <1>1 DEF Concluded, Transaction
    <3> HIDE DEF new
    <3> QED
      BY <1>2, <2>1, <2>4, <2>6, <3>1
      DEF InClearing, HasOnlyPayment, HasPayment, Untouched, HasCleared
  <2> QED
    BY <1>1, <1>4, <2>4, <2>5, <2>7 DEF Sound, UpToDate
<1> QED
  BY <1>3, <1>4 DEF ReadCreditor

\* An UPDATE that goes to wait for its row.
LEMMA FindSound ==
  ASSUME TransactionsOK, NEW s \in Sessions, FindRow(s)
  PROVE  \E new : Sound(s, new) /\ Set(s, new)
<1> DEFINE t == tx[s]
           new == [t EXCEPT !.at = IF Debiting(s) THEN "await debtor" ELSE "await creditor"]
<1>1. /\ t \in Transaction /\ UpToDate(t)
      /\ \A lock \in t.locks : Free(s, lock)
  BY OpenTx
<1>2. /\ new \in Transaction /\ new.locks = t.locks
      /\ new.op = t.op /\ new.payment = t.payment /\ new.row = t.row
      /\ new.funds = t.funds /\ new.holds = t.holds
      /\ new.at = IF t.at = "debit" THEN "await debtor" ELSE "await creditor"
  BY <1>1 DEF Transaction, Statement, FindRow, Debiting
<1>3. Set(s, new) /\ t.at \in {"debit", "credit"}
  BY DEF FindRow
<1> HIDE DEF new
<1>4. CASE t.op = "clear" /\ t.at = "debit"
  <2>1. InClearing(t)
    BY <1>1, <1>4, Stages
  <2>2. InClearing(new)
    BY <1>2, <1>4, <2>1 DEF InClearing, HasOnlyPayment, HasPayment, Untouched
  <2> QED
    BY <1>1, <1>2, <1>3, <2>2 DEF Sound, UpToDate
<1>5. CASE t.op = "reject" /\ t.at = "debit"
  <2>1. InRejection(t)
    BY <1>1, <1>5, Stages
  <2>2. InRejection(new)
    BY <1>2, <1>5, <2>1 DEF InRejection, HasOnlyPayment, HasPayment, Untouched
  <2> QED
    BY <1>1, <1>2, <1>3, <2>2 DEF Sound, UpToDate
<1>6. CASE (t.op = "settle" /\ t.at = "debit") \/ t.at = "credit"
  <2>1. InSettlement(t)
    BY <1>1, <1>6, Stages
  <2>2. InSettlement(new)
    BY <1>2, <1>6, <2>1 DEF InSettlement, HasOnlyPayment, HasPayment, Untouched, Added
  <2> QED
    BY <1>1, <1>2, <1>3, <2>2 DEF Sound, UpToDate
<1> QED
  BY <1>1, <1>3, <1>4, <1>5, <1>6, Stages

\* An UPDATE that finds no row, or not one that still fits.
LEMMA MissSound ==
  ASSUME MoneyInvariant, PastAmounts, TransactionsOK, NEW s \in Sessions, MissRow(s)
  PROVE  \E new : Sound(s, new) /\ Set(s, new)
<1> DEFINE t == tx[s]
           r == t.payment
           text == "debtor account has insufficient available funds or is inactive"
           waited == IF Awaiting(s) THEN {AccountLock(a) : a \in Subject(s)} ELSE {}
           done == Concluded(t, "clearing_failed", text)
           new == [done EXCEPT !.locks = @ \cup waited]
<1>1. /\ t \in Transaction /\ UpToDate(t) /\ TypeOK
      /\ \A lock \in t.locks : Free(s, lock)
  BY OpenTx DEF MoneyInvariant
<1>2. CASE t.op # "clear" /\ Rollback(s)
  BY <1>2, NoTxSound DEF Rollback
<1>3. CASE t.op = "clear" /\ Set(s, new)
  <2>1. InClearing(t) /\ Debiting(s)
    <3>1. ~Crediting(s)
      BY <1>1, <1>3, Stages DEF Crediting, InSettlement
    <3>2. Debiting(s)
      BY <3>1 DEF MissRow
    <3> QED
      BY <1>1, <1>3, <3>2, Stages DEF Debiting
  <2>2. /\ payment[r].status = "validated" /\ r \in Requests /\ Untouched(t)
        /\ CreditorSeen(r)
    BY <2>1, Preconditions DEF InClearing, HasOnlyPayment, HasPayment, Debiting
  <2>3. Reservable(r) = {}
    BY <1>1, <1>3, <2>1, <2>2, FoundRows DEF MissRow
  <2>4. DebtorMissed(r)
    BY <2>2, <2>3, NotReservable
  <2>5. waited \subseteq Lock /\ \A lock \in waited : Free(s, lock)
    BY DEF MissRow, Lock, Subject, Debtor, Creditor, AccountRow
  <2> HIDE DEF waited
  <2>6. done.row = Cleared(r, "clearing_failed", text)
    BY <1>1, <2>1 DEF InClearing, Cleared, Concluded, Transaction
  <2>7. done.row \in WorkingRow
    BY <1>1, <2>2, <2>6, ClearedRowType, RowTypes DEF ReasonText
  <2>8. /\ done \in Transaction /\ done.locks = t.locks /\ done.at = "commit"
        /\ done.op = t.op /\ done.payment = t.payment
        /\ done.funds = t.funds /\ done.holds = t.holds
    BY <1>1, <2>7 DEF Concluded, Transaction, Statement
  <2> HIDE DEF done
  <2>9. /\ new \in Transaction /\ new.locks = t.locks \cup waited /\ new.at = "commit"
        /\ new.op = t.op /\ new.payment = t.payment /\ new.row = done.row
        /\ new.funds = t.funds /\ new.holds = t.holds
    BY <2>5, <2>8 DEF Transaction
  <2> HIDE DEF new
  <2>10. HasCleared(new)
    BY <2>1, <2>2, <2>4, <2>6, <2>9
    DEF InClearing, HasOnlyPayment, HasPayment, Untouched, HasCleared
  <2>11. \A lock \in new.locks : Free(s, lock)
    BY <1>1, <2>5, <2>9
  <2> QED
    BY <1>3, <2>9, <2>10, <2>11 DEF Sound, UpToDate
<1> QED
  BY <1>2, <1>3 DEF MissRow

\* What an UPDATE of account a leaves of the transaction.
LEMMA UpdatedBy ==
  ASSUME NEW s, NEW a \in Accounts, tx[s] \in Transaction, tx[s].payment \in Requests,
         Crediting(s) \/ tx[s].op \in {"clear", "reject", "settle"}
  PROVE  LET t == tx[s]
             new == Updated(s, a)
             amount == Amount(t.payment)
         IN /\ new.row \in WorkingRow => new \in Transaction
            /\ new.op = t.op /\ new.payment = t.payment
            /\ new.locks = t.locks \cup {AccountLock(a)}
            /\ Crediting(s) =>
                 /\ new.at = "commit" /\ new.holds = t.holds
                 /\ new.funds = [t.funds EXCEPT ![a] = @ + amount]
                 /\ new.row = applyPaymentEvent(t.row, "settlement_completed", "")
            /\ ~Crediting(s) /\ t.op = "clear" =>
                 /\ new.at = "commit" /\ new.funds = t.funds
                 /\ new.holds = [t.holds EXCEPT ![a] = @ + amount]
                 /\ new.row = applyPaymentEvent(t.row, "clearing_passed", "")
            /\ ~Crediting(s) /\ t.op = "reject" =>
                 /\ new.at = "commit" /\ new.funds = t.funds /\ new.row = t.row
                 /\ new.holds = [t.holds EXCEPT ![a] = @ - amount]
            /\ ~Crediting(s) /\ t.op = "settle" =>
                 /\ new.at = "credit" /\ new.row = t.row
                 /\ new.funds = [t.funds EXCEPT ![a] = @ - amount]
                 /\ new.holds = [t.holds EXCEPT ![a] = @ - amount]
<1> DEFINE t == tx[s]
           new == Updated(s, a)
           amount == Amount(t.payment)
           locked == [t EXCEPT !.locks = @ \cup {AccountLock(a)}]
<1>1. amount \in Int
  BY AmountType
<1> HIDE DEF amount
<1>2. locked \in Transaction
  BY DEF Transaction, Lock
<1>3. /\ locked.op = t.op /\ locked.payment = t.payment /\ locked.row = t.row
      /\ locked.funds = t.funds /\ locked.holds = t.holds /\ locked.at = t.at
      /\ locked.locks = t.locks \cup {AccountLock(a)}
  BY DEF Transaction
<1> HIDE DEF locked
<1>4. /\ [t.funds EXCEPT ![a] = @ + amount] \in [Accounts -> Int]
      /\ [t.funds EXCEPT ![a] = @ - amount] \in [Accounts -> Int]
      /\ [t.holds EXCEPT ![a] = @ + amount] \in [Accounts -> Int]
      /\ [t.holds EXCEPT ![a] = @ - amount] \in [Accounts -> Int]
  <2>1. t.funds \in [Accounts -> Int] /\ t.holds \in [Accounts -> Int]
    BY DEF Transaction
  <2> QED
    BY <1>1, <2>1
<1>5. CASE Crediting(s)
  <2> DEFINE funds == [t.funds EXCEPT ![a] = @ + amount]
             mid == [locked EXCEPT !.funds = funds]
  <2>1. new = Concluded(mid, "settlement_completed", "")
    BY <1>3, <1>5 DEF Updated, locked, amount
  <2> HIDE DEF new, funds
  <2>2. /\ mid \in Transaction /\ mid.op = t.op /\ mid.payment = t.payment
        /\ mid.row = t.row /\ mid.locks = t.locks \cup {AccountLock(a)}
        /\ mid.funds = funds /\ mid.holds = t.holds
    BY <1>2, <1>3, <1>4 DEF Transaction, funds
  <2> HIDE DEF mid
  <2>3. /\ new.op = mid.op /\ new.payment = mid.payment /\ new.at = "commit"
        /\ new.row = applyPaymentEvent(mid.row, "settlement_completed", "")
        /\ new.funds = mid.funds /\ new.holds = mid.holds /\ new.locks = mid.locks
        /\ new.row \in WorkingRow => new \in Transaction
    BY <2>1, <2>2 DEF Concluded, Transaction, Statement
  <2> QED
    BY <1>5, <2>2, <2>3 DEF funds, new, amount
<1>6. CASE ~Crediting(s) /\ t.op = "clear"
  <2> DEFINE holds == [t.holds EXCEPT ![a] = @ + amount]
             mid == [locked EXCEPT !.holds = holds]
  <2>1. new = Concluded(mid, "clearing_passed", "")
    BY <1>3, <1>6 DEF Updated, locked, amount
  <2> HIDE DEF new, holds
  <2>2. /\ mid \in Transaction /\ mid.op = t.op /\ mid.payment = t.payment
        /\ mid.row = t.row /\ mid.locks = t.locks \cup {AccountLock(a)}
        /\ mid.holds = holds /\ mid.funds = t.funds
    BY <1>2, <1>3, <1>4 DEF Transaction, holds
  <2> HIDE DEF mid
  <2>3. /\ new.op = mid.op /\ new.payment = mid.payment /\ new.at = "commit"
        /\ new.row = applyPaymentEvent(mid.row, "clearing_passed", "")
        /\ new.funds = mid.funds /\ new.holds = mid.holds /\ new.locks = mid.locks
        /\ new.row \in WorkingRow => new \in Transaction
    BY <2>1, <2>2 DEF Concluded, Transaction, Statement
  <2> QED
    BY <1>6, <2>2, <2>3 DEF holds, new, amount
<1>7. CASE ~Crediting(s) /\ t.op = "reject"
  <2> DEFINE holds == [t.holds EXCEPT ![a] = @ - amount]
  <2>1. new = [locked EXCEPT !.holds = holds, !.at = "commit"]
    BY <1>3, <1>7 DEF Updated, locked, amount
  <2> HIDE DEF new, holds
  <2>2. /\ new.op = t.op /\ new.payment = t.payment /\ new.row = t.row /\ new.at = "commit"
        /\ new.locks = t.locks \cup {AccountLock(a)}
        /\ new.funds = t.funds /\ new.holds = holds
    BY <1>2, <1>3, <2>1 DEF Transaction
  <2>3. new \in Transaction
    BY <1>2, <1>4, <2>1 DEF Transaction, Statement, holds
  <2> QED
    BY <1>7, <2>2, <2>3 DEF holds, new, amount
<1>8. CASE ~Crediting(s) /\ t.op = "settle"
  <2> DEFINE funds == [t.funds EXCEPT ![a] = @ - amount]
             holds == [t.holds EXCEPT ![a] = @ - amount]
  <2>1. new = [locked EXCEPT !.holds = holds, !.funds = funds, !.at = "credit"]
    BY <1>3, <1>8 DEF Updated, locked, amount
  <2> HIDE DEF new, funds, holds
  <2>2. /\ new.op = t.op /\ new.payment = t.payment /\ new.row = t.row /\ new.at = "credit"
        /\ new.locks = t.locks \cup {AccountLock(a)}
        /\ new.funds = funds /\ new.holds = holds
    BY <1>2, <1>3, <2>1 DEF Transaction
  <2>3. new \in Transaction
    BY <1>2, <1>4, <2>1 DEF Transaction, Statement, funds, holds
  <2> QED
    BY <1>8, <2>2, <2>3 DEF funds, holds, new, amount
<1> QED
  BY <1>5, <1>6, <1>7, <1>8 DEF amount

\* An UPDATE that has waited for its row and found that it still fits.
LEMMA TakeSound ==
  ASSUME MoneyInvariant, TransactionsOK, NEW s \in Sessions, TakeRow(s)
  PROVE  \E new : Sound(s, new) /\ Set(s, new)
<1> DEFINE t == tx[s]
           r == t.payment
<1>1. /\ t \in Transaction /\ UpToDate(t) /\ TypeOK
      /\ \A lock \in t.locks : Free(s, lock)
  BY OpenTx DEF MoneyInvariant
<1>2. PICK a \in Found(s) :
        /\ Free(s, AccountLock(a))
        /\ \/ Overflows(s, a) /\ Rollback(s)
           \/ ~Overflows(s, a) /\ Set(s, Updated(s, a))
  BY DEF TakeRow
<1>3. CASE Overflows(s, a) /\ Rollback(s)
  BY <1>3, NoTxSound DEF Rollback
<1>4. ASSUME ~Overflows(s, a), Set(s, Updated(s, a)), a \in Accounts, r \in Requests,
             Crediting(s) \/ t.op \in {"clear", "reject", "settle"},
             Updated(s, a).row \in WorkingRow, UpToDate(Updated(s, a))
      PROVE  \E new : Sound(s, new) /\ Set(s, new)
  <2>1. /\ Updated(s, a) \in Transaction
        /\ Updated(s, a).locks = t.locks \cup {AccountLock(a)}
    BY <1>1, <1>4, UpdatedBy
  <2>2. \A lock \in Updated(s, a).locks : Free(s, lock)
    BY <1>1, <1>2, <2>1
  <2> QED
    BY <1>4, <2>1, <2>2 DEF Sound
<1>5. CASE Crediting(s) /\ ~Overflows(s, a) /\ Set(s, Updated(s, a))
  <2> DEFINE new == Updated(s, a)
  <2>1. InSettlement(t) /\ HasPayment(t) /\ t.at \notin {"debit", "await debtor"}
    BY <1>1, <1>5, Stages DEF Crediting, InSettlement
  <2>2. r \in Requests /\ payment[r].status = "accepted"
    BY <2>1, Preconditions DEF InSettlement, HasPayment
  <2>3. a \in Creditable(r) /\ a \in Accounts /\ Amount(r) \in Int
    BY <1>1, <1>2, <1>5, <2>2, FoundRows, AmountType DEF Creditable, Creditor, AccountRow
  <2>4. PICK d \in Debitable(r) : /\ Added(t, t.funds, d, -Amount(r))
                                  /\ Added(t, t.holds, d, -Amount(r))
    BY <2>1 DEF InSettlement
  <2>5. /\ new.op = "settle" /\ new.payment = r /\ new.at = "commit"
        /\ new.locks = t.locks \cup {AccountLock(a)} /\ new.holds = t.holds
        /\ new.funds = [t.funds EXCEPT ![a] = @ + Amount(r)]
        /\ new.row = applyPaymentEvent(t.row, "settlement_completed", "")
    BY <1>1, <1>5, <2>1, <2>2, <2>3, UpdatedBy DEF InSettlement
  <2> HIDE DEF new
  <2>6. new.row = applyPaymentEvent(applyPaymentEvent(payment[r], "settlement_started", ""),
                                    "settlement_completed", "")
    BY <2>1, <2>5 DEF InSettlement
  <2>7. new.row \in WorkingRow
    BY <1>1, <2>2, <2>6, SettledRowType, RowTypes
  <2>8. balance[a] + new.funds[a] <= MaxCents
    <3>1. t.funds[a] \in Int /\ balance[a] \in Int /\ t.funds \in [Accounts -> Int]
      BY <1>1, <2>3 DEF Transaction, TypeOK
    <3>2. new.funds[a] = t.funds[a] + Amount(r)
      BY <2>3, <2>5, <3>1
    <3>3. ~(balance[a] + t.funds[a] + Amount(r) > MaxCents)
      BY <1>5, <2>3 DEF Overflows, OwnBalance
    <3> QED
      BY <2>3, <3>1, <3>2, <3>3, MaxCentsAssumption
  <2>9. HasPayment(new) /\ Insertable(r)
    BY <2>1, <2>5 DEF HasPayment, InSettlement
  <2>10. Added(new, new.holds, d, -Amount(r)) /\ AccountLock(a) \in new.locks
    BY <2>4, <2>5 DEF Added
  <2>11. new.funds = [[Zero EXCEPT ![d] = -Amount(r)] EXCEPT ![a] = @ + Amount(r)]
    BY <2>4, <2>5 DEF Added
  <2>12. HasSettled(new)
    BY <2>3, <2>4, <2>5, <2>6, <2>8, <2>9, <2>10, <2>11 DEF HasSettled
  <2> QED
    BY <1>4, <1>5, <2>2, <2>3, <2>7, <2>12 DEF UpToDate, new
<1>6. ASSUME ~Crediting(s), ~Overflows(s, a), Set(s, Updated(s, a))
      PROVE  \E new : Sound(s, new) /\ Set(s, new)
  <2> DEFINE new == Updated(s, a)
  <2>1. Debiting(s) /\ t.at \in {"debit", "await debtor"}
    BY <1>6 DEF TakeRow, Awaiting, Crediting, Debiting
  <2>2. /\ HasOnlyPayment(t) /\ t.op \in {"clear", "reject", "settle"}
        /\ t.op = "clear"  => InClearing(t)
        /\ t.op = "reject" => InRejection(t)
        /\ t.op = "settle" => InSettlement(t)
    BY <1>1, <2>1, Stages
  <2>3. /\ HasPayment(t) /\ Untouched(t) /\ r \in Requests /\ Amount(r) \in Int
        /\ payment[r].status = Precondition[t.op] /\ t.payment = r
    BY <2>2, AmountType DEF HasOnlyPayment, HasPayment
  <2>4. /\ t.op = "clear"  => a \in Reservable(r)
        /\ t.op = "reject" => a \in Releasable(r)
        /\ t.op = "settle" => a \in Debitable(r)
    BY <1>1, <1>2, <2>1, <2>3, FoundRows
  <2>5. a \in Accounts
    BY <2>2, <2>4, DebtorAccount, <2>3 DEF Reservable, Releasable, Debitable
  <2>6. /\ new.op = t.op /\ new.payment = r /\ new.locks = t.locks \cup {AccountLock(a)}
        /\ t.op = "clear" =>
             /\ new.at = "commit" /\ new.funds = Zero
             /\ new.holds = [t.holds EXCEPT ![a] = @ + Amount(r)]
             /\ new.row = applyPaymentEvent(t.row, "clearing_passed", "")
        /\ t.op = "reject" =>
             /\ new.at = "commit" /\ new.funds = Zero /\ new.row = t.row
             /\ new.holds = [t.holds EXCEPT ![a] = @ - Amount(r)]
        /\ t.op = "settle" =>
             /\ new.at = "credit" /\ new.row = t.row
             /\ new.funds = [t.funds EXCEPT ![a] = @ - Amount(r)]
             /\ new.holds = [t.holds EXCEPT ![a] = @ - Amount(r)]
    BY <1>1, <1>6, <2>2, <2>3, <2>5, UpdatedBy DEF Untouched
  <2> HIDE DEF new
  <2>7. /\ [t.holds EXCEPT ![a] = @ + Amount(r)] = [Zero EXCEPT ![a] = Amount(r)]
        /\ [t.holds EXCEPT ![a] = @ - Amount(r)] = [Zero EXCEPT ![a] = -Amount(r)]
        /\ [t.funds EXCEPT ![a] = @ - Amount(r)] = [Zero EXCEPT ![a] = -Amount(r)]
    <3>1. t.holds = Zero /\ t.funds = Zero /\ Zero[a] = 0
      BY <2>3, <2>5 DEF Untouched, Zero
    <3>2. /\ t.holds[a] + Amount(r) = Amount(r)
          /\ t.holds[a] - Amount(r) = -Amount(r)
          /\ t.funds[a] - Amount(r) = -Amount(r)
      BY <2>3, <3>1
    <3> QED
      BY <3>1, <3>2
  <2>8. HasPayment(new) /\ AccountLock(a) \in new.locks
    BY <2>3, <2>6 DEF HasPayment
  <2>9. CASE t.op = "clear"
    <3>1. new.row = Cleared(r, "clearing_passed", "")
      BY <2>2, <2>6, <2>9 DEF InClearing, Cleared
    <3>2. new.row \in WorkingRow
      BY <1>1, <2>3, <2>9, <3>1, ClearedRowType, RowTypes, Preconditions DEF ReasonText
    <3>3. CreditorSeen(r)
      BY <2>1, <2>2, <2>9 DEF InClearing
    <3>4. Added(new, new.holds, a, Amount(r)) /\ a \in Reservable(r)
      BY <2>4, <2>6, <2>7, <2>8, <2>9 DEF Added
    <3>5. HasCleared(new)
      BY <2>6, <2>8, <2>9, <3>1, <3>3, <3>4 DEF HasCleared
    <3> QED
      BY <1>4, <1>6, <2>2, <2>3, <2>5, <3>2, <3>5 DEF UpToDate, new
  <2>10. CASE t.op = "reject"
    <3>1. new.row \in WorkingRow
      BY <1>1, <2>6, <2>10 DEF Transaction
    <3>2. Added(new, new.holds, a, -Amount(r)) /\ a \in Releasable(r)
      BY <2>4, <2>6, <2>7, <2>8, <2>10 DEF Added
    <3>3. InRejection(new)
      BY <2>2, <2>6, <2>8, <2>10, <3>2 DEF InRejection
    <3> QED
      BY <1>4, <1>6, <2>2, <2>3, <2>5, <3>1, <3>3 DEF UpToDate, new
  <2>11. CASE t.op = "settle"
    <3>1. new.row \in WorkingRow
      BY <1>1, <2>6, <2>11 DEF Transaction
    <3>2. /\ Added(new, new.holds, a, -Amount(r)) /\ Added(new, new.funds, a, -Amount(r))
          /\ a \in Debitable(r)
      BY <2>4, <2>6, <2>7, <2>8, <2>11 DEF Added
    <3>3. InSettlement(new)
      BY <2>2, <2>6, <2>8, <2>11, <3>2 DEF InSettlement
    <3> QED
      BY <1>4, <1>6, <2>2, <2>3, <2>5, <3>1, <3>3 DEF UpToDate, new
  <2> QED
    BY <2>2, <2>9, <2>10, <2>11
<1> QED
  BY <1>2, <1>3, <1>5, <1>6

\* A statement that changes no table but what a POST was answered.
Statements(s) ==
  \/ \E op \in Operations, r \in Requests : Begin(s, op, r)
  \/ InsertPayment(s) \/ InsertFails(s) \/ LockPayment(s) \/ RefuseCall(s)
  \/ ReadCreditor(s) \/ FindRow(s) \/ MissRow(s) \/ TakeRow(s)
  \/ Abort(s)

\* Each of them is a refused or lost POST to the rail, or nothing, and leaves the
\* transactions as they should be.
LEMMA StatementStep ==
  ASSUME LocksInvariant, NEW s \in Sessions, Statements(s)
  PROVE  [Next]_vars /\ TransactionsOK'
<1> USE DEF LocksInvariant
<1>1. /\ tx[s] \in Transaction /\ UpToDate(tx[s])
      /\ tx[s].op = "submit" => tx[s].payment \in Requests
  <2>1. tx[s] \in Transaction /\ UpToDate(tx[s])
    BY OpenTx
  <2>2. NoTx.op # "submit"
    BY DEF NoTx
  <2> QED
    BY <2>1, <2>2 DEF UpToDate, Beginning, HasInserted, InClearing, HasCleared, HasAccepted,
                      InRejection, InSettlement, HasSettled
<1>2. ASSUME NEW new, Sound(s, new), Set(s, new),
             UNCHANGED <<payment, balance, reserved, active, ledger>>
      PROVE  TransactionsOK'
  BY <1>2, StatementKeeps
<1>3. ASSUME UNCHANGED vars, NEW new, Sound(s, new), Set(s, new)
      PROVE  [Next]_vars /\ TransactionsOK'
  BY <1>2, <1>3 DEF vars
<1>4. ASSUME NEW op \in Operations, NEW r \in Requests, Begin(s, op, r)
      PROVE  [Next]_vars /\ TransactionsOK'
  BY <1>3, <1>4, BeginSound DEF Begin
<1>5. ASSUME InsertPayment(s) PROVE [Next]_vars /\ TransactionsOK'
  BY <1>3, <1>5, InsertSound DEF InsertPayment
<1>6. ASSUME InsertFails(s) PROVE [Next]_vars /\ TransactionsOK'
  <2>1. tx[s].payment \in Requests
    BY <1>1, <1>6, Stages DEF InsertFails
  <2>2. RefuseRequest(tx[s].payment) /\ Set(s, NoTx)
    BY <1>6 DEF InsertFails, Rollback
  <2>3. Next
    BY <2>1, <2>2 DEF Next, SubmitPayment
  <2>4. TransactionsOK'
    BY <1>2, <2>2, NoTxSound DEF RefuseRequest
  <2> QED
    BY <2>3, <2>4
<1>7. ASSUME LockPayment(s) PROVE [Next]_vars /\ TransactionsOK'
  BY <1>3, <1>7, LockSound DEF LockPayment
<1>8. ASSUME RefuseCall(s) PROVE [Next]_vars /\ TransactionsOK'
  BY <1>3, <1>8, NoTxSound DEF RefuseCall, Rollback
<1>9. ASSUME ReadCreditor(s) PROVE [Next]_vars /\ TransactionsOK'
  BY <1>3, <1>9, CreditorSound DEF ReadCreditor
<1>10. ASSUME FindRow(s) PROVE [Next]_vars /\ TransactionsOK'
  BY <1>3, <1>10, FindSound DEF FindRow
<1>11. ASSUME MissRow(s) PROVE [Next]_vars /\ TransactionsOK'
  BY <1>3, <1>11, MissSound DEF MissRow
<1>12. ASSUME TakeRow(s) PROVE [Next]_vars /\ TransactionsOK'
  BY <1>3, <1>12, TakeSound DEF TakeRow
<1>13. ASSUME Abort(s) PROVE [Next]_vars /\ TransactionsOK'
  <2>1. Set(s, NoTx)
    BY <1>13 DEF Abort
  <2>2. CASE UNCHANGED vars
    BY <1>3, <2>1, <2>2, NoTxSound
  <2>3. CASE tx[s].payment \in Requests /\ LoseRequest(tx[s].payment)
    <3>1. Next
      BY <2>3 DEF Next, SubmitPayment
    <3>2. TransactionsOK'
      BY <1>2, <2>1, <2>3, NoTxSound DEF LoseRequest
    <3> QED
      BY <3>1, <3>2
  <2> QED
    BY <1>1, <1>13, <2>2, <2>3 DEF Abort
<1> QED
  BY <1>4, <1>5, <1>6, <1>7, <1>8, <1>9, <1>10, <1>11, <1>12, <1>13 DEF Statements

-----------------------------------------------------------------------------
(* COMMIT                                                                   *)

\* account_id is unique: what an UPDATE finds is one row.
LEMMA OneRow ==
  ASSUME NEW r \in Requests
  PROVE  /\ \A a \in Reservable(r) : Reservable(r) = {a} /\ a \in Accounts
         /\ \A a \in Releasable(r) : Releasable(r) = {a} /\ a \in Accounts
         /\ \A a \in Debitable(r)  : Debitable(r) = {a} /\ a \in Accounts
         /\ \A a \in Creditable(r) : Creditable(r) = {a} /\ a \in Accounts
BY DEF Reservable, Releasable, Debitable, Creditable, Debtor, Creditor, AccountRow

\* What a transaction adds to an account it has locked.
LEMMA AddsToLocked ==
  ASSUME NEW t, UpToDate(t), NEW a \in Accounts, AccountLock(a) \notin t.locks
  PROVE  t.funds[a] = 0 /\ t.holds[a] = 0
<1>1. Zero[a] = 0
  BY DEF Zero
<1>2. \A column, delta : \A b \in Accounts :
        Added(t, column, b, delta) => column[a] = 0
  BY <1>1 DEF Added, Zero
<1>3. CASE Untouched(t)
  BY <1>1, <1>3 DEF Untouched
<1>4. CASE Beginning(t)
  <2>1. NoTx.funds = Zero /\ NoTx.holds = Zero
    BY DEF NoTx, Zero
  <2>2. t.funds = NoTx.funds /\ t.holds = NoTx.holds
    BY <1>4 DEF Beginning, NoTx
  <2> QED
    BY <1>1, <2>1, <2>2
<1>5. CASE HasInserted(t)
  BY <1>3, <1>5 DEF HasInserted
<1>6. CASE InClearing(t)
  BY <1>3, <1>6 DEF InClearing, HasOnlyPayment
<1>7. CASE HasCleared(t)
  BY <1>1, <1>2, <1>7, OneRow DEF HasCleared, HasPayment
<1>8. CASE HasAccepted(t)
  BY <1>3, <1>8 DEF HasAccepted, HasOnlyPayment
<1>9. CASE InRejection(t)
  BY <1>1, <1>2, <1>3, <1>9, OneRow DEF InRejection, HasPayment, HasOnlyPayment
<1>10. CASE InSettlement(t)
  BY <1>1, <1>2, <1>3, <1>10, OneRow DEF InSettlement, HasPayment, HasOnlyPayment
<1>11. CASE HasSettled(t)
  <2>1. t.payment \in Requests
    BY <1>11 DEF HasSettled, HasPayment
  <2>2. PICK b \in Debitable(t.payment), c \in Creditable(t.payment) :
          /\ Added(t, t.holds, b, -Amount(t.payment))
          /\ AccountLock(c) \in t.locks
          /\ t.funds = [[Zero EXCEPT ![b] = -Amount(t.payment)]
                          EXCEPT ![c] = @ + Amount(t.payment)]
    BY <1>11 DEF HasSettled
  <2>3. b \in Accounts /\ c \in Accounts /\ a # b /\ a # c
    BY <2>1, <2>2, OneRow DEF Added
  <2>4. t.holds[a] = 0
    BY <1>2, <2>2, <2>3
  <2>5. t.funds[a] = 0
    BY <2>2, <2>3 DEF Zero
  <2> QED
    BY <2>4, <2>5
<1> QED
  BY <1>4, <1>5, <1>6, <1>7, <1>8, <1>9, <1>10, <1>11 DEF UpToDate

\* The tables that a transaction commits.
LEMMA OwnColumns ==
  ASSUME TypeOK, NEW s \in Sessions
  PROVE  /\ tx[s].funds = Zero => OwnBalance(s) = balance
         /\ tx[s].holds = Zero => OwnReserved(s) = reserved
         /\ \A a \in Accounts, delta \in Int :
              tx[s].holds = [Zero EXCEPT ![a] = delta]
                => OwnReserved(s) = Update(reserved, {a}, delta)
<1>1. /\ balance \in [Accounts -> Int] /\ reserved \in [Accounts -> Int]
      /\ \A a \in Accounts : Zero[a] = 0
  BY DEF TypeOK, Zero
<1>2. tx[s].funds = Zero => OwnBalance(s) = balance
  BY <1>1 DEF OwnBalance
<1>3. tx[s].holds = Zero => OwnReserved(s) = reserved
  BY <1>1 DEF OwnReserved
<1>4. ASSUME NEW a \in Accounts, NEW delta \in Int, tx[s].holds = [Zero EXCEPT ![a] = delta]
      PROVE  OwnReserved(s) = Update(reserved, {a}, delta)
  <2>1. \A b \in Accounts : tx[s].holds[b] = IF b = a THEN delta ELSE 0
    BY <1>4 DEF Zero
  <2> QED
    BY <1>1, <2>1 DEF OwnReserved, Update
<1> QED
  BY <1>2, <1>3, <1>4

\* The event that a COMMIT records.
LEMMA Announcements ==
  ASSUME NEW r
  PROVE  /\ Announcement(r, "validated") = {<<r, "payment.validated">>}
         /\ Announcement(r, "awaiting_response") = {<<r, "payment.cleared">>}
         /\ Announcement(r, "accepted") = {<<r, "payment.accepted">>}
         /\ Announcement(r, "rejected") = {}
         /\ Announcement(r, "failed") = {}
         /\ Announcement(r, "settled") = {}
BY DEF Announcement

\* The COMMIT of a POST stores the payment.
LEMMA CommitSubmit ==
  ASSUME LocksInvariant, NEW s \in Sessions, CommitTx(s), HasInserted(tx[s])
  PROVE  tx[s].payment \in Requests /\ StoreRequest(tx[s].payment)
<1> DEFINE r == tx[s].payment
<1>1. TypeOK /\ r \in Requests /\ tx[s].op = "submit"
  BY DEF LocksInvariant, MoneyInvariant, HasInserted
<1>2. balance' = balance /\ reserved' = reserved
  BY <1>1, OwnColumns DEF CommitTx, HasInserted, Untouched
<1>3. UNCHANGED <<active, ledger>> /\ Commit(r, ValidatedRow(r))
  BY <1>1 DEF CommitTx, HasInserted
<1>4. outbox' = IF ValidatedRow(r).status = "validated"
                THEN outbox \cup {<<r, "payment.validated">>} ELSE outbox
  <2>1. outbox' = outbox \cup Announcement(r, ValidatedRow(r).status)
    BY DEF CommitTx, HasInserted
  <2>2. ValidatedRow(r).status \in {"validated", "rejected"}
    BY <1>1, ValidatedRowType
  <2>3. CASE ValidatedRow(r).status = "validated"
    BY <2>1, <2>3, Announcements
  <2>4. CASE ValidatedRow(r).status = "rejected"
    BY <2>1, <2>4, Announcements
  <2> QED
    BY <2>2, <2>3, <2>4
<1>5. \E code \in {Verdict(r), "500"} : Answer(r, code)
  BY <1>1 DEF CommitTx
<1>6. ~UETRTaken(r) /\ Storable(r)
  BY DEF HasInserted
<1> QED
  BY <1>1, <1>2, <1>3, <1>4, <1>5, <1>6 DEF StoreRequest, StorePayment

\* The COMMIT of a clearing is the clearing.
LEMMA CommitClear ==
  ASSUME LocksInvariant, NEW s \in Sessions, CommitTx(s), HasCleared(tx[s])
  PROVE  tx[s].payment \in Requests /\ ClearPayment(tx[s].payment)
<1> DEFINE t == tx[s]
           r == t.payment
<1>1. /\ TypeOK /\ r \in Requests /\ t.op = "clear" /\ t.funds = Zero
      /\ payment[r].status = "validated" /\ Amount(r) \in Int
  BY AmountType, Preconditions DEF LocksInvariant, MoneyInvariant, HasCleared, HasPayment
<1>2. balance' = balance /\ UNCHANGED <<active, ledger, reply>>
  BY <1>1, OwnColumns DEF CommitTx
<1>3. Commit(r, t.row) /\ outbox' = outbox \cup Announcement(r, t.row.status)
      /\ reserved' = OwnReserved(s)
  BY DEF CommitTx
<1>4. ASSUME NEW reason \in ReasonText, t.holds = Zero,
             t.row = Cleared(r, "clearing_failed", reason)
      PROVE  FailClearing(r, reason)
  <2>1. t.row.status = "failed"
    BY <1>1, <1>4, ClearedRowType
  <2>2. outbox' = outbox
    BY <1>3, <2>1, Announcements
  <2>3. reserved' = reserved
    BY <1>1, <1>3, <1>4, OwnColumns
  <2> QED
    BY <1>3, <1>4, <2>2, <2>3 DEF FailClearing
<1>5. ASSUME CreditorSeen(r), NEW a \in Reservable(r), Added(t, t.holds, a, Amount(r)),
             t.row = Cleared(r, "clearing_passed", "")
      PROVE  PassClearing(r)
  <2>1. t.row.status = "awaiting_response"
    BY <1>1, <1>5, ClearedRowType DEF ReasonText
  <2>2. outbox' = outbox \cup {<<r, "payment.cleared">>}
    BY <1>3, <2>1, Announcements
  <2>3. Reservable(r) = {a} /\ a \in Accounts
    BY <1>1, OneRow
  <2>4. reserved' = Update(reserved, {a}, Amount(r))
    BY <1>1, <1>3, <1>5, <2>3, OwnColumns DEF Added
  <2> QED
    BY <1>3, <1>5, <2>2, <2>3, <2>4 DEF PassClearing
<1>6. /\ "creditor account does not exist or is inactive" \in ReasonText
      /\ "debtor account has insufficient available funds or is inactive" \in ReasonText
  BY DEF ReasonText
<1>7. CASE /\ CreditorMissed(r) /\ t.holds = Zero
           /\ t.row = Cleared(r, "clearing_failed",
                              "creditor account does not exist or is inactive")
  BY <1>1, <1>2, <1>4, <1>6, <1>7 DEF ClearPayment
<1>8. CASE /\ CreditorSeen(r) /\ DebtorMissed(r) /\ t.holds = Zero
           /\ t.row = Cleared(r, "clearing_failed",
                        "debtor account has insufficient available funds or is inactive")
  BY <1>1, <1>2, <1>4, <1>6, <1>8 DEF ClearPayment
<1>9. CASE /\ CreditorSeen(r)
           /\ \E a \in Reservable(r) : Added(t, t.holds, a, Amount(r))
           /\ t.row = Cleared(r, "clearing_passed", "")
  BY <1>1, <1>2, <1>5, <1>9 DEF ClearPayment
<1> QED
  BY <1>1, <1>7, <1>8, <1>9 DEF HasCleared

\* The COMMIT of an acceptance is the acceptance.
LEMMA CommitAccept ==
  ASSUME LocksInvariant, NEW s \in Sessions, CommitTx(s), HasAccepted(tx[s])
  PROVE  tx[s].payment \in Requests /\ AcceptPayment(tx[s].payment)
<1> DEFINE t == tx[s]
           r == t.payment
<1>1. /\ TypeOK /\ r \in Requests /\ t.op = "accept" /\ Untouched(t)
      /\ payment[r].status = "awaiting_response"
      /\ t.row = applyPaymentEvent(payment[r], "receiver_accepted", "")
  BY Preconditions
  DEF LocksInvariant, MoneyInvariant, HasAccepted, HasOnlyPayment, HasPayment
<1>2. balance' = balance /\ reserved' = reserved /\ UNCHANGED <<active, ledger, reply>>
  BY <1>1, OwnColumns DEF CommitTx, Untouched
<1>3. Commit(r, t.row) /\ outbox' = outbox \cup Announcement(r, t.row.status)
  BY DEF CommitTx
<1>4. t.row.status = "accepted"
  BY <1>1, AnsweredRowType DEF ReasonText
<1>5. outbox' = outbox \cup {<<r, "payment.accepted">>}
  BY <1>3, <1>4, Announcements
<1> QED
  BY <1>1, <1>2, <1>3, <1>5 DEF AcceptPayment

\* The COMMIT of a rejection is the rejection, with one of the caller's texts.
LEMMA CommitReject ==
  ASSUME LocksInvariant, NEW s \in Sessions, CommitTx(s), InRejection(tx[s])
  PROVE  /\ tx[s].payment \in Requests
         /\ \E text \in Reasons : RejectPayment(tx[s].payment, text)
<1> DEFINE t == tx[s]
           r == t.payment
<1>1. t.at = "commit"
  BY DEF CommitTx
<1>2. /\ TypeOK /\ r \in Requests /\ t.op = "reject" /\ t.funds = Zero
      /\ payment[r].status = "awaiting_response" /\ Amount(r) \in Int /\ -Amount(r) \in Int
  BY <1>1, AmountType, Preconditions DEF LocksInvariant, MoneyInvariant, InRejection, HasPayment
<1>3. PICK text \in Reasons :
        t.row = applyPaymentEvent(payment[r], "receiver_rejected",
                                  IF text = "" THEN "receiver rejected payment" ELSE text)
  BY DEF InRejection
<1>4. PICK a \in Releasable(r) : Added(t, t.holds, a, -Amount(r))
  BY <1>1 DEF InRejection
<1>5. balance' = balance /\ UNCHANGED <<active, ledger, reply>>
  BY <1>2, OwnColumns DEF CommitTx
<1>6. Commit(r, t.row) /\ outbox' = outbox \cup Announcement(r, t.row.status)
      /\ reserved' = OwnReserved(s)
  BY DEF CommitTx
<1>7. t.row.status = "failed"
  <2>1. (IF text = "" THEN "receiver rejected payment" ELSE text) \in ReasonText
    BY DEF ReasonText
  <2> QED
    BY <1>2, <1>3, <2>1, AnsweredRowType
<1>8. outbox' = outbox
  BY <1>6, <1>7, Announcements
<1>9. Releasable(r) = {a} /\ a \in Accounts
  BY <1>2, OneRow
<1>10. reserved' = Update(reserved, {a}, -Amount(r))
  BY <1>2, <1>4, <1>6, <1>9, OwnColumns DEF Added
<1>11. RejectPayment(r, text)
  BY <1>2, <1>3, <1>5, <1>6, <1>8, <1>9, <1>10 DEF RejectPayment
<1> QED
  BY <1>2, <1>11

\* The COMMIT of a settlement is the settlement.
LEMMA CommitSettle ==
  ASSUME LocksInvariant, NEW s \in Sessions, CommitTx(s), HasSettled(tx[s])
  PROVE  tx[s].payment \in Requests /\ SettlePayment(tx[s].payment)
<1> DEFINE t == tx[s]
           r == t.payment
<1>1. /\ TypeOK /\ r \in Requests /\ t.op = "settle" /\ payment[r].status = "accepted"
      /\ Amount(r) \in Int /\ -Amount(r) \in Int
      /\ t.row = applyPaymentEvent(applyPaymentEvent(payment[r], "settlement_started", ""),
                                   "settlement_completed", "")
  BY AmountType, Preconditions DEF LocksInvariant, MoneyInvariant, HasSettled, HasPayment
<1>2. PICK a \in Debitable(r), c \in Creditable(r) :
        /\ Added(t, t.holds, a, -Amount(r))
        /\ t.funds = [[Zero EXCEPT ![a] = -Amount(r)] EXCEPT ![c] = @ + Amount(r)]
        /\ balance[c] + t.funds[c] <= MaxCents
  BY DEF HasSettled
<1>3. /\ Debitable(r) = {a} /\ a \in Accounts
      /\ Creditable(r) = {c} /\ c \in Accounts
  BY <1>1, OneRow
<1>4. /\ Commit(r, t.row) /\ outbox' = outbox \cup Announcement(r, t.row.status)
      /\ balance' = OwnBalance(s) /\ reserved' = OwnReserved(s)
      /\ recordLedgerTransaction(r) /\ UNCHANGED <<active, reply>>
  BY <1>1 DEF CommitTx
<1>5. t.row.status = "settled"
  BY <1>1, SettledRowType
<1>6. outbox' = outbox
  BY <1>4, <1>5, Announcements
<1>7. reserved' = ReservedAfter(r)
  <2>1. t.holds = [Zero EXCEPT ![a] = -Amount(r)]
    BY <1>2 DEF Added
  <2>2. \A delta \in Int : t.holds = [Zero EXCEPT ![a] = delta]
                             => OwnReserved(s) = Update(reserved, {a}, delta)
    BY <1>1, <1>3, OwnColumns
  <2>3. OwnReserved(s) = Update(reserved, {a}, -Amount(r))
    BY <1>1, <2>1, <2>2
  <2> QED
    BY <1>3, <1>4, <2>3 DEF ReservedAfter
<1>8. OwnBalance(s) = BalanceAfter(r)
  <2> DEFINE amount == Amount(r)
             moved == [[Zero EXCEPT ![a] = -amount] EXCEPT ![c] = @ + amount]
  <2>1. \A b \in Accounts : balance[b] \in Int
    BY <1>1 DEF TypeOK
  <2>2. t.funds = moved /\ amount \in Int /\ -amount \in Int
    BY <1>1, <1>2
  <2>3. BalanceAfter(r) = Update(Update(balance, {a}, -amount), {c}, amount)
    BY <1>3 DEF BalanceAfter
  <2> HIDE DEF amount
  <2>4. \A b \in Accounts : moved[b] = (IF b = a THEN -amount ELSE 0)
                                          + (IF b = c THEN amount ELSE 0)
    BY <1>3, <2>2 DEF Zero
  <2> HIDE DEF moved
  <2>5. \A b \in Accounts : BalanceAfter(r)[b] = balance[b] + t.funds[b]
    BY <2>1, <2>2, <2>3, <2>4 DEF Update
  <2> QED
    BY <2>5 DEF OwnBalance, BalanceAfter, Update
<1>9. \A x \in Creditable(r) : BalanceAfter(r)[x] <= MaxCents
  <2>1. OwnBalance(s)[c] <= MaxCents
    BY <1>2, <1>3 DEF OwnBalance
  <2> QED
    BY <1>3, <1>8, <2>1
<1> QED
  BY <1>1, <1>3, <1>4, <1>6, <1>7, <1>8, <1>9 DEF SettlePayment

\* A COMMIT is one operation of the rail.
LEMMA CommitIsOperation ==
  ASSUME LocksInvariant, NEW s \in Sessions, CommitTx(s)
  PROVE  /\ tx[s].payment \in Requests /\ [Next]_vars
         /\ HasInserted(tx[s]) \/ HasPayment(tx[s])
<1>1. TransactionsOK
  BY DEF LocksInvariant
<1>2. UpToDate(tx[s]) /\ tx[s].at = "commit"
  BY <1>1, OpenTx DEF CommitTx
<1>3. CASE HasInserted(tx[s])
  BY <1>3, CommitSubmit DEF Next, SubmitPayment
<1>4. CASE HasCleared(tx[s])
  BY <1>4, CommitClear DEF Next, HasCleared
<1>5. CASE HasAccepted(tx[s])
  BY <1>5, CommitAccept DEF Next, HasAccepted, HasOnlyPayment
<1>6. CASE InRejection(tx[s])
  BY <1>2, <1>6, CommitReject DEF Next, InRejection
<1>7. CASE HasSettled(tx[s])
  BY <1>7, CommitSettle DEF Next, HasSettled
<1> QED
  BY <1>2, <1>3, <1>4, <1>5, <1>6, <1>7, Stages

\* A COMMIT leaves the transactions of the others up to date: what they have locked is
\* not what it writes.
LEMMA CommitKeeps ==
  ASSUME LocksInvariant, NEW s \in Sessions, CommitTx(s)
  PROVE  TransactionsOK'
<1> DEFINE r == tx[s].payment
<1>1. /\ TransactionsOK /\ MoneyInvariant /\ PastAmounts /\ TypeOK
      /\ tx \in [Sessions -> Transaction] /\ Exclusive
  BY DEF LocksInvariant, MoneyInvariant, TransactionsOK
<1>2. /\ r \in Requests /\ [Next]_vars
      /\ HasInserted(tx[s]) \/ HasPayment(tx[s])
  BY CommitIsOperation
<1>3. UpToDate(tx[s])
  BY <1>1, OpenTx
<1>4. tx' = [tx EXCEPT ![s] = NoTx]
  BY DEF CommitTx, Rollback, Set
<1>5. /\ payment' = [payment EXCEPT ![r] = tx[s].row]
      /\ balance' = OwnBalance(s) /\ reserved' = OwnReserved(s) /\ active' = active
      /\ \A q \in Requests : q # r => ledger'[q] = ledger[q]
  BY <1>1 DEF CommitTx, Commit, recordLedgerTransaction, TypeOK
<1>6. \A q \in Requests : q # r => payment'[q] = payment[q]
  BY <1>1, <1>5 DEF TypeOK
<1>7. ASSUME NEW u \in Sessions, u # s, NEW t, t = tx[u] PROVE UpToDate(t)'
  <2>1. UpToDate(t)
    BY <1>1, <1>7, OpenTx
  <2>2. \A lock \in tx[s].locks : lock \notin t.locks
    BY <1>1, <1>7 DEF Exclusive, Free
  <2>3. ASSUME HasPayment(t)
        PROVE  /\ payment'[t.payment] = payment[t.payment]
               /\ ledger'[t.payment] = ledger[t.payment]
               /\ DebtorMissed(t.payment) => DebtorMissed(t.payment)'
    <3>1. /\ t.payment \in Requests /\ PaymentLock(t.payment) \in t.locks
          /\ payment[t.payment].status # "none"
      BY <2>3, Preconditions DEF HasPayment
    <3>2. t.payment # r
      <4>1. CASE HasPayment(tx[s])
        BY <2>2, <3>1, <4>1 DEF HasPayment
      <4>2. CASE HasInserted(tx[s])
        <5>1. payment[r] = NoRow
          BY <1>2, <4>2 DEF HasInserted, UETRTaken, Stored
        <5>2. NoRow.status = "none"
          BY DEF NoRow
        <5> QED
          BY <3>1, <5>1, <5>2
      <4> QED
        BY <1>2, <4>1, <4>2
    <3>3. DebtorMissed(t.payment) => DebtorMissed(t.payment)'
      BY <1>1, <1>2, <3>1, MissedStays
    <3> QED
      BY <1>5, <1>6, <3>1, <3>2, <3>3
  <2>4. ASSUME HasInserted(t) PROVE ~UETRTaken(t.payment)'
    <3>1. /\ t.payment \in Requests /\ ~UETRTaken(t.payment)
          /\ UETRLock(t.payment) \in t.locks
      BY <2>4 DEF HasInserted
    <3>2. SUFFICES ASSUME NEW q \in Requests, payment'[q] # NoRow,
                          Doc[q].UETR = Doc[t.payment].UETR
                   PROVE  FALSE
      BY DEF UETRTaken, Stored, NoRow
    <3>3. q \notin Stored
      BY <3>1, <3>2 DEF UETRTaken
    <3>4. q = r /\ payment[r] = NoRow
      BY <1>6, <3>2, <3>3 DEF Stored
    <3>5. ~HasPayment(tx[s])
      <4>1. NoRow.status = "none"
        BY DEF NoRow
      <4> QED
        BY <3>4, <4>1, Preconditions DEF HasPayment
    <3>6. UETRLock(r) \in tx[s].locks
      BY <1>2, <3>5 DEF HasInserted
    <3> QED
      BY <2>2, <3>1, <3>2, <3>4, <3>6 DEF UETRLock
  <2>5. ASSUME NEW a \in Accounts, AccountLock(a) \in t.locks
        PROVE  balance'[a] = balance[a] /\ reserved'[a] = reserved[a] /\ active'[a] = active[a]
    <3>1. tx[s].funds[a] = 0 /\ tx[s].holds[a] = 0
      BY <1>3, <2>2, <2>5, AddsToLocked
    <3>2. balance[a] \in Int /\ reserved[a] \in Int
      BY <1>1 DEF TypeOK
    <3>3. /\ balance'[a] = balance[a] + tx[s].funds[a]
          /\ reserved'[a] = reserved[a] + tx[s].holds[a]
      BY <1>5 DEF OwnBalance, OwnReserved
    <3>4. active'[a] = active[a]
      BY <1>5
    <3> QED
      BY <3>1, <3>2, <3>3, <3>4
  <2>6. \A a \in Accounts \ Suspendable : active'[a] = active[a]
    BY <1>5
  <2> QED
    BY <2>1, <2>3, <2>4, <2>5, <2>6, StaysUpToDate
<1>8. UpToDate(tx[s])'
  <2>1. tx'[s] = NoTx
    BY <1>1, <1>4
  <2>2. UpToDate(NoTx)'
    BY DEF UpToDate, Beginning, NoTx
  <2> QED
    BY <2>1, <2>2
<1>9. \A u \in Sessions : u # s => UpToDate(tx[u])'
  <2>1. \A u \in Sessions : u # s => tx'[u] = tx[u]
    BY <1>1, <1>4
  <2>2. \A u \in Sessions : \A t : u # s /\ t = tx[u] => UpToDate(t)'
    BY <1>7
  <2> QED
    BY <2>1, <2>2
<1>10. tx' \in [Sessions -> Transaction] /\ Exclusive'
  <2>1. NoTx \in Transaction /\ NoTx.locks = {}
    BY NoTxSound
  <2>2. \A u \in Sessions : tx'[u] = IF u = s THEN NoTx ELSE tx[u]
    BY <1>1, <1>4
  <2> QED
    BY <1>1, <1>4, <2>1, <2>2 DEF Exclusive, Free
<1> QED
  BY <1>8, <1>9, <1>10 DEF TransactionsOK

\* Someone else changes the status of an account that nobody has locked.
LEMMA StatusKeeps ==
  ASSUME LocksInvariant, NEW a \in Suspendable, SetStatus(a)
  PROVE  [Next]_vars /\ TransactionsOK'
<1>1. /\ TransactionsOK /\ TypeOK /\ tx \in [Sessions -> Transaction] /\ Exclusive
      /\ \A s \in Sessions : UpToDate(tx[s])
  BY DEF LocksInvariant, MoneyInvariant, TransactionsOK
<1>2. /\ UNCHANGED <<payment, balance, reserved, ledger, tx>>
      /\ \A b \in Accounts : b # a => active'[b] = active[b]
  BY <1>1 DEF SetStatus, SetAccountStatus, TypeOK
<1>3. Next
  BY DEF SetStatus, Next
<1>4. \A r : DebtorMissed(r) => DebtorMissed(r)'
  <2>1. \A b \in Accounts : CameTo(b)' = CameTo(b)
    BY <1>2 DEF CameTo, Debtor, Creditor, AccountRow
  <2> QED
    BY <1>2, <2>1 DEF DebtorMissed, Debtor, AccountRow, Amounts, Amount
<1>5. \A r : UETRTaken(r)' = UETRTaken(r)
  BY <1>2 DEF UETRTaken, Stored
<1>6. \A v : /\ UpToDate(v)
             /\ \A b \in Accounts : AccountLock(b) \in v.locks => b # a
             => UpToDate(v)'
  <2> SUFFICES ASSUME NEW v, UpToDate(v),
                      \A b \in Accounts : AccountLock(b) \in v.locks => b # a
               PROVE  UpToDate(v)'
    OBVIOUS
  <2>1. HasInserted(v) => ~UETRTaken(v.payment)'
    BY <1>5 DEF HasInserted
  <2>2. DebtorMissed(v.payment) => DebtorMissed(v.payment)'
    BY <1>4
  <2> QED
    BY <1>2, <2>1, <2>2, StaysUpToDate
<1>7. ASSUME NEW s \in Sessions PROVE UpToDate(tx[s])'
  <2>1. \A b \in Accounts : AccountLock(b) \in tx[s].locks => b # a
    BY DEF SetStatus
  <2> QED
    BY <1>1, <1>2, <1>6, <2>1
<1>8. tx' \in [Sessions -> Transaction] /\ Exclusive'
  BY <1>1, <1>2 DEF Exclusive, Free
<1> QED
  BY <1>3, <1>7, <1>8 DEF TransactionsOK

-----------------------------------------------------------------------------
(* The theorems                                                             *)

\* The invariant holds before the first transaction.
LEMMA LocksStart == LocksInit => LocksInvariant
<1> SUFFICES ASSUME LocksInit PROVE LocksInvariant
  OBVIOUS
<1>1. Init /\ MoneyInvariant
  BY MoneyInit DEF LocksInit
<1>2. NoRow.status = "none"
  BY DEF NoRow
<1>3. PastAmounts
  BY <1>1, <1>2 DEF PastAmounts, Init
<1>4. tx = [s \in Sessions |-> NoTx]
  BY DEF LocksInit
<1>5. NoTx \in Transaction /\ NoTx.locks = {} /\ UpToDate(NoTx)
  BY NoTxSound DEF UpToDate, Beginning, NoTx
<1>6. TransactionsOK
  BY <1>4, <1>5 DEF TransactionsOK, Exclusive
<1> QED
  BY <1>1, <1>3, <1>6 DEF LocksInvariant

\* Every step of the transactions is a step of the rail, or none, and keeps the invariant.
LEMMA LocksStep == LocksInvariant /\ [LocksNext]_lockVars => [Next]_vars /\ LocksInvariant'
<1> SUFFICES ASSUME LocksInvariant, [LocksNext]_lockVars
             PROVE  [Next]_vars /\ LocksInvariant'
  OBVIOUS
<1>1. ASSUME NEW s \in Sessions, Statements(s) PROVE [Next]_vars /\ TransactionsOK'
  BY <1>1, StatementStep
<1>2. ASSUME NEW s \in Sessions, NEW op \in Operations, NEW r \in Requests, Begin(s, op, r)
      PROVE  [Next]_vars /\ TransactionsOK'
  BY <1>1, <1>2 DEF Statements
<1>3. ASSUME NEW s \in Sessions, Proceed(s) PROVE [Next]_vars /\ TransactionsOK'
  <2>1. CASE CommitTx(s)
    BY <2>1, CommitIsOperation, CommitKeeps
  <2>2. CASE ~CommitTx(s)
    BY <1>1, <1>3, <2>2 DEF Statements, Proceed
  <2> QED
    BY <2>1, <2>2
<1>4. ASSUME NEW s \in Sessions, Fail(s) \/ BreakDeadlock(s)
      PROVE  [Next]_vars /\ TransactionsOK'
  BY <1>1, <1>4 DEF Statements, Fail, BreakDeadlock
<1>5. ASSUME NEW a \in Suspendable, SetStatus(a) PROVE [Next]_vars /\ TransactionsOK'
  BY <1>5, StatusKeeps
<1>6. ASSUME UNCHANGED lockVars PROVE [Next]_vars /\ TransactionsOK'
  <2>1. UNCHANGED vars /\ tx' = tx
    BY <1>6 DEF lockVars
  <2>2. UNCHANGED <<payment, balance, reserved, active, ledger>>
    BY <2>1 DEF vars
  <2>3. \A t : UpToDate(t) => UpToDate(t)'
    BY <2>2, QuietKeeps
  <2>4. ASSUME NEW s \in Sessions PROVE UpToDate(tx[s])'
    <3>1. UpToDate(tx[s])
      BY DEF LocksInvariant, TransactionsOK
    <3>2. ASSUME NEW t, t = tx[s] PROVE UpToDate(t)'
      BY <2>3, <3>1, <3>2
    <3> QED
      BY <2>1, <3>2
  <2>5. tx' \in [Sessions -> Transaction] /\ Exclusive'
    BY <2>1 DEF LocksInvariant, TransactionsOK, Exclusive, Free
  <2> QED
    BY <2>1, <2>4, <2>5 DEF TransactionsOK
<1>7. [Next]_vars /\ TransactionsOK'
  BY <1>2, <1>3, <1>4, <1>5, <1>6 DEF LocksNext
<1>8. MoneyInvariant' /\ PastAmounts'
  BY <1>7, MoneyStep, PastAmountsStep DEF LocksInvariant
<1> QED
  BY <1>7, <1>8 DEF LocksInvariant

\* What is true of the transactions between their statements, under any interleaving.
THEOREM LocksInvariantHolds == LocksSpec => []LocksInvariant
<1>1. LocksInvariant /\ [LocksNext]_lockVars => LocksInvariant'
  BY LocksStep
<1> QED
  BY LocksStart, <1>1, PTL DEF LocksSpec

\* READ COMMITTED with the row locks that the code takes is enough: whatever statements of
\* other transactions come between, a COMMIT is one operation of PaymentRail and nothing
\* else shows.
THEOREM TransactionsImplementRail == LocksSpec => ImplementsRail
<1>1. LocksInit => Init
  BY DEF LocksInit
<1>2. LocksInvariant /\ [LocksNext]_lockVars => [Next]_vars
  BY LocksStep
<1> QED
  BY <1>1, <1>2, LocksInvariantHolds, PTL DEF LocksSpec, ImplementsRail, Spec

\* A row has one holder, nothing is locked before the first statement, and what is added to
\* an account is added to a row that is locked.
THEOREM RowsAreLocked == LocksSpec => []LocksOK
<1>1. LocksInvariant => LocksOK
  <2> SUFFICES ASSUME LocksInvariant, NEW s \in Sessions
               PROVE  /\ \A lock \in tx[s].locks : Free(s, lock)
                      /\ tx[s].at \in {"none", "insert", "payment"} => tx[s] = [NoTx EXCEPT
                           !.op = tx[s].op, !.payment = tx[s].payment, !.at = tx[s].at]
                      /\ \A a \in Accounts : tx[s].funds[a] # 0 \/ tx[s].holds[a] # 0
                                               => AccountLock(a) \in tx[s].locks
    BY DEF LocksOK
  <2>1. /\ tx[s] \in Transaction /\ UpToDate(tx[s])
        /\ \A lock \in tx[s].locks : Free(s, lock)
    BY OpenTx DEF LocksInvariant
  <2>2. tx[s].at \in {"none", "insert", "payment"} => Beginning(tx[s])
    BY <2>1 DEF UpToDate, HasInserted, InClearing, HasCleared, HasAccepted, InRejection,
                InSettlement, HasSettled
  <2>3. \A a \in Accounts : tx[s].funds[a] # 0 \/ tx[s].holds[a] # 0
                              => AccountLock(a) \in tx[s].locks
    BY <2>1, AddsToLocked
  <2> QED
    BY <2>1, <2>2, <2>3 DEF Beginning
<1> QED
  BY <1>1, LocksInvariantHolds, PTL

\* A rejection always finds the reservation that it gives back, and a settlement the money
\* that it pays unless an account is suspended, in the middle of other transactions too.
THEOREM HeldMoneyFound == LocksSpec => []HeldMoneyIsFound
<1>1. LocksInvariant => HeldMoneyIsFound
  <2> SUFFICES ASSUME LocksInvariant, NEW s \in Sessions, Debiting(s)
               PROVE  /\ tx[s].op = "reject" => Found(s) # {}
                      /\ tx[s].op = "settle" =>
                           Found(s) # {} \/ \E a \in Subject(s) : ~active[a]
    BY DEF HeldMoneyIsFound
  <2> DEFINE r == tx[s].payment
  <2>1. UpToDate(tx[s]) /\ TypeOK
    BY OpenTx DEF LocksInvariant, MoneyInvariant
  <2>2. HasOnlyPayment(tx[s])
    BY <2>1, Stages DEF Debiting
  <2>3. /\ r \in Requests /\ Untouched(tx[s])
        /\ tx[s].op \in {"reject", "settle"} => Held(r)
    BY <2>2, Preconditions DEF HasOnlyPayment, HasPayment, Held
  <2>4. Held(r) => /\ Releasable(r) # {}
                   /\ \E a \in Debtor(r) : reserved[a] >= Amount(r) /\ balance[a] >= Amount(r)
    BY <2>3, FundsForHeld DEF LocksInvariant, HeldFundsSuffice
  <2>5. ASSUME tx[s].op = "reject" PROVE Found(s) # {}
    BY <2>1, <2>3, <2>4, <2>5, FoundRows
  <2>6. ASSUME tx[s].op = "settle" PROVE Found(s) # {} \/ \E a \in Subject(s) : ~active[a]
    <3>1. Found(s) = Debitable(r) /\ Subject(s) = Debtor(r)
      BY <2>1, <2>3, <2>6, FoundRows DEF Subject
    <3>2. PICK a \in Debtor(r) : reserved[a] >= Amount(r) /\ balance[a] >= Amount(r)
      BY <2>3, <2>4, <2>6
    <3> QED
      BY <3>1, <3>2 DEF Debitable
  <2> QED
    BY <2>5, <2>6
<1> QED
  BY <1>1, LocksInvariantHolds, PTL

\* What a transaction waits for, by the statement it is at.
LEMMA WaitingFor ==
  ASSUME TransactionsOK, NEW s \in Sessions
  PROVE  /\ Wants(s) # {} /\ tx[s].locks # {} /\ tx[s].op # "settle" =>
              /\ tx[s].payment \in Requests
              /\ tx[s].locks = {PaymentLock(tx[s].payment)}
         /\ \A r \in Requests : PaymentLock(r) \in Wants(s) => tx[s].locks = {}
<1>1. UpToDate(tx[s])
  BY OpenTx
<1>2. CASE tx[s].at \in {"insert", "payment"}
  BY <1>1, <1>2, Stages
<1>3. CASE Awaiting(s)
  <2>1. tx[s].payment \in Requests
    BY <1>1, <1>3, Stages DEF Awaiting, HasOnlyPayment, HasPayment, InSettlement
  <2>2. Wants(s) = {AccountLock(a) : a \in Subject(s)} /\ Subject(s) \in SUBSET Accounts
    BY <1>3, <2>1 DEF Wants, Awaiting, Subject, Debtor, Creditor, AccountRow
  <2>3. \A r \in Requests : PaymentLock(r) \notin Wants(s)
    BY <2>2, LocksDiffer
  <2>4. tx[s].op # "settle" => tx[s].locks = {PaymentLock(tx[s].payment)}
    BY <1>1, <1>3, Stages DEF Awaiting, HasOnlyPayment, InSettlement
  <2> QED
    BY <2>1, <2>3, <2>4
<1>4. CASE ~Awaiting(s) /\ tx[s].at \notin {"insert", "payment"}
  BY <1>4 DEF Wants
<1> QED
  BY <1>2, <1>3, <1>4

\* A POST, a clearing or a response is never on a cycle of waiting: when it waits it holds
\* its payment's row at most, and who waits for that holds nothing.
THEOREM DeadlocksAreSettlements == LocksSpec => []OnlySettlementsDeadlock
<1>1. LocksInvariant => OnlySettlementsDeadlock
  <2> SUFFICES ASSUME TransactionsOK, NEW s \in Sessions, Deadlocked(s),
                      tx[s].op # "settle"
               PROVE  FALSE
    BY DEF LocksInvariant, OnlySettlementsDeadlock
  <2>1. PICK ring \in SUBSET Sessions :
          /\ s \in ring
          /\ \A t \in ring : \E u \in ring : WaitsFor(t, u)
          /\ \A t \in ring : Cardinality({u \in ring : WaitsFor(u, t)}) = 1
    BY DEF Deadlocked
  <2>2. \A t \in ring : \E u \in ring : WaitsFor(u, t)
    <3> SUFFICES ASSUME NEW t \in ring, {u \in ring : WaitsFor(u, t)} = {} PROVE FALSE
      OBVIOUS
    <3>1. Cardinality({u \in ring : WaitsFor(u, t)}) = 0
      BY FS_EmptySet
    <3> QED
      BY <2>1, <3>1
  <2>3. PICK v \in ring : WaitsFor(v, s)
    BY <2>1, <2>2
  <2>4. Wants(s) # {} /\ Wants(v) \cap tx[s].locks # {}
    BY <2>1, <2>3 DEF WaitsFor
  <2>5. tx[s].payment \in Requests /\ tx[s].locks = {PaymentLock(tx[s].payment)}
    BY <2>4, WaitingFor
  <2>6. PaymentLock(tx[s].payment) \in Wants(v)
    BY <2>4, <2>5
  <2>7. tx[v].locks = {}
    BY <2>5, <2>6, WaitingFor
  <2> QED
    BY <2>2, <2>7 DEF WaitsFor
<1> QED
  BY <1>1, LocksInvariantHolds, PTL
=============================================================================
