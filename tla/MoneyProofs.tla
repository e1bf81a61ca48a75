---------------------------- MODULE MoneyProofs ----------------------------
(***************************************************************************)
(* The safety of reserved money, for any finite set of requests, any         *)
(* accounts and any opening balances: reservations are exact, nobody is      *)
(* overdrawn, what a payment holds is there when it is needed, and the rail  *)
(* implements AtomicTransfer.                                               *)
(***************************************************************************)
EXTENDS PaymentRailProofs

\* A payment that may still move money passed validation, so its amount is not negative
\* (it may be 0: a value below half a cent is rounded to nothing).
LiveAmounts ==
  \A r \in Requests : payment[r].status = "validated" \/ Held(r) => Amount(r) >= 0

\* What is held was found in an account.
HeldHasDebtor == \A r \in Requests : Held(r) => Debtor(r) # {}

\* The inductive invariant.  NoOverdraft alone is not inductive: a release gives back
\* Amount(r), and only ReservationsExact says that this much is still reserved, and only
\* LiveAmounts that giving it back lowers the reservation.
MoneyInvariant ==
  TypeOK /\ ReservationsExact /\ NoOverdraft /\ LiveAmounts /\ HeldHasDebtor

-----------------------------------------------------------------------------
(* Accounts and sums                                                        *)

\* account_id is unique: an operation on r's debtor changes the whole of Debtor(r) as
\* soon as it changes a row of it.
LEMMA OneDebtor ==
  ASSUME NEW r \in Requests, NEW rows \in SUBSET Debtor(r), rows # {}
  PROVE  rows = Debtor(r)
BY DEF Debtor, AccountRow

\* A debtor's rows are accounts.
LEMMA DebtorAccount ==
  ASSUME NEW r \in Requests
  PROVE  Debtor(r) \in SUBSET Accounts
BY DEF Debtor, AccountRow

\* What is held on an account is finite, so it has a total.
LEMMA HeldFinite ==
  \A a : HeldOn(a) \in SUBSET Requests /\ IsFiniteSet(HeldOn(a))
<1>1. \A a : HeldOn(a) \in SUBSET Requests
  BY DEF HeldOn
<1> QED
  BY <1>1, RequestsAssumption, FS_Subset

\* Amounts are integers, and so are their totals.
LEMMA AmountsType ==
  /\ \A r \in Requests : Amounts[r] = Amount(r) /\ Amounts[r] \in Int
  /\ \A a : Total(Amounts, HeldOn(a)) \in Int
<1>1. \A r \in Requests : Amounts[r] = Amount(r) /\ Amounts[r] \in Int
  BY AmountType DEF Amounts
<1>2. ASSUME NEW a PROVE Total(Amounts, HeldOn(a)) \in Int
  <2>1. IsFiniteSet(HeldOn(a)) /\ \A x \in HeldOn(a) : Amounts[x] \in Int
    BY <1>1, HeldFinite
  <2>2. HeldOn(a) \in SUBSET HeldOn(a)
    OBVIOUS
  <2> QED
    BY <2>1, <2>2, TotalType
<1> QED
  BY <1>1, <1>2

\* A payment that begins to hold its amount adds it to its debtor's total.
LEMMA HoldAdds ==
  ASSUME NEW a, NEW r \in Requests, r \notin HeldOn(a)
  PROVE  Total(Amounts, HeldOn(a) \cup {r}) = Total(Amounts, HeldOn(a)) + Amount(r)
<1>1. /\ IsFiniteSet(HeldOn(a))
      /\ \A y \in HeldOn(a) \cup {r} : Amounts[y] \in Int
  BY HeldFinite, AmountsType
<1>2. Total(Amounts, HeldOn(a) \cup {r}) = Total(Amounts, HeldOn(a)) + Amounts[r]
  BY <1>1, TotalAdd
<1> QED
  BY <1>2, AmountsType

\* A payment that stops holding its amount takes it from its debtor's total.
LEMMA EndRemoves ==
  ASSUME NEW a, NEW r \in Requests, r \in HeldOn(a)
  PROVE  Total(Amounts, HeldOn(a) \ {r}) = Total(Amounts, HeldOn(a)) - Amount(r)
<1>1. /\ IsFiniteSet(HeldOn(a)) /\ HeldOn(a) \in SUBSET HeldOn(a)
      /\ \A y \in HeldOn(a) : Amounts[y] \in Int
  BY HeldFinite, AmountsType
<1>2. Total(Amounts, HeldOn(a)) = Amounts[r] + Total(Amounts, HeldOn(a) \ {r})
  BY <1>1, TotalRemove
<1>3. Total(Amounts, HeldOn(a) \ {r}) \in Int
  <2>1. HeldOn(a) \ {r} \in SUBSET HeldOn(a)
    OBVIOUS
  <2> QED
    BY <1>1, <2>1, TotalType
<1> QED
  BY <1>2, <1>3, AmountsType, AmountType

\* Reservations are not negative while every held amount is not.
LEMMA ReservedNonNegative ==
  ASSUME ReservationsExact, LiveAmounts, NEW a \in Accounts
  PROVE  /\ reserved[a] >= 0
         /\ \A r \in HeldOn(a) : Amount(r) <= reserved[a]
<1>1. IsFiniteSet(HeldOn(a)) /\ \A x \in HeldOn(a) : Amounts[x] \in Int /\ Amounts[x] >= 0
  BY HeldFinite, AmountsType DEF LiveAmounts, HeldOn
<1>2. HeldOn(a) \in SUBSET HeldOn(a)
  OBVIOUS
<1>3. Total(Amounts, HeldOn(a)) >= 0
  BY <1>1, <1>2, TotalNonNegative
<1>4. ASSUME NEW r \in HeldOn(a) PROVE Amount(r) <= Total(Amounts, HeldOn(a))
  <2>1. Amounts[r] <= Total(Amounts, HeldOn(a))
    BY <1>1, TotalBoundsElement
  <2> QED
    BY <2>1, HeldFinite, AmountsType
<1> QED
  BY <1>3, <1>4 DEF ReservationsExact

-----------------------------------------------------------------------------
(* Which payments hold money after a step                                   *)

\* A step on r's row leaves the other rows as they are.
LEMMA OtherRows ==
  ASSUME TypeOK, NEW r \in Requests, NEW statuses, Becomes(r, statuses)
  PROVE  /\ payment'[r].status \in statuses
         /\ \A q \in Requests : q # r => payment'[q] = payment[q]
BY DEF TypeOK, Becomes

\* A payment that begins to hold its amount joins the holdings of its debtor.
LEMMA HoldingsGrow ==
  ASSUME TypeOK, NEW r \in Requests, payment[r].status \notin {"awaiting_response", "accepted"},
         Becomes(r, {"awaiting_response"}), NEW a \in Accounts
  PROVE  /\ r \notin HeldOn(a)
         /\ HeldOn(a)' = IF a \in Debtor(r) THEN HeldOn(a) \cup {r} ELSE HeldOn(a)
BY OtherRows DEF HeldOn, Held, Debtor, AccountRow

\* A payment that ends leaves the holdings of its debtor.
LEMMA HoldingsShrink ==
  ASSUME TypeOK, NEW r \in Requests, Held(r),
         Becomes(r, {"failed"}) \/ Becomes(r, {"settled"}), NEW a \in Accounts
  PROVE  /\ r \in HeldOn(a) <=> a \in Debtor(r)
         /\ HeldOn(a)' = IF a \in Debtor(r) THEN HeldOn(a) \ {r} ELSE HeldOn(a)
BY OtherRows DEF HeldOn, Held, Debtor, AccountRow

\* A step between two statuses that hold the same.
LEMMA HoldingsStay ==
  ASSUME TypeOK, NEW r \in Requests, NEW statuses, Becomes(r, statuses),
         \/ ~Held(r) /\ statuses \cap {"awaiting_response", "accepted"} = {}
         \/ Held(r) /\ statuses \subseteq {"awaiting_response", "accepted"},
         NEW a \in Accounts
  PROVE  HeldOn(a)' = HeldOn(a)
BY OtherRows DEF HeldOn, Held, Debtor, AccountRow

-----------------------------------------------------------------------------
(* Each operation keeps the invariant                                       *)

\* The invariant without its types, whose proof is TypeStep.
MoneySafe == ReservationsExact /\ NoOverdraft /\ LiveAmounts /\ HeldHasDebtor

\* A refused POST and a change of an account's status touch no money.
LEMMA UnchangedKeeps ==
  ASSUME MoneyInvariant, UNCHANGED <<payment, balance, reserved>>
  PROVE  MoneySafe'
BY DEF MoneyInvariant, MoneySafe, ReservationsExact, NoOverdraft, LiveAmounts, HeldHasDebtor,
       HeldOn, Held

\* A new payment holds nothing yet.
LEMMA StoreKeeps ==
  ASSUME MoneyInvariant, NEW r \in Requests, StorePayment(r)
  PROVE  MoneySafe'
<1>1. TypeOK
  BY DEF MoneyInvariant
<1>2. /\ ~Held(r) /\ Becomes(r, {"validated", "rejected"})
      /\ payment'[r].status = "validated" => Amount(r) >= 0
      /\ UNCHANGED <<balance, reserved>>
  BY <1>1, StoreEffect DEF Held
<1>3. \A a \in Accounts : HeldOn(a)' = HeldOn(a)
  BY <1>1, <1>2, HoldingsStay
<1>4. ReservationsExact' /\ NoOverdraft'
  BY <1>2, <1>3 DEF MoneyInvariant, ReservationsExact, NoOverdraft
<1>5. LiveAmounts' /\ HeldHasDebtor'
  BY <1>1, <1>2, OtherRows DEF MoneyInvariant, LiveAmounts, HeldHasDebtor, Held
<1> QED
  BY <1>4, <1>5 DEF MoneySafe

\* A clearing that fails changes no money; one that passes reserves what is available.
LEMMA ClearKeeps ==
  ASSUME MoneyInvariant, NEW r \in Requests, ClearPayment(r)
  PROVE  MoneySafe'
<1>1. TypeOK /\ payment[r].status = "validated" /\ UNCHANGED balance
  BY ClearEffect DEF MoneyInvariant
<1>2. ~Held(r) /\ Amount(r) \in Int /\ Amount(r) >= 0
  BY <1>1, AmountType DEF Held, MoneyInvariant, LiveAmounts
<1>3. CASE Becomes(r, {"failed"}) /\ UNCHANGED reserved
  <2>1. \A a \in Accounts : HeldOn(a)' = HeldOn(a)
    BY <1>1, <1>2, <1>3, HoldingsStay
  <2>2. ReservationsExact' /\ NoOverdraft'
    BY <1>1, <1>3, <2>1 DEF MoneyInvariant, ReservationsExact, NoOverdraft
  <2>3. LiveAmounts' /\ HeldHasDebtor'
    BY <1>1, <1>3, OtherRows DEF MoneyInvariant, LiveAmounts, HeldHasDebtor, Held
  <2> QED
    BY <2>2, <2>3 DEF MoneySafe
<1>4. CASE /\ Becomes(r, {"awaiting_response"})
           /\ Reservable(r) # {}
           /\ reserved' = Update(reserved, Reservable(r), Amount(r))
  <2>1. Reservable(r) = Debtor(r) /\ Debtor(r) # {}
    <3>1. Reservable(r) \in SUBSET Debtor(r)
      BY DEF Reservable
    <3> QED
      BY <1>4, <3>1, OneDebtor
  <2>2. \A a \in Accounts :
          reserved'[a] = IF a \in Debtor(r) THEN reserved[a] + Amount(r) ELSE reserved[a]
    BY <1>4, <2>1 DEF Update
  <2>3. ReservationsExact'
    <3> SUFFICES ASSUME NEW a \in Accounts PROVE reserved'[a] = Total(Amounts, HeldOn(a)')
      BY DEF ReservationsExact, Amounts
    <3>1. reserved[a] = Total(Amounts, HeldOn(a))
      BY DEF MoneyInvariant, ReservationsExact
    <3>2. r \notin HeldOn(a)
          /\ HeldOn(a)' = IF a \in Debtor(r) THEN HeldOn(a) \cup {r} ELSE HeldOn(a)
      BY <1>1, <1>4, HoldingsGrow
    <3>3. Total(Amounts, HeldOn(a) \cup {r}) = Total(Amounts, HeldOn(a)) + Amount(r)
      BY <3>2, HoldAdds
    <3> QED
      BY <2>2, <3>1, <3>2, <3>3
  <2>4. NoOverdraft'
    <3>1. \A a \in Debtor(r) : balance[a] - reserved[a] >= Amount(r)
      BY <2>1 DEF Reservable
    <3>2. \A a \in Accounts : balance[a] \in Int /\ reserved[a] \in Int
      BY <1>1 DEF TypeOK
    <3> QED
      BY <1>1, <1>2, <2>2, <3>1, <3>2 DEF MoneyInvariant, NoOverdraft
  <2>5. LiveAmounts' /\ HeldHasDebtor'
    BY <1>1, <1>2, <1>4, <2>1, OtherRows DEF MoneyInvariant, LiveAmounts, HeldHasDebtor, Held
  <2> QED
    BY <2>3, <2>4, <2>5 DEF MoneySafe
<1> QED
  BY <1>1, <1>3, <1>4, ClearEffect

\* Accepting a payment changes no money.
LEMMA AcceptKeeps ==
  ASSUME MoneyInvariant, NEW r \in Requests, AcceptPayment(r)
  PROVE  MoneySafe'
<1>1. TypeOK
  BY DEF MoneyInvariant
<1>2. Held(r) /\ Becomes(r, {"accepted"}) /\ UNCHANGED <<balance, reserved>>
  BY <1>1, AcceptEffect DEF Held
<1>3. \A a \in Accounts : HeldOn(a)' = HeldOn(a)
  BY <1>1, <1>2, HoldingsStay
<1>4. ReservationsExact' /\ NoOverdraft'
  BY <1>2, <1>3 DEF MoneyInvariant, ReservationsExact, NoOverdraft
<1>5. LiveAmounts' /\ HeldHasDebtor'
  BY <1>1, <1>2, OtherRows DEF MoneyInvariant, LiveAmounts, HeldHasDebtor, Held
<1> QED
  BY <1>4, <1>5 DEF MoneySafe

\* A payment that stops holding money takes exactly its amount out of its debtor's
\* reservation; the release and the debit have this in common.
LEMMA EndKeepsExact ==
  ASSUME MoneyInvariant, NEW r \in Requests, Held(r),
         Becomes(r, {"failed"}) \/ Becomes(r, {"settled"}),
         NEW rows \in SUBSET Debtor(r), rows # {},
         reserved' = Update(reserved, rows, -Amount(r))
  PROVE  /\ rows = Debtor(r)
         /\ \A a \in Accounts :
              reserved'[a] = IF a \in Debtor(r) THEN reserved[a] - Amount(r) ELSE reserved[a]
         /\ ReservationsExact' /\ LiveAmounts' /\ HeldHasDebtor'
<1>1. TypeOK
  BY DEF MoneyInvariant
<1>2. rows = Debtor(r)
  BY OneDebtor
<1>3. \A a \in Accounts :
        reserved'[a] = IF a \in Debtor(r) THEN reserved[a] - Amount(r) ELSE reserved[a]
  <2>1. \A a \in Accounts : reserved[a] \in Int
    BY <1>1 DEF TypeOK
  <2>2. Amount(r) \in Int
    BY AmountType
  <2> QED
    BY <1>2, <2>1, <2>2 DEF Update
<1>4. ReservationsExact'
  <2> SUFFICES ASSUME NEW a \in Accounts PROVE reserved'[a] = Total(Amounts, HeldOn(a)')
    BY DEF ReservationsExact, Amounts
  <2>1. reserved[a] = Total(Amounts, HeldOn(a))
    BY DEF MoneyInvariant, ReservationsExact
  <2>2. /\ r \in HeldOn(a) <=> a \in Debtor(r)
        /\ HeldOn(a)' = IF a \in Debtor(r) THEN HeldOn(a) \ {r} ELSE HeldOn(a)
    BY <1>1, HoldingsShrink
  <2>3. r \in HeldOn(a) =>
          Total(Amounts, HeldOn(a) \ {r}) = Total(Amounts, HeldOn(a)) - Amount(r)
    BY EndRemoves
  <2> QED
    BY <1>3, <2>1, <2>2, <2>3
<1>5. LiveAmounts' /\ HeldHasDebtor'
  BY <1>1, OtherRows DEF MoneyInvariant, LiveAmounts, HeldHasDebtor, Held
<1> QED
  BY <1>2, <1>3, <1>4, <1>5

\* A release lowers a reservation, and never below what the other payments hold.
LEMMA RejectKeeps ==
  ASSUME MoneyInvariant, NEW r \in Requests, NEW text \in Reasons, RejectPayment(r, text)
  PROVE  MoneySafe'
<1>1. TypeOK
  BY DEF MoneyInvariant
<1>2. /\ Held(r) /\ Becomes(r, {"failed"}) /\ UNCHANGED balance
      /\ Releasable(r) # {} /\ reserved' = Update(reserved, Releasable(r), -Amount(r))
  BY <1>1, RejectEffect DEF Held
<1>3. Releasable(r) \in SUBSET Debtor(r)
  BY DEF Releasable
<1>4. /\ \A a \in Accounts :
           reserved'[a] = IF a \in Debtor(r) THEN reserved[a] - Amount(r) ELSE reserved[a]
      /\ ReservationsExact' /\ LiveAmounts' /\ HeldHasDebtor'
  BY <1>2, <1>3, EndKeepsExact
<1>5. NoOverdraft'
  <2>1. \A a \in Debtor(r) : reserved[a] >= Amount(r)
    BY <1>2, <1>3, OneDebtor DEF Releasable
  <2>2. Amount(r) \in Int /\ Amount(r) >= 0
    BY <1>2, AmountType DEF MoneyInvariant, LiveAmounts
  <2>3. \A a \in Accounts : balance[a] \in Int /\ reserved[a] \in Int
    BY <1>1 DEF TypeOK
  <2> QED
    BY <1>2, <1>4, <2>1, <2>2, <2>3 DEF MoneyInvariant, NoOverdraft
<1> QED
  BY <1>4, <1>5 DEF MoneySafe

\* A settlement takes as much from the debtor's balance as from its reservation, and
\* gives the creditor more to cover its own.
LEMMA SettleKeeps ==
  ASSUME MoneyInvariant, NEW r \in Requests, SettlePayment(r)
  PROVE  MoneySafe'
<1>1. TypeOK
  BY DEF MoneyInvariant
<1>2. /\ Held(r) /\ Becomes(r, {"settled"}) /\ Debitable(r) # {}
      /\ reserved' = Update(reserved, Debitable(r), -Amount(r))
      /\ balance' = BalanceAfter(r) /\ Amount(r) > 0
  BY <1>1, SettleEffect DEF Held, ReservedAfter
<1>3. Debitable(r) \in SUBSET Debtor(r)
  BY DEF Debitable
<1>4. /\ Debitable(r) = Debtor(r)
      /\ \A a \in Accounts :
           reserved'[a] = IF a \in Debtor(r) THEN reserved[a] - Amount(r) ELSE reserved[a]
      /\ ReservationsExact' /\ LiveAmounts' /\ HeldHasDebtor'
  BY <1>2, <1>3, EndKeepsExact
<1>5. NoOverdraft'
  <2>1. \A a \in Debtor(r) : reserved[a] >= Amount(r)
    BY <1>4 DEF Debitable
  <2>2. Amount(r) \in Int
    BY AmountType
  <2>3. \A a \in Accounts : balance[a] \in Int /\ reserved[a] \in Int
    BY <1>1 DEF TypeOK
  <2>4. \A a \in Accounts :
          balance'[a] >= IF a \in Debtor(r) THEN balance[a] - Amount(r) ELSE balance[a]
    BY <1>2, <1>4, <2>2, <2>3 DEF BalanceAfter, Update
  <2>5. \A a \in Accounts : balance'[a] \in Int
    BY <1>2, <2>2, <2>3 DEF BalanceAfter, Update
  <2> QED
    BY <1>2, <1>4, <2>1, <2>2, <2>3, <2>4, <2>5 DEF MoneyInvariant, NoOverdraft
<1> QED
  BY <1>4, <1>5 DEF MoneySafe

-----------------------------------------------------------------------------
(* The theorems                                                             *)

\* The opening balances hold nothing.
LEMMA MoneyInit == Init => MoneyInvariant
<1> SUFFICES ASSUME Init PROVE MoneyInvariant
  OBVIOUS
<1>1. \A r \in Requests : payment[r].status = "none"
  BY DEF Init, NoRow
<1>2. \A a : HeldOn(a) = {}
  BY <1>1 DEF HeldOn, Held
<1>3. ReservationsExact
  BY <1>2, TotalEmpty DEF Init, ReservationsExact
<1>4. NoOverdraft
  BY OpeningAssumption DEF Init, NoOverdraft
<1>5. LiveAmounts /\ HeldHasDebtor
  BY <1>1 DEF LiveAmounts, HeldHasDebtor, Held
<1> QED
  BY <1>3, <1>4, <1>5, TypeInit DEF MoneyInvariant

\* Every operation keeps the invariant.
LEMMA MoneyStep == MoneyInvariant /\ [Next]_vars => MoneyInvariant'
<1> SUFFICES ASSUME MoneyInvariant, [Next]_vars PROVE MoneyInvariant'
  OBVIOUS
<1>1. TypeOK'
  BY TypeStep DEF MoneyInvariant
<1>2. ASSUME NEW r \in Requests, SubmitPayment(r) PROVE MoneySafe'
  BY <1>2, UnchangedKeeps, StoreKeeps DEF SubmitPayment, RefuseRequest, LoseRequest, StoreRequest
<1>3. ASSUME NEW r \in Requests, ClearPayment(r) PROVE MoneySafe'
  BY <1>3, ClearKeeps
<1>4. ASSUME NEW r \in Requests, AcceptPayment(r) PROVE MoneySafe'
  BY <1>4, AcceptKeeps
<1>5. ASSUME NEW r \in Requests, NEW text \in Reasons, RejectPayment(r, text) PROVE MoneySafe'
  BY <1>5, RejectKeeps
<1>6. ASSUME NEW r \in Requests, SettlePayment(r) PROVE MoneySafe'
  BY <1>6, SettleKeeps
<1>7. ASSUME NEW a \in Suspendable, SetAccountStatus(a) PROVE MoneySafe'
  BY <1>7, UnchangedKeeps DEF SetAccountStatus
<1>8. ASSUME UNCHANGED vars PROVE MoneySafe'
  BY <1>8, UnchangedKeeps DEF vars
<1>9. MoneySafe'
  BY <1>2, <1>3, <1>4, <1>5, <1>6, <1>7, <1>8 DEF Next
<1> QED
  BY <1>1, <1>9 DEF MoneyInvariant, MoneySafe

\* The inductive invariant holds in every reachable state.
THEOREM MoneyInvariantHolds == Spec => []MoneyInvariant
BY MoneyInit, MoneyStep, PTL DEF Spec

\* Whatever the operations, their order and their failures, an account's reservation is
\* the sum of what its payments between clearing and their end hold.
THEOREM ReservationsAreExact == Spec => []ReservationsExact
<1>1. MoneyInvariant => ReservationsExact
  BY DEF MoneyInvariant
<1> QED
  BY <1>1, MoneyInvariantHolds, PTL

\* No account is ever overdrawn, nor promises more than it has.
THEOREM NobodyOverdrawn == Spec => []NoOverdraft
<1>1. MoneyInvariant => NoOverdraft
  BY DEF MoneyInvariant
<1> QED
  BY <1>1, MoneyInvariantHolds, PTL

\* The amount of a payment that holds money is reserved and there, in its debtor's row.
LEMMA FundsForHeld == MoneyInvariant => HeldFundsSuffice
<1> SUFFICES ASSUME MoneyInvariant, NEW r \in Requests, Held(r)
             PROVE  \E a \in Debtor(r) : reserved[a] >= Amount(r) /\ balance[a] >= Amount(r)
  BY DEF HeldFundsSuffice, Releasable
<1>1. PICK a \in Debtor(r) : TRUE
  BY DEF MoneyInvariant, HeldHasDebtor
<1>2. a \in Accounts /\ r \in HeldOn(a)
  BY <1>1, DebtorAccount DEF HeldOn
<1>3. Amount(r) <= reserved[a]
  BY <1>2, ReservedNonNegative DEF MoneyInvariant
<1>4. reserved[a] <= balance[a] /\ reserved[a] \in Int /\ balance[a] \in Int
  BY <1>2 DEF MoneyInvariant, NoOverdraft, TypeOK
<1> QED
  BY <1>1, <1>3, <1>4, AmountType

\* The release and the debit always find the amount they look for in the debtor's row.
THEOREM HeldFundsAreThere == Spec => []HeldFundsSuffice
BY FundsForHeld, MoneyInvariantHolds, PTL

-----------------------------------------------------------------------------
(* The refinement of AtomicTransfer                                         *)

\* The values that the refinement mapping gives to AtomicTransfer's variables.
Progress(r) ==
  CASE payment[r].status \in {"none", "validated"} -> "idle"
    [] Held(r)                                      -> "held"
    [] payment[r].status = "settled"                -> "paid"
    [] OTHER                                        -> "void"

transfer  == [r \in Requests |-> Progress(r)]
available == [a \in Accounts |-> balance[a] - reserved[a]]

\* Progress, by status.
LEMMA ProgressOf ==
  ASSUME NEW r \in Requests
  PROVE  /\ payment[r].status \in {"none", "validated"} => Progress(r) = "idle"
         /\ payment[r].status \in {"awaiting_response", "accepted"} => Progress(r) = "held"
         /\ payment[r].status = "settled" => Progress(r) = "paid"
         /\ payment[r].status \in {"failed", "rejected"} => Progress(r) = "void"
BY DEF Progress, Held

\* The same of the next state.
LEMMA ProgressNext ==
  ASSUME NEW r \in Requests
  PROVE  /\ payment'[r].status \in {"none", "validated"} => Progress(r)' = "idle"
         /\ payment'[r].status \in {"awaiting_response", "accepted"} => Progress(r)' = "held"
         /\ payment'[r].status = "settled" => Progress(r)' = "paid"
         /\ payment'[r].status \in {"failed", "rejected"} => Progress(r)' = "void"
BY DEF Progress, Held

\* A step on r's row moves r's progress only.
LEMMA ProgressMoves ==
  ASSUME TypeOK, NEW r \in Requests, NEW statuses, Becomes(r, statuses)
  PROVE  transfer' = [transfer EXCEPT ![r] = Progress(r)']
<1>1. \A q \in Requests : q # r => payment'[q] = payment[q]
  BY OtherRows
<1>2. \A q \in Requests : q # r => Progress(q)' = Progress(q)
  BY <1>1 DEF Progress, Held
<1> QED
  BY <1>2 DEF transfer

\* account_id is unique: a settlement's credit finds the whole of Creditor(r).
LEMMA OneCreditor ==
  ASSUME NEW r \in Requests, NEW rows \in SUBSET Creditor(r), rows # {}
  PROVE  rows = Creditor(r)
BY DEF Creditor, AccountRow

\* AtomicTransfer's actions, in terms of the mapping.
LEMMA TransferActions ==
  ASSUME NEW r \in Requests
  PROVE  /\ /\ transfer[r] = "idle" /\ transfer' = [transfer EXCEPT ![r] = "held"]
            /\ Debtor(r) # {} /\ Creditor(r) # {}
            /\ \A a \in Debtor(r) : available[a] >= Amount(r)
            /\ available' = Update(available, Debtor(r), -Amount(r))
            => Transfer!Hold(r)
         /\ /\ transfer[r] = "held" /\ transfer' = [transfer EXCEPT ![r] = "paid"]
            /\ Amount(r) > 0
            /\ available' = Update(available, Creditor(r), Amount(r))
            => Transfer!Pay(r)
         /\ /\ transfer[r] = "held" /\ transfer' = [transfer EXCEPT ![r] = "void"]
            /\ available' = Update(available, Debtor(r), Amount(r))
            => Transfer!Release(r)
         /\ /\ transfer[r] = "idle" /\ transfer' = [transfer EXCEPT ![r] = "void"]
            /\ UNCHANGED available
            => Transfer!Refuse(r)
BY DEF transfer, available, Progress, Amounts, Update, Transfer!Hold, Transfer!Pay,
       Transfer!Release, Transfer!Refuse, Transfer!Move, Transfer!Give

-----------------------------------------------------------------------------
(* Steps                                                                    *)

\* A step of the abstract transfer, or none.
TransferStep == (\E r \in Requests : \/ Transfer!Hold(r) \/ Transfer!Pay(r)
                                     \/ Transfer!Release(r) \/ Transfer!Refuse(r))
                \/ UNCHANGED <<transfer, available>>

\* No step of the transfer when neither the payment's progress nor money changes.
LEMMA Stutters ==
  ASSUME UNCHANGED <<payment, balance, reserved>>
  PROVE  TransferStep
BY DEF TransferStep, transfer, available, Progress, Held

\* A payment stored is idle, or refused at once.
LEMMA StoreMaps ==
  ASSUME MoneyInvariant, NEW r \in Requests, StorePayment(r)
  PROVE  TransferStep
<1>1. TypeOK
  BY DEF MoneyInvariant
<1>2. payment[r].status = "none"
  <2>1. payment[r] = NoRow
    BY DEF StorePayment, UETRTaken, Stored
  <2>2. NoRow.status = "none"
    BY DEF NoRow
  <2> QED
    BY <2>1, <2>2
<1>3. Becomes(r, {"validated", "rejected"}) /\ UNCHANGED available
  BY <1>1, StoreEffect DEF available
<1>4. transfer' = [transfer EXCEPT ![r] = Progress(r)']
  BY <1>1, <1>3, ProgressMoves
<1>5. transfer[r] = "idle" /\ Progress(r)' \in {"idle", "void"}
  <2>1. payment'[r].status \in {"validated", "rejected"}
    BY <1>1, <1>3, OtherRows
  <2> QED
    BY <1>2, <2>1, ProgressOf, ProgressNext DEF transfer
<1>6. CASE Progress(r)' = "idle"
  <2>1. transfer' = transfer
    BY <1>4, <1>5, <1>6 DEF transfer
  <2> QED
    BY <1>3, <2>1 DEF TransferStep
<1>7. CASE Progress(r)' = "void"
  BY <1>3, <1>4, <1>5, <1>7, TransferActions DEF TransferStep
<1> QED
  BY <1>5, <1>6, <1>7

\* clearPayment holds the amount or refuses the payment.
LEMMA ClearMaps ==
  ASSUME MoneyInvariant, NEW r \in Requests, ClearPayment(r)
  PROVE  TransferStep
<1>1. TypeOK /\ payment[r].status = "validated" /\ UNCHANGED balance
  BY ClearEffect DEF MoneyInvariant
<1>2. transfer[r] = "idle"
  BY <1>1, ProgressOf DEF transfer
<1>3. CASE Becomes(r, {"failed"}) /\ UNCHANGED reserved
  <2>1. transfer' = [transfer EXCEPT ![r] = "void"]
    <3>1. payment'[r].status = "failed"
      BY <1>1, <1>3, OtherRows
    <3> QED
      BY <1>1, <1>3, <3>1, ProgressMoves, ProgressNext
  <2>2. UNCHANGED available
    BY <1>1, <1>3 DEF available
  <2> QED
    BY <1>2, <2>1, <2>2, TransferActions DEF TransferStep
<1>4. CASE /\ Becomes(r, {"awaiting_response"})
           /\ CreditorSeen(r) /\ Reservable(r) # {}
           /\ reserved' = Update(reserved, Reservable(r), Amount(r))
  <2>1. transfer' = [transfer EXCEPT ![r] = "held"]
    <3>1. payment'[r].status = "awaiting_response"
      BY <1>1, <1>4, OtherRows
    <3> QED
      BY <1>1, <1>4, <3>1, ProgressMoves, ProgressNext
  <2>2. Reservable(r) = Debtor(r) /\ Debtor(r) # {}
    <3>1. Reservable(r) \in SUBSET Debtor(r)
      BY DEF Reservable
    <3> QED
      BY <1>4, <3>1, OneDebtor
  <2>3. Creditor(r) # {}
    BY <1>4 DEF CreditorSeen
  <2>4. \A a \in Debtor(r) : available[a] >= Amount(r)
    BY <2>2, DebtorAccount DEF Reservable, available
  <2>5. available' = Update(available, Debtor(r), -Amount(r))
    <3>1. /\ \A a \in Accounts : balance[a] \in Int /\ reserved[a] \in Int
          /\ Amount(r) \in Int
      BY <1>1, AmountType DEF TypeOK
    <3>2. \A a \in Accounts :
            reserved'[a] = IF a \in Debtor(r) THEN reserved[a] + Amount(r) ELSE reserved[a]
      BY <1>4, <2>2 DEF Update
    <3> QED
      BY <1>1, <3>1, <3>2 DEF available, Update
  <2> QED
    BY <1>2, <2>1, <2>2, <2>3, <2>4, <2>5, TransferActions DEF TransferStep
<1> QED
  BY <1>1, <1>3, <1>4, ClearEffect

\* An accepted payment still holds its amount.
LEMMA AcceptMaps ==
  ASSUME MoneyInvariant, NEW r \in Requests, AcceptPayment(r)
  PROVE  TransferStep
<1>1. TypeOK
  BY DEF MoneyInvariant
<1>2. /\ payment[r].status = "awaiting_response" /\ Becomes(r, {"accepted"})
      /\ UNCHANGED available
  BY <1>1, AcceptEffect DEF available
<1>3. payment'[r].status = "accepted"
  BY <1>1, <1>2, OtherRows
<1>4. transfer[r] = "held" /\ transfer' = [transfer EXCEPT ![r] = "held"]
  BY <1>1, <1>2, <1>3, ProgressOf, ProgressMoves, ProgressNext DEF transfer
<1>5. transfer' = transfer
  BY <1>4 DEF transfer
<1> QED
  BY <1>2, <1>5 DEF TransferStep

\* A rejection gives the amount back.
LEMMA RejectMaps ==
  ASSUME MoneyInvariant, NEW r \in Requests, NEW text \in Reasons, RejectPayment(r, text)
  PROVE  TransferStep
<1>1. TypeOK
  BY DEF MoneyInvariant
<1>2. /\ payment[r].status = "awaiting_response" /\ Held(r) /\ Becomes(r, {"failed"})
      /\ UNCHANGED balance /\ Releasable(r) # {}
      /\ reserved' = Update(reserved, Releasable(r), -Amount(r))
  BY <1>1, RejectEffect DEF Held
<1>3. payment'[r].status = "failed"
  BY <1>1, <1>2, OtherRows
<1>4. transfer[r] = "held" /\ transfer' = [transfer EXCEPT ![r] = "void"]
  BY <1>1, <1>2, <1>3, ProgressOf, ProgressMoves, ProgressNext DEF transfer
<1>5. \A a \in Accounts :
        reserved'[a] = IF a \in Debtor(r) THEN reserved[a] - Amount(r) ELSE reserved[a]
  <2>1. Releasable(r) \in SUBSET Debtor(r)
    BY DEF Releasable
  <2> QED
    BY <1>2, <2>1, EndKeepsExact
<1>6. available' = Update(available, Debtor(r), Amount(r))
  <2>1. /\ \A a \in Accounts : balance[a] \in Int /\ reserved[a] \in Int
        /\ Amount(r) \in Int
    BY <1>1, AmountType DEF TypeOK
  <2> QED
    BY <1>2, <1>5, <2>1 DEF available, Update
<1> QED
  BY <1>4, <1>6, TransferActions DEF TransferStep

\* A settlement pays what was held.
LEMMA SettleMaps ==
  ASSUME MoneyInvariant, NEW r \in Requests, SettlePayment(r)
  PROVE  TransferStep
<1>1. TypeOK
  BY DEF MoneyInvariant
<1>2. /\ payment[r].status = "accepted" /\ Held(r) /\ Becomes(r, {"settled"})
      /\ Amount(r) > 0 /\ Debitable(r) # {} /\ Creditable(r) # {}
      /\ balance' = BalanceAfter(r)
      /\ reserved' = Update(reserved, Debitable(r), -Amount(r))
  BY <1>1, SettleEffect DEF Held, ReservedAfter
<1>3. payment'[r].status = "settled"
  BY <1>1, <1>2, OtherRows
<1>4. transfer[r] = "held" /\ transfer' = [transfer EXCEPT ![r] = "paid"]
  BY <1>1, <1>2, <1>3, ProgressOf, ProgressMoves, ProgressNext DEF transfer
<1>5. /\ Debitable(r) = Debtor(r)
      /\ \A a \in Accounts :
           reserved'[a] = IF a \in Debtor(r) THEN reserved[a] - Amount(r) ELSE reserved[a]
  <2>1. Debitable(r) \in SUBSET Debtor(r)
    BY DEF Debitable
  <2> QED
    BY <1>2, <2>1, EndKeepsExact
<1>6. Creditable(r) = Creditor(r)
  <2>1. Creditable(r) \in SUBSET Creditor(r)
    BY DEF Creditable
  <2> QED
    BY <1>2, <2>1, OneCreditor
<1>7. available' = Update(available, Creditor(r), Amount(r))
  <2>1. /\ \A a \in Accounts : balance[a] \in Int /\ reserved[a] \in Int
        /\ Amount(r) \in Int
    BY <1>1, AmountType DEF TypeOK
  <2>2. \A a \in Accounts :
          balance'[a] = (IF a \in Debtor(r) THEN balance[a] - Amount(r) ELSE balance[a])
                          + (IF a \in Creditor(r) THEN Amount(r) ELSE 0)
    BY <1>2, <1>5, <1>6, <2>1 DEF BalanceAfter, Update
  <2>3. \A a \in Accounts : balance'[a] - reserved'[a]
          = IF a \in Creditor(r) THEN (balance[a] - reserved[a]) + Amount(r)
            ELSE balance[a] - reserved[a]
    BY <1>5, <2>1, <2>2
  <2> QED
    BY <2>3 DEF available, Update
<1> QED
  BY <1>2, <1>4, <1>7, TransferActions DEF TransferStep

-----------------------------------------------------------------------------
(* The theorem                                                              *)

\* Every step of the rail is a step of the abstract transfer, or none.
LEMMA StepMaps == MoneyInvariant /\ [Next]_vars => TransferStep
<1> SUFFICES ASSUME MoneyInvariant, [Next]_vars PROVE TransferStep
  OBVIOUS
<1>1. ASSUME NEW r \in Requests, SubmitPayment(r) PROVE TransferStep
  BY <1>1, Stutters, StoreMaps DEF SubmitPayment, RefuseRequest, LoseRequest, StoreRequest
<1>2. ASSUME NEW r \in Requests, ClearPayment(r) PROVE TransferStep
  BY <1>2, ClearMaps
<1>3. ASSUME NEW r \in Requests, AcceptPayment(r) PROVE TransferStep
  BY <1>3, AcceptMaps
<1>4. ASSUME NEW r \in Requests, NEW text \in Reasons, RejectPayment(r, text)
      PROVE  TransferStep
  BY <1>4, RejectMaps
<1>5. ASSUME NEW r \in Requests, SettlePayment(r) PROVE TransferStep
  BY <1>5, SettleMaps
<1>6. ASSUME NEW a \in Suspendable, SetAccountStatus(a) PROVE TransferStep
  BY <1>6, Stutters DEF SetAccountStatus
<1>7. CASE UNCHANGED vars
  BY <1>7, Stutters DEF vars
<1> QED
  BY <1>1, <1>2, <1>3, <1>4, <1>5, <1>6, <1>7 DEF Next

\* The rail is an atomic hold-then-pay transfer: its transactions, refusals and
\* failures, in any order, never move money in another way.
THEOREM RailImplementsTransfer == Spec => ImplementsTransfer
<1>1. Init => Transfer!Init
  <2> SUFFICES ASSUME Init PROVE Transfer!Init
    OBVIOUS
  <2>1. \A r \in Requests : payment[r].status = "none"
    BY DEF Init, NoRow
  <2>2. available = Opening
    BY OpeningAssumption DEF Init, available
  <2>3. transfer = [r \in Requests |-> "idle"]
    BY <2>1, ProgressOf DEF transfer
  <2> QED
    BY <2>2, <2>3 DEF Transfer!Init, transfer, available, Progress
<1>2. MoneyInvariant /\ [Next]_vars => [Transfer!Next]_(Transfer!vars)
  BY StepMaps DEF TransferStep, Transfer!Next, Transfer!vars, transfer, available, Progress
<1> QED
  BY <1>1, <1>2, MoneyInvariantHolds, PTL DEF Spec, ImplementsTransfer, Transfer!Spec
=============================================================================
