---------------------------- MODULE LedgerProofs ----------------------------
(***************************************************************************)
(* The ledger explains every balance, and no operation makes or loses money, *)
(* for any finite sets of requests and accounts and any opening balances.    *)
(***************************************************************************)
EXTENDS MoneyProofs

\* The row of ledger_transactions that a settlement of r writes, with its two entries.
LedgerOf(r) ==
  [currency |-> Doc[r].Ccy,
   entries |-> << [account_id |-> Doc[r].DbtrAcct, entry_type |-> "debit",
                   amount |-> Amount(r)],
                  [account_id |-> Doc[r].CdtrAcct, entry_type |-> "credit",
                   amount |-> Amount(r)] >>]

\* What is in the ledger was written by the settlement of its payment.
LedgerWritten == \A r \in Requests : ledger[r] \in {NoLedger, LedgerOf(r)}

\* LedgerExplainsBalances is not inductive: it does not say that entries 1 and 2 of a
\* payment are its debit and its credit, which LedgerWritten does.
LedgerInvariant == TypeOK /\ LedgerWritten /\ LedgerExplainsBalances

-----------------------------------------------------------------------------
(* What is posted                                                           *)

\* The account that r's entry of a type names, and the place of the entry.
Side(r, type) == IF type = "debit" THEN Doc[r].DbtrAcct ELSE Doc[r].CdtrAcct
Place(type) == IF type = "debit" THEN 1 ELSE 2

\* The entries of a type that name account a, and what each of them moves.
Rows(a, type) ==
  {e \in Requests \X {1, 2} : /\ ledger[e[1]] # NoLedger
                              /\ e[2] = Place(type) /\ Side(e[1], type) = a}
Moved == [e \in Requests \X {1, 2} |-> Amount(e[1])]

\* The two entries of r in a row of the ledger.
EntriesAre(record, r) ==
  /\ DOMAIN record.entries = {1, 2}
  /\ record.entries[1].account_id = Doc[r].DbtrAcct
  /\ record.entries[1].entry_type = "debit"
  /\ record.entries[1].amount = Amount(r)
  /\ record.entries[2].account_id = Doc[r].CdtrAcct
  /\ record.entries[2].entry_type = "credit"
  /\ record.entries[2].amount = Amount(r)

\* The entries of the two rows that LedgerWritten allows.
LEMMA EntriesOf ==
  /\ DOMAIN NoLedger.entries = {}
  /\ \A r \in Requests : LedgerOf(r) # NoLedger /\ EntriesAre(LedgerOf(r), r)
<1>1. DOMAIN NoLedger.entries = {}
  <2>1. NoLedger.entries = << >>
    BY DEF NoLedger
  <2> QED
    BY <2>1
<1>2. ASSUME NEW r \in Requests
      PROVE  LedgerOf(r) # NoLedger /\ EntriesAre(LedgerOf(r), r)
  <2>1. EntriesAre(LedgerOf(r), r)
    BY DEF LedgerOf, EntriesAre
  <2>2. LedgerOf(r) # NoLedger
    BY <1>1, <2>1 DEF EntriesAre
  <2> QED
    BY <2>1, <2>2
<1> QED
  BY <1>1, <1>2

\* The sets and totals have their types.
LEMMA RowsType ==
  ASSUME NEW a, NEW type
  PROVE  /\ IsFiniteSet(Rows(a, type)) /\ Rows(a, type) \in SUBSET (Requests \X {1, 2})
         /\ \A e \in Requests \X {1, 2} : Moved[e] = Amount(e[1]) /\ Moved[e] \in Int
         /\ Total(Moved, Rows(a, type)) \in Int
<1>1. IsFiniteSet({1, 2})
  <2>1. IsFiniteSet({} \cup {1})
    BY FS_EmptySet, FS_AddElement
  <2>2. IsFiniteSet(({} \cup {1}) \cup {2})
    BY <2>1, FS_AddElement
  <2>3. ({} \cup {1}) \cup {2} = {1, 2}
    OBVIOUS
  <2> QED
    BY <2>2, <2>3
<1>2. IsFiniteSet(Requests \X {1, 2})
  BY <1>1, RequestsAssumption, FS_Product
<1>3. Rows(a, type) \in SUBSET (Requests \X {1, 2})
  BY DEF Rows
<1>4. \A e \in Requests \X {1, 2} : Moved[e] = Amount(e[1]) /\ Moved[e] \in Int
  BY AmountType DEF Moved
<1>5. IsFiniteSet(Rows(a, type))
  BY <1>2, <1>3, FS_Subset
<1>6. Total(Moved, Rows(a, type)) \in Int
  BY <1>2, <1>3, <1>4, TotalType
<1> QED
  BY <1>3, <1>4, <1>5, <1>6

\* What is posted is the total of the amounts of the payments whose entries name the
\* account.
PostedTotals ==
  \A a \in Accounts : \A type \in {"debit", "credit"} :
    Posted(a, type) = Total(Moved, Rows(a, type))

\* Where the ledger holds what settlements write, that is what is posted.
LEMMA PostedIsTotal == LedgerWritten => PostedTotals
<1> SUFFICES ASSUME LedgerWritten, NEW a \in Accounts, NEW type \in {"debit", "credit"}
             PROVE  Posted(a, type) = Total(Moved, Rows(a, type))
  BY DEF PostedTotals
<1> DEFINE entry(e) == ledger[e[1]].entries[e[2]]
           rows == {e \in Requests \X {1, 2} : /\ e[2] \in DOMAIN ledger[e[1]].entries
                                               /\ entry(e).account_id = a
                                               /\ entry(e).entry_type = type}
           amounts == [e \in rows |-> entry(e).amount]
<1>1. Posted(a, type) = Total(amounts, rows)
  BY DEF Posted
<1>2. ASSUME NEW e \in Requests \X {1, 2}
      PROVE  /\ e \in rows <=> e \in Rows(a, type)
             /\ e \in rows => entry(e).amount = Amount(e[1])
  <2>1. PICK r \in Requests, i \in {1, 2} : e = <<r, i>>
    OBVIOUS
  <2>2. CASE ledger[r] = NoLedger
    BY <2>1, <2>2, EntriesOf DEF Rows
  <2>3. CASE ledger[r] = LedgerOf(r)
    <3>1. ledger[r] # NoLedger /\ EntriesAre(ledger[r], r)
      BY <2>3, EntriesOf
    <3>3. e \in rows <=> i = Place(type) /\ Side(r, type) = a
      BY <2>1, <3>1 DEF Place, Side, EntriesAre
    <3>4. e \in Rows(a, type) <=> i = Place(type) /\ Side(r, type) = a
      BY <2>1, <3>1 DEF Rows
    <3>5. entry(e).amount = Amount(e[1])
      BY <2>1, <3>1 DEF EntriesAre
    <3> QED
      BY <3>3, <3>4, <3>5
  <2> QED
    BY <2>2, <2>3 DEF LedgerWritten
<1>3. rows = Rows(a, type)
  BY <1>2, RowsType
<1>4. \A e \in rows : Moved[e] \in Int /\ amounts[e] = Moved[e]
  BY <1>2, RowsType
<1> HIDE DEF rows, amounts
<1>5. IsFiniteSet(rows) /\ rows \in SUBSET rows
  BY <1>3, RowsType
<1>6. Total(amounts, rows) = Total(Moved, rows)
  BY <1>4, <1>5, TotalSame
<1> QED
  BY <1>1, <1>3, <1>6

\* The same of the next state.
LEMMA PostedIsTotalNext == LedgerWritten' => PostedTotals'
BY PostedIsTotal, PTL

-----------------------------------------------------------------------------
(* A settlement                                                             *)

\* A settlement adds one row for each side to the totals of the accounts it names.
LEMMA RowsAfter ==
  ASSUME TypeOK, LedgerWritten, NEW r \in Requests, recordLedgerTransaction(r),
         NEW a, NEW type \in {"debit", "credit"}
  PROVE  /\ LedgerWritten'
         /\ Total(Moved, Rows(a, type)')
              = Total(Moved, Rows(a, type)) + IF Side(r, type) = a THEN Amount(r) ELSE 0
<1> DEFINE e == <<r, Place(type)>>
<1>1. /\ ledger[r] = NoLedger /\ ledger'[r] = LedgerOf(r)
      /\ \A q \in Requests : q # r => ledger'[q] = ledger[q]
  BY DEF recordLedgerTransaction, TypeOK, LedgerOf
<1>2. LedgerWritten'
  BY <1>1 DEF LedgerWritten, LedgerOf, NoLedger, Amount
<1>3. e \in Requests \X {1, 2} /\ e \notin Rows(a, type)
  BY <1>1 DEF Rows, Place
<1>4. Rows(a, type)' = IF Side(r, type) = a THEN Rows(a, type) \cup {e} ELSE Rows(a, type)
  <2>1. ASSUME NEW q \in Requests, NEW i \in {1, 2}
        PROVE  <<q, i>> \in Rows(a, type)'
                 <=> \/ <<q, i>> \in Rows(a, type)
                     \/ Side(r, type) = a /\ <<q, i>> = e
    <3>1. <<q, i>> \in Rows(a, type)
            <=> ledger[q] # NoLedger /\ i = Place(type) /\ Side(q, type) = a
      BY DEF Rows
    <3>2. <<q, i>> \in Rows(a, type)'
            <=> ledger'[q] # NoLedger /\ i = Place(type) /\ Side(q, type) = a
      BY DEF Rows, Side
    <3>3. LedgerOf(r) # NoLedger
      BY EntriesOf
    <3> QED
      BY <1>1, <3>1, <3>2, <3>3
  <2>2. Rows(a, type)' \subseteq Requests \X {1, 2}
    BY DEF Rows
  <2>3. Rows(a, type) \subseteq Requests \X {1, 2}
    BY DEF Rows
  <2>4. ASSUME NEW x \in Requests \X {1, 2}
        PROVE  x \in Rows(a, type)' <=> \/ x \in Rows(a, type)
                                        \/ Side(r, type) = a /\ x = e
    <3>1. PICK q \in Requests, i \in {1, 2} : x = <<q, i>>
      OBVIOUS
    <3> HIDE DEF e
    <3> QED
      BY <2>1, <3>1
  <2> HIDE DEF e
  <2> QED
    BY <1>3, <2>2, <2>3, <2>4
<1> HIDE DEF e
<1>5. Moved[e] = Amount(r)
  BY <1>3, RowsType DEF e
<1>6. Total(Moved, Rows(a, type) \cup {e}) = Total(Moved, Rows(a, type)) + Amount(r)
  <2>1. \A y \in Rows(a, type) \cup {e} : Moved[y] \in Int
    BY <1>3, RowsType
  <2> QED
    BY <1>3, <1>5, <2>1, RowsType, TotalAdd
<1>7. Total(Moved, Rows(a, type)) \in Int
  BY RowsType
<1> QED
  BY <1>2, <1>4, <1>6, <1>7

\* A settlement moves its amount from the account that its debit names to the one that
\* its credit names; nothing, if they are one.
LEMMA BalancesAfter ==
  ASSUME TypeOK, NEW r \in Requests, SettlePayment(r), NEW a \in Accounts
  PROVE  balance'[a] = balance[a] - (IF Side(r, "debit") = a THEN Amount(r) ELSE 0)
                                  + (IF Side(r, "credit") = a THEN Amount(r) ELSE 0)
<1>1. /\ balance' = BalanceAfter(r) /\ Debitable(r) # {} /\ Creditable(r) # {}
      /\ recordLedgerTransaction(r)
  BY SettleEffect
<1>2. a \in Debitable(r) <=> a = Doc[r].DbtrAcct
  BY <1>1 DEF Debitable, Debtor, AccountRow
<1>3. a \in Creditable(r) <=> a = Doc[r].CdtrAcct
  BY <1>1 DEF Creditable, Creditor, AccountRow
<1>4. balance[a] \in Int /\ Amount(r) \in Int /\ -Amount(r) \in Int
  BY AmountType DEF TypeOK
<1>5. balance'[a] = IF a \in Creditable(r)
                    THEN (IF a \in Debitable(r) THEN balance[a] + (-Amount(r)) ELSE balance[a])
                           + Amount(r)
                    ELSE IF a \in Debitable(r) THEN balance[a] + (-Amount(r)) ELSE balance[a]
  BY <1>1 DEF BalanceAfter, Update
<1> QED
  BY <1>2, <1>3, <1>4, <1>5 DEF Side

\* A settlement posts what it moves.
LEMMA SettlePosts ==
  ASSUME LedgerInvariant, NEW r \in Requests, SettlePayment(r)
  PROVE  LedgerWritten' /\ LedgerExplainsBalances'
<1>1. TypeOK /\ LedgerWritten /\ recordLedgerTransaction(r)
  BY SettleEffect DEF LedgerInvariant
<1>2. LedgerWritten'
  BY <1>1, RowsAfter
<1>3. ASSUME NEW a \in Accounts
      PROVE  balance'[a] = Opening[a] + Posted(a, "credit")' - Posted(a, "debit")'
  <2> DEFINE credit == Total(Moved, Rows(a, "credit"))
             debit  == Total(Moved, Rows(a, "debit"))
  <2>1. balance[a] = Opening[a] + credit - debit
    BY <1>1, PostedIsTotal DEF LedgerInvariant, LedgerExplainsBalances, PostedTotals
  <2>2. /\ Posted(a, "credit")' = Total(Moved, Rows(a, "credit")')
        /\ Posted(a, "debit")' = Total(Moved, Rows(a, "debit")')
    <3>1. PostedTotals'
      BY <1>2, PostedIsTotalNext
    <3>2. Moved' = Moved
      BY DEF Moved, Amount
    <3> QED
      BY <3>1, <3>2 DEF PostedTotals
  <2>3. /\ Total(Moved, Rows(a, "credit")')
             = credit + IF Side(r, "credit") = a THEN Amount(r) ELSE 0
        /\ Total(Moved, Rows(a, "debit")')
             = debit + IF Side(r, "debit") = a THEN Amount(r) ELSE 0
    BY <1>1, RowsAfter
  <2>4. credit \in Int /\ debit \in Int
    BY RowsType
  <2>5. Opening[a] \in Int /\ Amount(r) \in Int
    BY OpeningAssumption, AmountType
  <2>6. balance'[a] = balance[a] - (IF Side(r, "debit") = a THEN Amount(r) ELSE 0)
                                 + (IF Side(r, "credit") = a THEN Amount(r) ELSE 0)
    BY <1>1, BalancesAfter
  <2> HIDE DEF credit, debit
  <2> QED
    BY <2>1, <2>2, <2>3, <2>4, <2>5, <2>6
<1> QED
  BY <1>2, <1>3 DEF LedgerExplainsBalances

\* Nothing but a settlement moves or posts money.
LEMMA OthersPostNothing ==
  ASSUME LedgerInvariant, UNCHANGED <<balance, ledger>>
  PROVE  LedgerWritten' /\ LedgerExplainsBalances'
<1>1. LedgerWritten'
  BY DEF LedgerInvariant, LedgerWritten, LedgerOf, NoLedger, Amount
<1>2. \A a \in Accounts : /\ Posted(a, "credit")' = Posted(a, "credit")
                          /\ Posted(a, "debit")' = Posted(a, "debit")
  BY DEF Posted
<1> QED
  BY <1>1, <1>2 DEF LedgerInvariant, LedgerExplainsBalances

-----------------------------------------------------------------------------
(* The ledger                                                               *)

\* Nothing is posted at the start.
LEMMA LedgerInit == Init => LedgerInvariant
<1> SUFFICES ASSUME Init PROVE LedgerInvariant
  OBVIOUS
<1>1. TypeOK
  BY TypeInit
<1>2. LedgerWritten
  BY DEF Init, LedgerWritten
<1>3. ASSUME NEW a \in Accounts, NEW type \in {"debit", "credit"} PROVE Posted(a, type) = 0
  <2>1. Rows(a, type) = {}
    BY DEF Init, Rows
  <2> QED
    BY <1>2, <2>1, PostedIsTotal, TotalEmpty DEF PostedTotals
<1>4. \A a \in Accounts : balance[a] = Opening[a] /\ Opening[a] \in Int
  BY OpeningAssumption DEF Init
<1>5. LedgerExplainsBalances
  BY <1>3, <1>4 DEF LedgerExplainsBalances
<1> QED
  BY <1>1, <1>2, <1>5 DEF LedgerInvariant

\* Every operation keeps the invariant.
LEMMA LedgerStep == LedgerInvariant /\ [Next]_vars => LedgerInvariant'
<1> SUFFICES ASSUME LedgerInvariant, [Next]_vars PROVE LedgerInvariant'
  OBVIOUS
<1>1. TypeOK'
  BY TypeStep DEF LedgerInvariant
<1>2. ASSUME NEW r \in Requests, SettlePayment(r)
      PROVE  LedgerWritten' /\ LedgerExplainsBalances'
  BY <1>2, SettlePosts
<1>3. ASSUME ~\E r \in Requests : SettlePayment(r) PROVE UNCHANGED <<balance, ledger>>
  BY <1>3 DEF Next, vars, SubmitPayment, RefuseRequest, StoreRequest, StorePayment,
              LoseRequest, ClearPayment, AcceptPayment, RejectPayment, SetAccountStatus
<1>4. LedgerWritten' /\ LedgerExplainsBalances'
  BY <1>2, <1>3, OthersPostNothing
<1> QED
  BY <1>1, <1>4 DEF LedgerInvariant

\* An account has what it was opened with, plus the credits and minus the debits of the
\* ledger: no operation moves money that the ledger does not show.
THEOREM LedgerExplainsTheBalances == Spec => []LedgerExplainsBalances
<1>1. LedgerInvariant => LedgerExplainsBalances
  BY DEF LedgerInvariant
<1> QED
  BY <1>1, LedgerInit, LedgerStep, PTL DEF Spec

-----------------------------------------------------------------------------
(* Conservation                                                             *)

\* What an account may still promise, and the payments that hold money.
Available == [a \in Accounts |-> balance[a] - reserved[a]]

HeldPayments == {r \in Requests : Held(r)}

\* MoneyConserved in these words.
Conserved == Total(Available, Accounts) + Total(Amounts, HeldPayments) = Total(Opening, Accounts)

\* The abstract module has a copy of Total of its own.
LEMMA TransferTotal ==
  ASSUME NEW f, NEW S
  PROVE  Transfer!Total(f, S) = Total(f, S)
BY DEF Total, FoldFunctionOnSet, MapThenFoldSet,
       Transfer!Total, Transfer!FoldFunctionOnSet, Transfer!MapThenFoldSet

\* The sums are the ones of which AtomicTransfer's Conservation speaks.
LEMMA ConservedIsMoneyConserved == Conserved <=> MoneyConserved
<1> DEFINE mapped == [r \in Requests |->
                        CASE payment[r].status \in {"none", "validated"} -> "idle"
                          [] Held(r)                                      -> "held"
                          [] payment[r].status = "settled"                -> "paid"
                          [] OTHER                                        -> "void"]
           held == {r \in Requests : mapped[r] = "held"}
<1>1. \A r \in Requests : mapped[r] = "held" <=> Held(r)
  BY DEF Held
<1>2. held = HeldPayments
  BY <1>1 DEF HeldPayments
<1>3. MoneyConserved <=>
        Transfer!Total(Available, Accounts) + Transfer!Total(Amounts, held)
          = Transfer!Total(Opening, Accounts)
  BY DEF MoneyConserved, Transfer!Conservation, Available
<1> HIDE DEF held
<1> QED
  BY <1>2, <1>3, TransferTotal DEF Conserved

\* The totals are of integers.
LEMMA ConservedTypes ==
  ASSUME TypeOK
  PROVE  /\ \A a \in Accounts : /\ balance[a] \in Int /\ reserved[a] \in Int
                                /\ Available[a] \in Int
                                /\ Available[a] = balance[a] - reserved[a]
         /\ Total(Available, Accounts) \in Int
         /\ HeldPayments \in SUBSET Requests /\ IsFiniteSet(HeldPayments)
         /\ Total(Amounts, HeldPayments) \in Int
<1>1. \A a \in Accounts : /\ balance[a] \in Int /\ reserved[a] \in Int
                          /\ Available[a] \in Int
                          /\ Available[a] = balance[a] - reserved[a]
  <2>1. \A a \in Accounts : balance[a] \in Int /\ reserved[a] \in Int
    BY DEF TypeOK
  <2>2. \A a \in Accounts : Available[a] = balance[a] - reserved[a]
    BY DEF Available
  <2> QED
    BY <2>1, <2>2
<1>2. Total(Available, Accounts) \in Int
  <2>1. Accounts \in SUBSET Accounts
    OBVIOUS
  <2> QED
    BY <1>1, <2>1, AccountsAssumption, TotalType
<1>3. HeldPayments \in SUBSET Requests
  BY DEF HeldPayments
<1>4. IsFiniteSet(HeldPayments)
  BY <1>3, RequestsAssumption, FS_Subset
<1>5. Total(Amounts, HeldPayments) \in Int
  BY <1>3, RequestsAssumption, AmountsType, TotalType
<1> QED
  BY <1>1, <1>2, <1>3, <1>4, <1>5

\* What is available changes at one account.
LEMMA AvailableShifts ==
  ASSUME TypeOK, NEW a \in Accounts, NEW delta \in Int,
         balance'[a] - reserved'[a] = balance[a] - reserved[a] + delta,
         \A b \in Accounts : b # a => balance'[b] - reserved'[b] = balance[b] - reserved[b]
  PROVE  Total(Available', Accounts) = Total(Available, Accounts) + delta
<1>1. \A b \in Accounts : Available[b] \in Int
  BY ConservedTypes
<1>2. /\ Available'[a] = Available[a] + delta
      /\ \A b \in Accounts \ {a} : Available'[b] = Available[b]
  BY DEF Available
<1> HIDE DEF Available
<1> QED
  BY <1>1, <1>2, AccountsAssumption, TotalShift

\* What is available stays as it is.
LEMMA AvailableStays ==
  ASSUME UNCHANGED <<balance, reserved>>
  PROVE  Total(Available', Accounts) = Total(Available, Accounts)
<1>1. Available' = Available
  BY DEF Available
<1> QED
  BY <1>1

\* A payment begins to hold its amount, ceases to, or goes on as it was.
LEMMA HeldAfter ==
  ASSUME TypeOK, NEW r \in Requests, NEW statuses, Becomes(r, statuses)
  PROVE  /\ ~Held(r) /\ statuses = {"awaiting_response"}
              => Total(Amounts, HeldPayments') = Total(Amounts, HeldPayments) + Amount(r)
         /\ Held(r) /\ statuses \cap {"awaiting_response", "accepted"} = {}
              => Total(Amounts, HeldPayments') = Total(Amounts, HeldPayments) - Amount(r)
         /\ (\/ ~Held(r) /\ statuses \cap {"awaiting_response", "accepted"} = {}
             \/ Held(r) /\ statuses \subseteq {"awaiting_response", "accepted"})
              => Total(Amounts, HeldPayments') = Total(Amounts, HeldPayments)
<1>1. /\ payment'[r].status \in statuses
      /\ \A q \in Requests : q # r => payment'[q] = payment[q]
  BY OtherRows
<1>2. ASSUME ~Held(r), statuses = {"awaiting_response"}
      PROVE  Total(Amounts, HeldPayments') = Total(Amounts, HeldPayments) + Amount(r)
  <2>1. HeldPayments' = HeldPayments \cup {r} /\ r \notin HeldPayments
    BY <1>1, <1>2 DEF HeldPayments, Held
  <2>2. IsFiniteSet(HeldPayments) /\ \A y \in HeldPayments \cup {r} : Amounts[y] \in Int
    BY ConservedTypes, AmountsType
  <2>3. Total(Amounts, HeldPayments \cup {r}) = Total(Amounts, HeldPayments) + Amounts[r]
    BY <2>1, <2>2, TotalAdd
  <2> QED
    BY <2>1, <2>3, AmountsType
<1>3. ASSUME Held(r), statuses \cap {"awaiting_response", "accepted"} = {}
      PROVE  Total(Amounts, HeldPayments') = Total(Amounts, HeldPayments) - Amount(r)
  <2>1. HeldPayments' = HeldPayments \ {r} /\ r \in HeldPayments
    BY <1>1, <1>3 DEF HeldPayments, Held
  <2>2. /\ IsFiniteSet(HeldPayments) /\ \A y \in HeldPayments : Amounts[y] \in Int
        /\ HeldPayments \in SUBSET HeldPayments /\ HeldPayments \ {r} \in SUBSET HeldPayments
    BY ConservedTypes, AmountsType
  <2>3. Total(Amounts, HeldPayments) = Amounts[r] + Total(Amounts, HeldPayments \ {r})
    BY <2>1, <2>2, TotalRemove
  <2>4. Total(Amounts, HeldPayments \ {r}) \in Int
    BY <2>2, TotalType
  <2> QED
    BY <2>1, <2>3, <2>4, AmountsType
<1>4. ASSUME \/ ~Held(r) /\ statuses \cap {"awaiting_response", "accepted"} = {}
             \/ Held(r) /\ statuses \subseteq {"awaiting_response", "accepted"}
      PROVE  Total(Amounts, HeldPayments') = Total(Amounts, HeldPayments)
  <2>1. HeldPayments' = HeldPayments
    BY <1>1, <1>4 DEF HeldPayments, Held
  <2> QED
    BY <2>1
<1> QED
  BY <1>2, <1>3, <1>4

\* Conserved after the step, in totals that are known before it.
LEMMA ConservedNext ==
  Conserved' <=> Total(Available', Accounts) + Total(Amounts, HeldPayments')
                   = Total(Opening, Accounts)
BY DEF Conserved, Amounts, Amount

\* A clearing takes out of what is available what the payment begins to hold.
LEMMA ClearConserves ==
  ASSUME TypeOK, Conserved, NEW r \in Requests, ClearPayment(r)
  PROVE  Conserved'
<1>1. payment[r].status = "validated" /\ ~Held(r) /\ UNCHANGED balance
  BY ClearEffect DEF Held
<1>2. /\ Total(Available, Accounts) \in Int /\ Total(Amounts, HeldPayments) \in Int
      /\ Amount(r) \in Int
  BY ConservedTypes, AmountType
<1>3. CASE Becomes(r, {"failed"}) /\ UNCHANGED reserved
  <2>1. {"failed"} \cap {"awaiting_response", "accepted"} = {}
    OBVIOUS
  <2>2. Total(Amounts, HeldPayments') = Total(Amounts, HeldPayments)
    BY <1>1, <1>3, <2>1, HeldAfter
  <2>3. Total(Available', Accounts) = Total(Available, Accounts)
    BY <1>1, <1>3, AvailableStays
  <2> QED
    BY <2>2, <2>3, ConservedNext DEF Conserved
<1>4. CASE /\ Becomes(r, {"awaiting_response"})
           /\ Reservable(r) # {}
           /\ reserved' = Update(reserved, Reservable(r), Amount(r))
  <2>1. PICK a \in Accounts : Reservable(r) = {a}
    BY <1>4 DEF Reservable, Debtor, AccountRow
  <2>2. /\ reserved'[a] = reserved[a] + Amount(r)
        /\ \A b \in Accounts : b # a => reserved'[b] = reserved[b]
    BY <1>4, <2>1 DEF Update
  <2>3. \A b \in Accounts : balance[b] \in Int /\ reserved[b] \in Int
    BY ConservedTypes
  <2>4. /\ balance'[a] - reserved'[a] = balance[a] - reserved[a] + (-Amount(r))
        /\ \A b \in Accounts : b # a => balance'[b] - reserved'[b] = balance[b] - reserved[b]
    BY <1>1, <1>2, <2>2, <2>3
  <2>5. Total(Available', Accounts) = Total(Available, Accounts) + (-Amount(r))
    BY <1>2, <2>4, AvailableShifts
  <2>6. Total(Amounts, HeldPayments') = Total(Amounts, HeldPayments) + Amount(r)
    BY <1>1, <1>4, HeldAfter
  <2> QED
    BY <1>2, <2>5, <2>6, ConservedNext DEF Conserved
<1> QED
  BY <1>3, <1>4, ClearEffect

\* A rejection makes available what the payment held.
LEMMA RejectConserves ==
  ASSUME TypeOK, Conserved, NEW r \in Requests, NEW text \in Reasons, RejectPayment(r, text)
  PROVE  Conserved'
<1>1. /\ Held(r) /\ Becomes(r, {"failed"}) /\ UNCHANGED balance
      /\ Releasable(r) # {} /\ reserved' = Update(reserved, Releasable(r), -Amount(r))
  BY RejectEffect DEF Held
<1>2. /\ Total(Available, Accounts) \in Int /\ Total(Amounts, HeldPayments) \in Int
      /\ Amount(r) \in Int
  BY ConservedTypes, AmountType
<1>3. PICK a \in Accounts : Releasable(r) = {a}
  BY <1>1 DEF Releasable, Debtor, AccountRow
<1>4. /\ reserved'[a] = reserved[a] + (-Amount(r))
      /\ \A b \in Accounts : b # a => reserved'[b] = reserved[b]
  BY <1>1, <1>3 DEF Update
<1>5. \A b \in Accounts : balance[b] \in Int /\ reserved[b] \in Int
  BY ConservedTypes
<1>6. /\ balance'[a] - reserved'[a] = balance[a] - reserved[a] + Amount(r)
      /\ \A b \in Accounts : b # a => balance'[b] - reserved'[b] = balance[b] - reserved[b]
  BY <1>1, <1>2, <1>4, <1>5
<1>7. Total(Available', Accounts) = Total(Available, Accounts) + Amount(r)
  BY <1>2, <1>6, AvailableShifts
<1>8. Total(Amounts, HeldPayments') = Total(Amounts, HeldPayments) - Amount(r)
  BY <1>1, HeldAfter
<1> QED
  BY <1>2, <1>7, <1>8, ConservedNext DEF Conserved

\* A settlement makes available to the creditor what the payment held: the debtor's
\* balance and its reservation fall by as much.
LEMMA SettleConserves ==
  ASSUME TypeOK, Conserved, NEW r \in Requests, SettlePayment(r)
  PROVE  Conserved'
<1>1. /\ Held(r) /\ Becomes(r, {"settled"}) /\ Debitable(r) # {} /\ Creditable(r) # {}
      /\ balance' = BalanceAfter(r) /\ reserved' = ReservedAfter(r)
  BY SettleEffect DEF Held
<1>2. /\ Total(Available, Accounts) \in Int /\ Total(Amounts, HeldPayments) \in Int
      /\ Amount(r) \in Int /\ -Amount(r) \in Int
  BY ConservedTypes, AmountType
<1>3. PICK c \in Accounts : Creditable(r) = {c}
  BY <1>1 DEF Creditable, Creditor, AccountRow
<1>4. \A b \in Accounts : balance[b] \in Int /\ reserved[b] \in Int
  BY ConservedTypes
<1>5. \A b \in Accounts :
        /\ b \in Debitable(r) => reserved'[b] = reserved[b] + (-Amount(r))
        /\ b \notin Debitable(r) => reserved'[b] = reserved[b]
  BY <1>1 DEF ReservedAfter, Update
<1>6. \A b \in Accounts :
        /\ b \in Debitable(r) /\ b = c => balance'[b] = (balance[b] + (-Amount(r))) + Amount(r)
        /\ b \in Debitable(r) /\ b # c => balance'[b] = balance[b] + (-Amount(r))
        /\ b \notin Debitable(r) /\ b = c => balance'[b] = balance[b] + Amount(r)
        /\ b \notin Debitable(r) /\ b # c => balance'[b] = balance[b]
  BY <1>1, <1>3 DEF BalanceAfter, Update
<1>7. /\ balance'[c] - reserved'[c] = balance[c] - reserved[c] + Amount(r)
      /\ \A b \in Accounts : b # c => balance'[b] - reserved'[b] = balance[b] - reserved[b]
  BY <1>2, <1>4, <1>5, <1>6
<1>8. Total(Available', Accounts) = Total(Available, Accounts) + Amount(r)
  BY <1>2, <1>7, AvailableShifts
<1>9. Total(Amounts, HeldPayments') = Total(Amounts, HeldPayments) - Amount(r)
  BY <1>1, HeldAfter
<1> QED
  BY <1>2, <1>8, <1>9, ConservedNext DEF Conserved

\* A step that changes no account, and no payment between holding and not holding.
LEMMA OthersConserve ==
  ASSUME TypeOK, Conserved, UNCHANGED <<balance, reserved>>,
         \/ UNCHANGED payment
         \/ \E r \in Requests : StorePayment(r) \/ AcceptPayment(r)
  PROVE  Conserved'
<1>1. Total(Available', Accounts) = Total(Available, Accounts)
  BY AvailableStays
<1>2. CASE UNCHANGED payment
  <2>1. HeldPayments' = HeldPayments
    BY <1>2 DEF HeldPayments, Held
  <2> QED
    BY <1>1, <2>1, ConservedNext DEF Conserved
<1>3. ASSUME NEW r \in Requests, StorePayment(r) PROVE Conserved'
  <2>1. ~Held(r) /\ Becomes(r, {"validated", "rejected"})
    BY <1>3, StoreEffect DEF Held
  <2>2. {"validated", "rejected"} \cap {"awaiting_response", "accepted"} = {}
    OBVIOUS
  <2>3. Total(Amounts, HeldPayments') = Total(Amounts, HeldPayments)
    BY <2>1, <2>2, HeldAfter
  <2> QED
    BY <1>1, <2>3, ConservedNext DEF Conserved
<1>4. ASSUME NEW r \in Requests, AcceptPayment(r) PROVE Conserved'
  <2>1. Held(r) /\ Becomes(r, {"accepted"})
    BY <1>4, AcceptEffect DEF Held
  <2>2. Total(Amounts, HeldPayments') = Total(Amounts, HeldPayments)
    BY <2>1, HeldAfter
  <2> QED
    BY <1>1, <2>2, ConservedNext DEF Conserved
<1> QED
  BY <1>2, <1>3, <1>4

\* At the start everything is available and nothing is held.
LEMMA ConservedInit == Init => Conserved
<1> SUFFICES ASSUME Init PROVE Conserved
  OBVIOUS
<1>1. HeldPayments = {}
  BY DEF Init, NoRow, HeldPayments, Held
<1>2. Total(Amounts, HeldPayments) = 0
  BY <1>1, TotalEmpty
<1>3. \A a \in Accounts : Opening[a] \in Int /\ Available[a] = Opening[a]
  BY OpeningAssumption DEF Init, Available
<1>4. Accounts \in SUBSET Accounts
  OBVIOUS
<1>5. Total(Available, Accounts) = Total(Opening, Accounts)
  <2> HIDE DEF Available
  <2> QED
    BY <1>3, <1>4, AccountsAssumption, TotalSame
<1>6. Total(Opening, Accounts) \in Int
  BY <1>3, <1>4, AccountsAssumption, TotalType
<1> QED
  BY <1>2, <1>5, <1>6 DEF Conserved

\* Every operation conserves money.
LEMMA ConservedStep == TypeOK /\ Conserved /\ [Next]_vars => Conserved'
<1> SUFFICES ASSUME TypeOK, Conserved, [Next]_vars PROVE Conserved'
  OBVIOUS
<1>1. ASSUME NEW r \in Requests, SubmitPayment(r) PROVE Conserved'
  <2>1. UNCHANGED <<balance, reserved>> /\ (UNCHANGED payment \/ StorePayment(r))
    BY <1>1, StoreEffect DEF SubmitPayment, RefuseRequest, LoseRequest, StoreRequest
  <2> QED
    BY <2>1, OthersConserve
<1>2. ASSUME NEW r \in Requests, ClearPayment(r) PROVE Conserved'
  BY <1>2, ClearConserves
<1>3. ASSUME NEW r \in Requests, AcceptPayment(r) PROVE Conserved'
  <2>1. UNCHANGED <<balance, reserved>>
    BY <1>3, AcceptEffect
  <2> QED
    BY <1>3, <2>1, OthersConserve
<1>4. ASSUME NEW r \in Requests, NEW text \in Reasons, RejectPayment(r, text) PROVE Conserved'
  BY <1>4, RejectConserves
<1>5. ASSUME NEW r \in Requests, SettlePayment(r) PROVE Conserved'
  BY <1>5, SettleConserves
<1>6. ASSUME NEW a \in Suspendable, SetAccountStatus(a) PROVE Conserved'
  <2>1. UNCHANGED <<balance, reserved>> /\ UNCHANGED payment
    BY <1>6 DEF SetAccountStatus
  <2> QED
    BY <2>1, OthersConserve
<1>7. ASSUME UNCHANGED vars PROVE Conserved'
  <2>1. UNCHANGED <<balance, reserved>> /\ UNCHANGED payment
    BY <1>7 DEF vars
  <2> QED
    BY <2>1, OthersConserve
<1> QED
  BY <1>1, <1>2, <1>3, <1>4, <1>5, <1>6, <1>7 DEF Next

\* Money is neither made nor lost: in every reachable state what is available on the
\* accounts and what the payments hold is what the accounts were opened with.
THEOREM MoneyIsConserved == Spec => []MoneyConserved
<1>1. Init => TypeOK /\ Conserved
  BY TypeInit, ConservedInit
<1>2. TypeOK /\ Conserved /\ [Next]_vars => (TypeOK /\ Conserved)'
  BY TypeStep, ConservedStep
<1>3. Conserved => MoneyConserved
  BY ConservedIsMoneyConserved
<1> QED
  BY <1>1, <1>2, <1>3, PTL DEF Spec
=============================================================================
