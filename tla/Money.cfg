\* Three payments compete for the money of two accounts, one of which is suspended and
\* brought back at any time.
SPECIFICATION Spec
CONSTANTS
  Requests = {"p1", "p2", "p3"}
  Doc <- MCMoney
  Accounts = {"alice", "bob"}
  RoutingNumber <- MCRoutingNumber
  AccountCurrency <- MCCurrency
  Opening <- MCMoneyOpening
  MaxCents = 200
  Reasons = {"", "closed"}
  Suspendable = {"alice"}
INVARIANTS
  TypeOK
  ReservationsExact
  NoOverdraft
  HeldFundsSuffice
  LedgerExplainsBalances
  MoneyConserved
PROPERTY
  ImplementsTransfer
