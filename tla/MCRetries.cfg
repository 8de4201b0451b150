CONSTANTS
  w1 = w1
  ana = ana
  c1 = c1
  k1 = k1
  k2 = k2
  Callers = {c1}
  Workers = {k1, k2}
  Wallets <- MCWallets
  Owner <- MCOwner
  CurrencyOf <- MCCurrencyOf
  Requests <- MCRequests
  NoReference = "none"
  MaxBalance = 3
  MaxAttempts = 2
  OpeningBalances = {2}
SPECIFICATION Spec
SYMMETRY WorkersAreAlike
INVARIANT TypeOK
INVARIANT WaitingIsBounded
INVARIANT OutcomeIsAnnouncedOnce
PROPERTY OperationsOnlyAdvance
PROPERTY WaitsOnlyForMissing
